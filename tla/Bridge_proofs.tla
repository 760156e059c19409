----------------------------- MODULE Bridge_proofs -----------------------------
(***************************************************************************)
(* Theorems about Bridge, for any number of runs, sockets, codes and calls. *)
(*                                                                         *)
(* Three invariants, one per book the backend keeps: Books (what a run     *)
(* made and on which connection), OneBrowser (the registry), and Spent     *)
(* (the pairing codes).  The extension writes in none of them.             *)
(***************************************************************************)
EXTENDS Bridge, TLAPS

USE BridgeConstants

-----------------------------------------------------------------------------
(* The invariants.                                                         *)

Stages == {"idle", "starting", "ready", "calling", "closing", "stopping", "done"}

\* A call is a record, whatever a reply put into it.
Shape ==
  /\ registry \in {NoSocket} \cup Sockets
  /\ far \in [Sockets -> {"none", "hello", "serving", "gone"}]
  /\ run \in [Runs -> [at : Stages, conn : {NoSocket} \cup Sockets,
                       made : 0..MaxCalls]]
  /\ calls = [c \in Calls |-> [method |-> calls[c].method, at |-> calls[c].at]]

\* A call is entered when it is made, and an idle run has made none.
Entered ==
  /\ \A c \in Calls : calls[c].at # "unmade" => c[2] <= run[c[1]].made
  /\ \A r \in Runs : run[r].at = "idle" => run[r].made = 0

Books == Shape /\ Entered /\ NobodyWaitsOnClosed

\* A redeemed code was issued, and is gone for good.
Spent ==
  /\ issued \in Nat /\ codes \subseteq 1..issued
  /\ \A p \in redeemed : p[1] \in 1..issued /\ p[1] \notin codes
  /\ CodeWorksOnce

-----------------------------------------------------------------------------
(* Who writes in the books.                                                *)

books == <<codes, issued, redeemed, registry, closed, run, calls>>
noOneServed == \A s \in Sockets : far'[s] = "serving" => far[s] = "serving"

\* Nothing the extension does changes the backend's books; at most a hello
\* arrives (background.ts, client.ts).
LEMMA ExtensionWritesNothing ==
  ASSUME Shape, Extension
  PROVE  UNCHANGED books /\ noOneServed
<1> USE DEF books, noOneServed, pairing, server, rpc, history
<1>1. CASE Wakes \/ Retries \/ AlarmRings
  BY <1>1 DEF Wakes, Retries, AlarmRings, Dials, Reconnects
<1>2. ASSUME NEW s \in Sockets, SocketOpens(s) PROVE UNCHANGED books /\ noOneServed
  BY <1>2 DEF SocketOpens, Shape
<1>3. ASSUME NEW s \in Sockets, SocketCloses(s) \/ HandlesWelcome(s)
      PROVE  UNCHANGED books /\ noOneServed
  BY <1>3 DEF SocketCloses, HandlesWelcome
<1>4. ASSUME NEW s \in Sockets, NEW c \in Calls,
             DropsReset(s, c) \/ HandlesLifecycle(s, c) \/ HandlesWork(s, c)
               \/ HandlesApprove(s, c)
      PROVE  UNCHANGED books /\ noOneServed
  BY <1>4 DEF DropsReset, HandlesLifecycle, HandlesWork, HandlesApprove
<1>5. ASSUME NEW w \in working,
             FinishesStart(w) \/ FinishesStop(w) \/ FinishesWork(w) \/ FinishesSend(w)
      PROVE  UNCHANGED books /\ noOneServed
  BY <1>5 DEF FinishesStart, FinishesStop, FinishesWork, FinishesSend
<1>6. QED
  BY <1>1, <1>2, <1>3, <1>4, <1>5 DEF Extension

\* A hello is all the backend's end of a socket hears from it by itself.
LEMMA ExtensionHearsHello ==
  ASSUME Shape, Extension
  PROVE  far' \in [Sockets -> {"none", "hello", "serving", "gone"}]
<1> USE DEF server
<1>t. far \in [Sockets -> {"none", "hello", "serving", "gone"}]
  BY DEF Shape
<1>1. ASSUME NEW s \in Sockets, SocketOpens(s)
      PROVE  far' \in [Sockets -> {"none", "hello", "serving", "gone"}]
  <2>1. UNCHANGED far \/ \E t : far' = [far EXCEPT ![t] = "hello"]
    BY <1>1 DEF SocketOpens
  <2>2. QED
    BY <2>1, <1>t
<1>2. CASE UNCHANGED far
  BY <1>2, <1>t
<1>3. CASE Wakes \/ Retries \/ AlarmRings
  BY <1>2, <1>3 DEF Wakes, Retries, AlarmRings, Dials
<1>4. ASSUME NEW s \in Sockets, SocketCloses(s) \/ HandlesWelcome(s) PROVE UNCHANGED far
  BY <1>4 DEF SocketCloses, HandlesWelcome
<1>5. ASSUME NEW s \in Sockets, NEW c \in Calls,
             DropsReset(s, c) \/ HandlesLifecycle(s, c) \/ HandlesWork(s, c)
               \/ HandlesApprove(s, c)
      PROVE  UNCHANGED far
  BY <1>5 DEF DropsReset, HandlesLifecycle, HandlesWork, HandlesApprove
<1>6. ASSUME NEW w \in working,
             FinishesStart(w) \/ FinishesStop(w) \/ FinishesWork(w) \/ FinishesSend(w)
      PROVE  UNCHANGED far
  BY <1>6 DEF FinishesStart, FinishesStop, FinishesWork, FinishesSend
<1>7. QED
  BY <1>1, <1>2, <1>3, <1>4, <1>5, <1>6 DEF Extension

\* From outside come new codes, codes that expire, and a call's deadline.
LEMMA OutsideWritesLittle ==
  ASSUME Outside
  PROVE  \/ Issues \/ CodeExpires \/ \E c \in Calls : TimesOut(c)
         \/ UNCHANGED books /\ noOneServed
BY DEF Outside, Unpairs, Suspends, TabCloses, Saves, SocketFails, Reconnects, books,
   noOneServed, pairing, server, rpc, history

-----------------------------------------------------------------------------
(* Calls.                                                                  *)

\* A call is a run and a number.
LEMMA CallParts ==
  /\ \A c \in Calls : c[1] \in Runs /\ c[2] \in 1..MaxCalls
  /\ \A r \in Runs, i \in 1..MaxCalls : <<r, i>> \in Calls
BY DEF Calls

\* The outcome of one call is written down, of the others nothing.
LEMMA OneOutcome ==
  ASSUME Shape, NEW c \in Calls, NEW outcome,
         calls' = [calls EXCEPT ![c].at = outcome]
  PROVE  /\ calls' = [d \in Calls |-> [method |-> calls'[d].method,
                                       at |-> calls'[d].at]]
         /\ calls'[c].at = outcome
         /\ \A d \in Calls : d # c => calls'[d] = calls[d]
<1> DEFINE marked == [method |-> calls[c].method, at |-> outcome]
<1>1. calls[c] = [method |-> calls[c].method, at |-> calls[c].at]
  BY DEF Shape
<1>2. [calls[c] EXCEPT !.at = outcome] = marked
  BY <1>1
<1>3. calls' = [calls EXCEPT ![c] = marked]
  BY <1>2
<1>4. DOMAIN calls = Calls
  BY DEF Shape
<1>5. /\ calls'[c] = marked /\ DOMAIN calls' = Calls
      /\ \A d \in Calls : d # c => calls'[d] = calls[d]
  <2> HIDE DEF marked
  <2>1. QED
    BY <1>3, <1>4 DEF Shape
<1>6. \A d \in Calls : calls'[d] = [method |-> calls'[d].method, at |-> calls'[d].at]
  BY <1>5 DEF Shape
<1>7. QED
  BY <1>3, <1>5, <1>6 DEF Shape

\* Closing a connection fails what is in flight on it and nothing else
\* (BridgeConnection.close).
LEMMA FailingSparesTheRest ==
  ASSUME Shape, NEW s \in {NoSocket} \cup Sockets, calls' = Failed(s)
  PROVE  /\ calls' = [d \in Calls |-> [method |-> calls'[d].method,
                                       at |-> calls'[d].at]]
         /\ \A d \in Calls : d \in On(s) /\ Waiting(d) => calls'[d].at = "unavailable"
         /\ \A d \in Calls : ~(d \in On(s) /\ Waiting(d)) => calls'[d] = calls[d]
<1>1. ASSUME NEW d \in Calls
      PROVE  [calls[d] EXCEPT !.at = "unavailable"]
               = [method |-> calls[d].method, at |-> "unavailable"]
  <2>1. calls[d] = [method |-> calls[d].method, at |-> calls[d].at]
    BY DEF Shape
  <2>2. QED
    BY <2>1
<1>2. ASSUME NEW d \in Calls
      PROVE  calls'[d] = IF d \in On(s) /\ Waiting(d)
                           THEN [method |-> calls[d].method, at |-> "unavailable"]
                           ELSE calls[d]
  BY <1>1 DEF Failed
<1>3. ASSUME NEW d \in Calls
      PROVE  calls'[d] = [method |-> calls'[d].method, at |-> calls'[d].at]
  <2>1. calls[d] = [method |-> calls[d].method, at |-> calls[d].at]
    BY DEF Shape
  <2>2. CASE d \in On(s) /\ Waiting(d)
    BY <1>2, <2>2
  <2>3. CASE ~(d \in On(s) /\ Waiting(d))
    BY <1>2, <2>1, <2>3
  <2>4. QED
    BY <2>2, <2>3
<1>4. /\ calls' = [d \in Calls |-> calls'[d]]
      /\ \A d \in Calls : d \in On(s) /\ Waiting(d) => calls'[d].at = "unavailable"
      /\ \A d \in Calls : ~(d \in On(s) /\ Waiting(d)) => calls'[d] = calls[d]
  <2>1. calls' = [d \in Calls |-> calls'[d]]
    BY DEF Failed
  <2>2. QED
    BY <1>2, <2>1
<1>5. QED
  BY <1>3, <1>4

\* What a run's calls write: they are new, in flight only on a connection that
\* is not closed, and no other call is touched (BridgeConnection.call).
LEMMA MakingAddsCalls ==
  ASSUME Shape, NEW r \in Runs, NEW s \in {NoSocket} \cup Sockets,
         NEW methods, NEW n \in Nat, Len(methods) = n, NEW at \in Stages,
         Makes(r, s, methods, at)
  PROVE  /\ run' = [run EXCEPT ![r] = [at |-> at, conn |-> s,
                                       made |-> run[r].made + n]]
         /\ run[r].made + n <= MaxCalls
         /\ calls' = [d \in Calls |-> [method |-> calls'[d].method,
                                       at |-> calls'[d].at]]
         /\ \A d \in Calls :
              IF d[1] = r /\ d[2] > run[r].made /\ d[2] <= run[r].made + n
                THEN calls'[d].at = "waiting" => s \notin closed
                ELSE calls'[d] = calls[d]
         /\ UNCHANGED <<codes, issued, redeemed, far, closed>>
<1> DEFINE before == run[r].made
           new(d) == d[1] = r /\ d[2] > before /\ d[2] <= before + n
<1>1. /\ run' = [run EXCEPT ![r] = [at |-> at, conn |-> s, made |-> before + n]]
      /\ before + n <= MaxCalls
      /\ UNCHANGED <<codes, issued, redeemed, far, closed>>
  BY DEF Makes, pairing, history
<1>2. PICK prospect \in Prospects(s) :
        calls' = [d \in Calls |->
                    IF new(d) THEN [method |-> methods[d[2] - before], at |-> prospect]
                              ELSE calls[d]]
  BY DEF Makes
<1>3. prospect = "waiting" => s \notin closed
  BY DEF Prospects
<1> HIDE DEF new
<1>4. ASSUME NEW d \in Calls, new(d)
      PROVE  /\ calls'[d] = [method |-> methods[d[2] - before], at |-> prospect]
             /\ calls'[d].at = prospect
             /\ calls'[d] = [method |-> calls'[d].method, at |-> calls'[d].at]
  <2>1. calls'[d] = [method |-> methods[d[2] - before], at |-> prospect]
    BY <1>2, <1>4
  <2>2. QED
    BY <2>1
<1>5. ASSUME NEW d \in Calls, ~new(d) PROVE calls'[d] = calls[d]
  BY <1>2, <1>5
<1>6. ASSUME NEW d \in Calls
      PROVE  calls'[d] = [method |-> calls'[d].method, at |-> calls'[d].at]
  <2>1. calls[d] = [method |-> calls[d].method, at |-> calls[d].at]
    BY DEF Shape
  <2>2. QED
    BY <2>1, <1>4, <1>5
<1>7. calls' = [d \in Calls |-> [method |-> calls'[d].method, at |-> calls'[d].at]]
  BY <1>2, <1>6
<1>8. \A d \in Calls : IF new(d) THEN calls'[d].at = "waiting" => s \notin closed
                               ELSE calls'[d] = calls[d]
  BY <1>3, <1>4, <1>5
<1>9. \A d \in Calls :
        IF d[1] = r /\ d[2] > run[r].made /\ d[2] <= run[r].made + n
          THEN calls'[d].at = "waiting" => s \notin closed
          ELSE calls'[d] = calls[d]
  BY <1>8, Zenon DEF new, before
<1>10. QED
  BY <1>1, <1>7, <1>9

\* So the books stay right, whether the run has a connection or just got it.
LEMMA MakingKeepsBooks ==
  ASSUME Books, NEW r \in Runs, NEW s \in {NoSocket} \cup Sockets,
         run[r].conn = s \/ run[r].at = "idle",
         NEW methods, NEW n \in Nat, Len(methods) = n,
         NEW at \in Stages, at # "idle", Makes(r, s, methods, at),
         UNCHANGED registry
  PROVE  Books'
<1> DEFINE made == run[r].made + n
<1>1. /\ run' = [run EXCEPT ![r] = [at |-> at, conn |-> s, made |-> made]]
      /\ made <= MaxCalls /\ UNCHANGED <<far, closed>>
  BY DEF Makes
<1>c. calls' = [d \in Calls |-> [method |-> calls'[d].method, at |-> calls'[d].at]]
  BY MakingAddsCalls, Zenon DEF Books
<1>2. \A d \in Calls :
        IF d[1] = r /\ d[2] > run[r].made /\ d[2] <= made
          THEN calls'[d].at = "waiting" => s \notin closed
          ELSE calls'[d] = calls[d]
  BY MakingAddsCalls DEF Books
<1>3. /\ run[r].made \in 0..MaxCalls /\ made \in 0..MaxCalls /\ run[r].made <= made
  BY <1>1 DEF Books, Shape
<1>4. /\ run'[r] = [at |-> at, conn |-> s, made |-> made]
      /\ \A q \in Runs : q # r => run'[q] = run[q]
      /\ run' \in [Runs -> [at : Stages, conn : {NoSocket} \cup Sockets,
                            made : 0..MaxCalls]]
  <2> DEFINE new == [at |-> at, conn |-> s, made |-> made]
  <2>1. new \in [at : Stages, conn : {NoSocket} \cup Sockets, made : 0..MaxCalls]
    BY <1>3
  <2>2. run' = [run EXCEPT ![r] = new]
    BY <1>1
  <2> HIDE DEF new
  <2>3. /\ run'[r] = new /\ \A q \in Runs : q # r => run'[q] = run[q]
        /\ run' \in [Runs -> [at : Stages, conn : {NoSocket} \cup Sockets,
                              made : 0..MaxCalls]]
    BY <2>1, <2>2 DEF Books, Shape
  <2>4. QED
    BY <2>3 DEF new
<1> HIDE DEF made
<1>5. Shape'
  BY <1>1, <1>c, <1>4 DEF Books, Shape
<1>6. Entered'
  <2>1. ASSUME NEW d \in Calls, calls'[d].at # "unmade"
        PROVE  d[2] <= run'[d[1]].made
    <3>1. d[1] \in Runs /\ d[2] \in 1..MaxCalls
      BY CallParts
    <3>2. CASE d[1] # r
      <4>1. calls'[d] = calls[d] /\ run'[d[1]] = run[d[1]]
        BY <3>1, <3>2, <1>2, <1>4
      <4>2. QED
        BY <4>1, <2>1 DEF Books, Entered
    <3>3. CASE d[1] = r /\ calls'[d] = calls[d]
      <4>1. d[2] <= run[r].made
        BY <3>3, <2>1 DEF Books, Entered
      <4>2. QED
        BY <4>1, <3>1, <3>3, <1>3, <1>4
    <3>4. CASE d[1] = r /\ d[2] <= made
      BY <3>4, <1>4
    <3>5. QED
      BY <3>2, <3>3, <3>4, <1>2
  <2>2. \A q \in Runs : run'[q].at = "idle" => run'[q].made = 0
    BY <1>4 DEF Books, Entered
  <2>3. QED
    BY <2>1, <2>2 DEF Entered
<1>7. NobodyWaitsOnClosed'
  <2>1. ASSUME NEW d \in Calls, calls'[d].at = "waiting"
        PROVE  run'[d[1]].conn \notin closed
    <3>1. d[1] \in Runs /\ d[2] \in 1..MaxCalls
      BY CallParts
    <3>2. CASE calls'[d] = calls[d]
      <4>1. calls[d].at = "waiting" /\ run[d[1]].conn \notin closed
        BY <2>1, <3>2 DEF Books, NobodyWaitsOnClosed, Waiting
      <4>2. CASE d[1] = r
        <5>1. d[2] <= run[r].made
          BY <4>1, <4>2 DEF Books, Entered
        <5>2. run[r].at # "idle"
          BY <5>1, <3>1 DEF Books, Entered
        <5>3. QED
          BY <4>1, <4>2, <5>2, <1>4
      <4>3. CASE d[1] # r
        BY <4>1, <4>3, <3>1, <1>4
      <4>4. QED
        BY <4>2, <4>3
    <3>3. CASE d[1] = r /\ s \notin closed
      BY <3>3, <1>4
    <3>4. QED
      BY <2>1, <3>2, <3>3, <1>2
  <2>2. QED
    BY <2>1, <1>1 DEF NobodyWaitsOnClosed, Waiting
<1>8. QED
  BY <1>5, <1>6, <1>7 DEF Books

\* A step that only writes outcomes of calls in flight, and takes a run no
\* further than its next stage.
Settles == \A c \in Calls : calls'[c] # calls[c] => Waiting(c)

RunsKeepTheirCalls ==
  /\ run' \in [Runs -> [at : Stages, conn : {NoSocket} \cup Sockets,
                        made : 0..MaxCalls]]
  /\ \A r \in Runs : /\ run'[r].conn = run[r].conn /\ run'[r].made = run[r].made
                     /\ run'[r].at = "idle" => run[r].at = "idle"

\* A step that leaves the runs alone.
LEMMA RunsMayRest ==
  ASSUME Shape, UNCHANGED run PROVE RunsKeepTheirCalls
BY DEF Shape, RunsKeepTheirCalls

\* A step that takes one run from stage to stage.
LEMMA RunsMoveOn ==
  ASSUME Shape, NEW r \in Runs, NEW at \in Stages, at # "idle",
         run' = [run EXCEPT ![r].at = at]
  PROVE  RunsKeepTheirCalls
<1> DEFINE moved == [at |-> at, conn |-> run[r].conn, made |-> run[r].made]
<1>1. run[r] \in [at : Stages, conn : {NoSocket} \cup Sockets, made : 0..MaxCalls]
  BY DEF Shape
<1>2. [run[r] EXCEPT !.at = at] = moved
  BY <1>1
<1>3. /\ moved \in [at : Stages, conn : {NoSocket} \cup Sockets, made : 0..MaxCalls]
      /\ moved.at # "idle" /\ moved.conn = run[r].conn /\ moved.made = run[r].made
  BY <1>1
<1>4. run' = [run EXCEPT ![r] = moved]
  BY <1>2
<1> HIDE DEF moved
<1>5. QED
  BY <1>3, <1>4 DEF Shape, RunsKeepTheirCalls

\* Giving calls their outcomes disturbs nothing else that is written down.
LEMMA SettlingKeepsBooks ==
  ASSUME Books, RunsKeepTheirCalls, Settles,
         calls' = [d \in Calls |-> [method |-> calls'[d].method,
                                    at |-> calls'[d].at]],
         registry' \in {NoSocket} \cup Sockets,
         far' \in [Sockets -> {"none", "hello", "serving", "gone"}],
         \A c \in Calls : calls'[c].at = "waiting" /\ Waiting(c)
                            => run[c[1]].conn \notin closed'
  PROVE  Books'
<1>1. Shape'
  BY DEF Books, Shape, RunsKeepTheirCalls
<1>2. Entered'
  <2>1. ASSUME NEW c \in Calls, calls'[c].at # "unmade"
        PROVE  c[2] <= run'[c[1]].made
    <3>1. calls[c].at # "unmade"
      BY <2>1 DEF Settles, Waiting
    <3>2. QED
      BY <3>1, CallParts DEF Books, Entered, RunsKeepTheirCalls
  <2>2. QED
    BY <2>1 DEF Books, Entered, RunsKeepTheirCalls
<1>3. NobodyWaitsOnClosed'
  <2>1. ASSUME NEW c \in Calls, calls'[c].at = "waiting"
        PROVE  run'[c[1]].conn \notin closed'
    <3>1. Waiting(c)
      BY <2>1 DEF Settles, Waiting
    <3>2. QED
      BY <2>1, <3>1, CallParts DEF RunsKeepTheirCalls
  <2>2. QED
    BY <2>1 DEF NobodyWaitsOnClosed, Waiting
<1>4. QED
  BY <1>1, <1>2, <1>3 DEF Books

\* While runs and connections rest, an outcome written is all that happens.
LEMMA OutcomesKeepBooks ==
  ASSUME Books, UNCHANGED <<run, registry, closed, far>>,
         NEW c \in Calls, Waiting(c), NEW outcome,
         calls' = [calls EXCEPT ![c].at = outcome]
  PROVE  Books' /\ Settles
<1>1. Shape /\ RunsKeepTheirCalls
  BY RunsMayRest DEF Books
<1>2. /\ calls' = [d \in Calls |-> [method |-> calls'[d].method,
                                    at |-> calls'[d].at]]
      /\ \A d \in Calls : d # c => calls'[d] = calls[d]
  BY <1>1, OneOutcome
<1>3. Settles
  BY <1>2 DEF Settles
<1>4. /\ registry' \in {NoSocket} \cup Sockets
      /\ far' \in [Sockets -> {"none", "hello", "serving", "gone"}]
      /\ \A d \in Calls : Waiting(d) => run[d[1]].conn \notin closed'
  BY <1>1 DEF Shape, Books, NobodyWaitsOnClosed
<1>5. QED
  BY <1>1, <1>2, <1>3, <1>4, SettlingKeepsBooks

\* A connection is closed, with what is in flight on it.
LEMMA ClosingKeepsBooks ==
  ASSUME Books, UNCHANGED run, NEW s \in {NoSocket} \cup Sockets,
         calls' = Failed(s), closed' \subseteq closed \cup {s},
         registry' \in {NoSocket} \cup Sockets,
         far' \in [Sockets -> {"none", "hello", "serving", "gone"}]
  PROVE  Books' /\ Settles
<1>1. Shape /\ RunsKeepTheirCalls
  BY RunsMayRest DEF Books
<1>2. /\ calls' = [d \in Calls |-> [method |-> calls'[d].method,
                                    at |-> calls'[d].at]]
      /\ \A d \in Calls : d \in On(s) /\ Waiting(d) => calls'[d].at = "unavailable"
      /\ \A d \in Calls : ~(d \in On(s) /\ Waiting(d)) => calls'[d] = calls[d]
  BY <1>1, FailingSparesTheRest
<1>3. Settles
  BY <1>2 DEF Settles
<1>4. ASSUME NEW d \in Calls, calls'[d].at = "waiting", Waiting(d)
      PROVE  run[d[1]].conn \notin closed'
  <2>1. d \notin On(s)
    BY <1>2, <1>4
  <2>2. run[d[1]].conn # s
    BY <2>1 DEF On
  <2>3. run[d[1]].conn \notin closed
    BY <1>4 DEF Books, NobodyWaitsOnClosed
  <2>4. QED
    BY <2>2, <2>3
<1>5. QED
  BY <1>1, <1>2, <1>3, <1>4, SettlingKeepsBooks

-----------------------------------------------------------------------------
(* The books, action by action.                                            *)

\* Whoever writes: outcomes only where a call was in flight, or new calls.
OutcomesStand == \A c \in Calls : calls[c].at \in Outcomes => calls'[c] = calls[c]

\* Only a call without an outcome is given one (BridgeConnection.resolve).
LEMMA SettledStands ==
  ASSUME Settles PROVE OutcomesStand
BY DEF Settles, OutcomesStand, Waiting, Outcomes

\* New calls carry numbers the run has not used.
LEMMA NewCallsAreNew ==
  ASSUME Books, NEW r \in Runs, NEW s \in {NoSocket} \cup Sockets,
         NEW methods, NEW n \in Nat, Len(methods) = n,
         NEW at \in Stages, Makes(r, s, methods, at)
  PROVE  OutcomesStand
<1>1. Shape
  BY DEF Books
<1>2. \A d \in Calls :
        IF d[1] = r /\ d[2] > run[r].made /\ d[2] <= run[r].made + n
          THEN calls'[d].at = "waiting" => s \notin closed
          ELSE calls'[d] = calls[d]
  BY <1>1, MakingAddsCalls
<1>3. run[r].made \in Nat
  BY <1>1 DEF Shape
<1>4. ASSUME NEW c \in Calls, calls[c].at \in Outcomes
      PROVE  calls'[c] = calls[c]
  <2>1. c[2] <= run[c[1]].made
    BY <1>4 DEF Books, Entered, Outcomes
  <2>2. ~(c[1] = r /\ c[2] > run[r].made)
    BY <2>1, <1>3, CallParts
  <2>3. QED
    BY <2>2, <1>2
<1>5. QED
  BY <1>4 DEF OutcomesStand

\* The backend's end of a socket (bridge.py, BridgeConnection and registry).
LEMMA BackendKeepsBooks ==
  ASSUME Books, Backend
  PROVE  Books' /\ OutcomesStand
<1> USE DEF server, rpc
<1>t. /\ registry \in {NoSocket} \cup Sockets
      /\ far \in [Sockets -> {"none", "hello", "serving", "gone"}]
      /\ Shape
  BY DEF Books, Shape
<1>1. ASSUME NEW s \in Sockets, Greets(s) PROVE Books' /\ Settles
  <2>1. /\ calls' = Failed(registry) /\ closed' \subseteq closed \cup {registry}
        /\ registry' \in {NoSocket} \cup Sockets /\ UNCHANGED run
    BY <1>1 DEF Greets, Registers
  <2>2. far' = [far EXCEPT ![s] = "serving"] \/ far' = [far EXCEPT ![s] = "gone"]
    BY <1>1 DEF Greets
  <2>3. far' \in [Sockets -> {"none", "hello", "serving", "gone"}]
    BY <1>t, <2>2
  <2>4. QED
    BY <1>t, <2>1, <2>3, ClosingKeepsBooks
<1>2. ASSUME NEW s \in Sockets, TurnsAway(s) PROVE Books' /\ Settles
  <2>1. UNCHANGED <<registry, closed, run, calls>> /\ far' = [far EXCEPT ![s] = "gone"]
    BY <1>2 DEF TurnsAway
  <2>2. far' \in [Sockets -> {"none", "hello", "serving", "gone"}]
    BY <1>t, <2>1
  <2>3. Books'
    BY <2>1, <2>2 DEF Books, Shape, Entered, NobodyWaitsOnClosed, Waiting
  <2>4. QED
    BY <2>1, <2>3 DEF Settles
<1>3. ASSUME NEW s \in Sockets, HearsReply(s) PROVE Books' /\ Settles
  <2>1. UNCHANGED <<run, registry, closed, far>>
    BY <1>3 DEF HearsReply
  <2>2. CASE UNCHANGED calls
    BY <2>1, <2>2 DEF Books, Shape, Entered, NobodyWaitsOnClosed, Waiting, Settles
  <2>3. CASE \E c \in Calls, outcome \in {Head(toBack[s])[3]} :
               Waiting(c) /\ calls' = [calls EXCEPT ![c].at = outcome]
    BY <2>1, <2>3, OutcomesKeepBooks
  <2>4. QED
    BY <1>3, <2>2, <2>3 DEF HearsReply, Answered, On
<1>4. ASSUME NEW s \in Sockets, HearsDetached(s) PROVE Books' /\ Settles
  <2>1. /\ calls' = Failed(s) /\ closed' \subseteq closed \cup {s}
        /\ UNCHANGED <<run, registry, far>>
    BY <1>4 DEF HearsDetached
  <2>2. QED
    BY <1>t, <2>1, ClosingKeepsBooks
<1>5. ASSUME NEW s \in Sockets, HearsClose(s) PROVE Books' /\ Settles
  <2>1. /\ calls' = Failed(s) /\ closed' \subseteq closed \cup {s}
        /\ registry' \in {NoSocket} \cup Sockets
        /\ UNCHANGED run /\ far' = [far EXCEPT ![s] = "gone"]
    BY <1>t, <1>5 DEF HearsClose, Unregisters
  <2>2. far' \in [Sockets -> {"none", "hello", "serving", "gone"}]
    BY <1>t, <2>1
  <2>3. QED
    BY <1>t, <2>1, <2>2, ClosingKeepsBooks
<1>6. QED
  BY <1>1, <1>2, <1>3, <1>4, <1>5, SettledStands DEF Backend

\* A run's stage moves on without a call (extension_surface.py).
LEMMA GoingKeepsBooks ==
  ASSUME Books, NEW r \in Runs, NEW at \in Stages, at # "idle", Goes(r, at)
  PROVE  Books' /\ Settles
<1>1. /\ run' = [run EXCEPT ![r].at = at]
      /\ UNCHANGED <<calls, registry, closed, far>>
  BY DEF Goes, server
<1>2. Shape
  BY DEF Books
<1>3. RunsKeepTheirCalls
  BY <1>1, <1>2, RunsMoveOn
<1>4. Settles
  BY <1>1 DEF Settles
<1>5. /\ calls' = [d \in Calls |-> [method |-> calls'[d].method,
                                    at |-> calls'[d].at]]
      /\ registry' \in {NoSocket} \cup Sockets
      /\ far' \in [Sockets -> {"none", "hello", "serving", "gone"}]
      /\ \A d \in Calls : Waiting(d) => run[d[1]].conn \notin closed'
  BY <1>1 DEF Books, Shape, NobodyWaitsOnClosed
<1>6. QED
  BY <1>3, <1>4, <1>5, SettlingKeepsBooks

\* Everything a run does (ExtensionEmailSurface over its connection).
LEMMA RunsKeepBooks ==
  ASSUME Books, NEW r \in Runs, RunSteps(r)
  PROVE  Books' /\ OutcomesStand
<1>t. /\ run[r].conn \in {NoSocket} \cup Sockets /\ run[r].at \in Stages
      /\ registry \in {NoSocket} \cup Sockets /\ Shape
  BY DEF Books, Shape
<1>n. /\ Len(<<"start">>) = 1 /\ Len(<<"reset">>) = 1 /\ Len(<<"stop">>) = 1
      /\ Len(<<"observe">>) = 1 /\ Len(<<"act">>) = 1 /\ Len(<<"approve", "send">>) = 2
      /\ 1 \in Nat /\ 2 \in Nat
  OBVIOUS
<1>g. {"starting", "ready", "calling", "closing", "stopping", "done"} \subseteq Stages
  BY DEF Stages
<1>1. CASE Starts(r)
  <2>1. /\ run[r].at = "idle" /\ UNCHANGED registry
        /\ Makes(r, registry, <<"start">>, "starting")
    BY <1>1 DEF Starts
  <2>2. QED
    BY <2>1, <1>t, <1>n, <1>g, MakingKeepsBooks, NewCallsAreNew
<1>2. CASE Resets(r)
  <2>1. Makes(r, run[r].conn, <<"reset">>, "calling") /\ UNCHANGED registry
    BY <1>2 DEF Resets
  <2>2. QED
    BY <2>1, <1>t, <1>n, <1>g, MakingKeepsBooks, NewCallsAreNew
<1>3. CASE Works(r, "observe")
  <2>1. Makes(r, run[r].conn, <<"observe">>, "calling") /\ UNCHANGED registry
    BY <1>3 DEF Works
  <2>2. QED
    BY <2>1, <1>t, <1>n, <1>g, MakingKeepsBooks, NewCallsAreNew
<1>4. CASE Works(r, "act")
  <2>1. Makes(r, run[r].conn, <<"act">>, "calling") /\ UNCHANGED registry
    BY <1>4 DEF Works
  <2>2. QED
    BY <2>1, <1>t, <1>n, <1>g, MakingKeepsBooks, NewCallsAreNew
<1>5. CASE SendsApproved(r)
  <2>1. Makes(r, run[r].conn, <<"approve", "send">>, "calling") /\ UNCHANGED registry
    BY <1>5 DEF SendsApproved
  <2>2. QED
    BY <2>1, <1>t, <1>n, <1>g, MakingKeepsBooks, NewCallsAreNew
<1>6. CASE Closes(r)
  <2>1. Makes(r, run[r].conn, <<"stop">>, "stopping") /\ UNCHANGED registry
    BY <1>6 DEF Closes
  <2>2. QED
    BY <2>1, <1>t, <1>n, <1>g, MakingKeepsBooks, NewCallsAreNew
<1>7. CASE FindsNoBrowser(r)
  <2>1. /\ run' = [run EXCEPT ![r].at = "done"] /\ registry' = NoSocket
        /\ UNCHANGED <<far, closed, calls>>
    BY <1>7 DEF FindsNoBrowser
  <2>2. RunsKeepTheirCalls /\ Settles
    BY <2>1, <1>t, <1>g, RunsMoveOn DEF Settles
  <2>3. /\ calls' = [d \in Calls |-> [method |-> calls'[d].method,
                                      at |-> calls'[d].at]]
        /\ registry' \in {NoSocket} \cup Sockets
        /\ far' \in [Sockets -> {"none", "hello", "serving", "gone"}]
        /\ \A d \in Calls : Waiting(d) => run[d[1]].conn \notin closed'
    BY <2>1 DEF Books, Shape, NobodyWaitsOnClosed
  <2>4. QED
    BY <2>2, <2>3, SettlingKeepsBooks, SettledStands
<1>8. CASE StartReturns(r) \/ CallReturns(r) \/ Finishes(r) \/ StopReturns(r)
  <2>1. \E at \in {"ready", "closing", "done"} : Goes(r, at)
    BY <1>8 DEF StartReturns, CallReturns, Finishes, StopReturns
  <2>2. QED
    BY <2>1, <1>g, GoingKeepsBooks, SettledStands
<1>9. CASE Cancelled(r)
  <2>1. PICK at \in {"closing", "done"} : run' = [run EXCEPT ![r].at = at]
    <3>1. \E at \in {"closing", "done"} :
             at = IF run[r].at = "starting" THEN "done" ELSE "closing"
      OBVIOUS
    <3>2. QED
      BY <3>1, <1>9 DEF Cancelled
  <2>2. UNCHANGED <<registry, closed, far>>
    BY <1>9 DEF Cancelled, server
  <2>3. RunsKeepTheirCalls
    BY <2>1, <1>t, <1>g, RunsMoveOn
  <2>4. /\ calls' = [d \in Calls |-> [method |-> calls'[d].method,
                                      at |-> calls'[d].at]]
        /\ Settles
    <3>1. CASE Waiting(Current(r))
      <4>1. calls' = [calls EXCEPT ![Current(r)].at = "forgotten"]
        BY <1>9, <3>1 DEF Cancelled
      <4>2. CASE Current(r) \in Calls
        BY <4>1, <4>2, <3>1, <1>t, OneOutcome DEF Settles
      <4>3. CASE Current(r) \notin Calls
        BY <4>1, <4>3, <1>t DEF Shape, Settles
      <4>4. QED
        BY <4>2, <4>3
    <3>2. CASE ~Waiting(Current(r))
      BY <1>9, <3>2, <1>t DEF Cancelled, Shape, Settles
    <3>3. QED
      BY <3>1, <3>2
  <2>5. /\ registry' \in {NoSocket} \cup Sockets
        /\ far' \in [Sockets -> {"none", "hello", "serving", "gone"}]
        /\ \A d \in Calls : Waiting(d) => run[d[1]].conn \notin closed'
    BY <2>2 DEF Books, Shape, NobodyWaitsOnClosed
  <2>6. QED
    BY <2>3, <2>4, <2>5, SettlingKeepsBooks, SettledStands
<1>10. QED
  BY <1>1, <1>2, <1>3, <1>4, <1>5, <1>6, <1>7, <1>8, <1>9 DEF RunSteps

\* Whatever happens.
LEMMA BooksStep ==
  ASSUME Books, [Next]_vars
  PROVE  Books' /\ OutcomesStand
<1>q. ASSUME UNCHANGED <<registry, far, closed, run, calls>>
      PROVE  Books' /\ OutcomesStand
  BY <1>q DEF Books, Shape, Entered, NobodyWaitsOnClosed, Waiting, OutcomesStand
<1>1. CASE Extension
  <2>1. UNCHANGED <<registry, closed, run, calls>>
    BY <1>1, ExtensionWritesNothing DEF Books, books
  <2>2. far' \in [Sockets -> {"none", "hello", "serving", "gone"}]
    BY <1>1, ExtensionHearsHello DEF Books, Shape
  <2>3. Books' /\ OutcomesStand
    BY <2>1, <2>2 DEF Books, Shape, Entered, NobodyWaitsOnClosed, Waiting, OutcomesStand
  <2>4. QED
    BY <2>3
<1>2. CASE Backend
  BY <1>2, BackendKeepsBooks
<1>3. CASE Outside
  <2>1. CASE Issues \/ CodeExpires
    BY <2>1, <1>q DEF Issues, CodeExpires, server, rpc
  <2>2. ASSUME NEW c \in Calls, TimesOut(c) PROVE Books' /\ OutcomesStand
    <3>1. /\ Waiting(c) /\ calls' = [calls EXCEPT ![c].at = "unavailable"]
          /\ UNCHANGED <<run, registry, closed, far>>
      BY <2>2 DEF TimesOut, server
    <3>2. QED
      BY <3>1, OutcomesKeepBooks, SettledStands
  <2>3. CASE Unpairs \/ Suspends \/ TabCloses \/ (\E code \in Codes : Saves(code))
               \/ (\E s \in Sockets : SocketFails(s))
    BY <2>3, <1>q DEF Unpairs, Suspends, TabCloses, Saves, SocketFails, server, rpc
  <2>4. QED
    BY <1>3, <2>1, <2>2, <2>3 DEF Outside
<1>4. ASSUME NEW r \in Runs, RunSteps(r) PROVE Books' /\ OutcomesStand
  BY <1>4, RunsKeepBooks
<1>5. CASE UNCHANGED vars
  BY <1>5, <1>q DEF vars, server, rpc
<1>6. QED
  BY <1>1, <1>2, <1>3, <1>4, <1>5 DEF Next

-----------------------------------------------------------------------------
(* The registry and the codes.                                             *)

\* A socket is served for a run's sake while it is the registered one.
LEMMA OneBrowserStep ==
  ASSUME Shape, OneBrowser, [Next]_vars
  PROVE  OneBrowser'
<1> USE DEF server, OneBrowser
<1>t. far \in [Sockets -> {"none", "hello", "serving", "gone"}]
  BY DEF Shape
<1>n. NoSocket \notin Sockets
  BY DEF NoSocket, Sockets
<1>q. ASSUME noOneServed, closed \subseteq closed', UNCHANGED registry
      PROVE  OneBrowser'
  BY <1>q DEF noOneServed
<1>1. CASE Extension
  BY <1>1, <1>q, ExtensionWritesNothing DEF books
<1>2. CASE Backend
  <2>1. ASSUME NEW s \in Sockets, Greets(s) PROVE OneBrowser'
    <3>1. /\ registry' = s /\ closed' = closed \cup ({registry} \ {NoSocket})
          /\ (far' = [far EXCEPT ![s] = "serving"] \/ far' = [far EXCEPT ![s] = "gone"])
      BY <2>1 DEF Greets, Registers
    <3>2. ASSUME NEW t \in Sockets, t # s, far'[t] = "serving", t \notin closed'
          PROVE  FALSE
      <4>1. far[t] = "serving" /\ t \notin closed
        BY <3>1, <3>2, <1>t
      <4>2. t = registry
        BY <4>1
      <4>3. QED
        BY <4>2, <3>1, <3>2, <1>n
    <3>3. QED
      BY <3>1, <3>2
  <2>2. ASSUME NEW s \in Sockets, TurnsAway(s) PROVE OneBrowser'
    <3>1. /\ far' = [far EXCEPT ![s] = "gone"] /\ UNCHANGED <<registry, closed>>
      BY <2>2 DEF TurnsAway
    <3>2. noOneServed
      BY <3>1, <1>t DEF noOneServed
    <3>3. QED
      BY <3>1, <3>2, <1>q
  <2>3. ASSUME NEW s \in Sockets, HearsReply(s) \/ HearsDetached(s) PROVE OneBrowser'
    BY <2>3, <1>q DEF HearsReply, HearsDetached, noOneServed
  <2>4. ASSUME NEW s \in Sockets, HearsClose(s) PROVE OneBrowser'
    <3>1. /\ far' = [far EXCEPT ![s] = "gone"] /\ closed' = closed \cup {s}
          /\ registry' = IF registry = s THEN NoSocket ELSE registry
      BY <2>4 DEF HearsClose, Unregisters
    <3>2. ASSUME NEW t \in Sockets, far'[t] = "serving", t \notin closed'
          PROVE  t = registry'
      <4>1. t # s /\ far[t] = "serving" /\ t \notin closed
        BY <3>1, <3>2, <1>t
      <4>2. t = registry
        BY <4>1
      <4>3. QED
        BY <4>1, <4>2, <3>1
    <3>3. QED
      BY <3>2
  <2>5. QED
    BY <1>2, <2>1, <2>2, <2>3, <2>4 DEF Backend
<1>3. CASE Outside
  BY <1>3, <1>q, OutsideWritesLittle DEF Issues, CodeExpires, TimesOut, books, noOneServed
<1>4. ASSUME NEW r \in Runs, RunSteps(r) PROVE OneBrowser'
  <2>1. CASE FindsNoBrowser(r)
    <3>1. /\ registry = NoSocket \/ registry \in closed
          /\ UNCHANGED <<far, closed>>
      BY <2>1 DEF FindsNoBrowser
    <3>2. QED
      BY <3>1, <1>n
  <2>2. CASE StartReturns(r) \/ CallReturns(r) \/ Finishes(r) \/ StopReturns(r)
               \/ Cancelled(r)
    BY <2>2, <1>q
       DEF StartReturns, CallReturns, Finishes, StopReturns, Cancelled, Goes, noOneServed
  <2>3. CASE \/ Starts(r) \/ Resets(r) \/ Works(r, "observe") \/ Works(r, "act")
             \/ SendsApproved(r) \/ Closes(r)
    <3>1. UNCHANGED <<registry, far, closed>>
      BY <2>3 DEF Starts, Resets, Works, SendsApproved, Closes, Makes
    <3>2. QED
      BY <3>1, <1>q DEF noOneServed
  <2>4. QED
    BY <1>4, <2>1, <2>2, <2>3 DEF RunSteps
<1>5. CASE UNCHANGED vars
  BY <1>5 DEF vars
<1>6. QED
  BY <1>1, <1>2, <1>3, <1>4, <1>5 DEF Next

\* A code goes from issued to redeemed and never back.
LEMMA SpentStep ==
  ASSUME Shape, Spent, [Next]_vars
  PROVE  Spent'
<1>q. ASSUME UNCHANGED <<codes, issued, redeemed>> PROVE Spent'
  BY <1>q DEF Spent, CodeWorksOnce
<1>1. CASE Extension
  BY <1>1, <1>q, ExtensionWritesNothing DEF books
<1>2. CASE Backend
  <2>1. ASSUME NEW s \in Sockets, Greets(s) PROVE Spent'
    <3>1. Resolves(s) /\ issued' = issued
      BY <2>1 DEF Greets
    <3>2. CASE UNCHANGED <<codes, redeemed>>
      BY <3>1, <3>2, <1>q
    <3>3. CASE Redeems(s)
      <4>1. PICK c \in codes : codes' = codes \ {c} /\ redeemed' = redeemed \cup {<<c, s>>}
        BY <3>3 DEF Redeems
      <4>2. c \in 1..issued
        BY <4>1 DEF Spent
      <4>3. \A p \in redeemed' : p[1] \in 1..issued' /\ p[1] \notin codes'
        BY <3>1, <4>1, <4>2 DEF Spent
      <4>4. ASSUME NEW p \in redeemed', NEW q \in redeemed', p[1] = q[1] PROVE p = q
        BY <4>1, <4>4 DEF Spent, CodeWorksOnce
      <4>5. QED
        BY <3>1, <4>1, <4>3, <4>4 DEF Spent, CodeWorksOnce
    <3>4. QED
      BY <3>1, <3>2, <3>3 DEF Resolves
  <2>2. ASSUME NEW s \in Sockets,
               TurnsAway(s) \/ HearsReply(s) \/ HearsDetached(s) \/ HearsClose(s)
        PROVE  Spent'
    BY <2>2, <1>q DEF TurnsAway, HearsReply, HearsDetached, HearsClose, pairing, history
  <2>3. QED
    BY <1>2, <2>1, <2>2 DEF Backend
<1>3. CASE Outside
  <2>1. CASE Issues
    <3>1. issued' = issued + 1 /\ codes' = {issued + 1} /\ UNCHANGED redeemed
      BY <2>1 DEF Issues, history
    <3>2. issued' \in Nat /\ codes' \subseteq 1..issued' /\ 1..issued \subseteq 1..issued'
      BY <3>1 DEF Spent
    <3>3. ASSUME NEW p \in redeemed PROVE p[1] \in 1..issued' /\ p[1] \notin codes'
      BY <3>1 DEF Spent
    <3>4. QED
      BY <3>1, <3>2, <3>3 DEF Spent, CodeWorksOnce
  <2>2. CASE CodeExpires
    BY <2>2 DEF CodeExpires, history, Spent, CodeWorksOnce
  <2>3. QED
    BY <1>3, <1>q, <2>1, <2>2, OutsideWritesLittle DEF TimesOut, books, pairing, history
<1>4. ASSUME NEW r \in Runs, RunSteps(r) PROVE Spent'
  <2>1. CASE FindsNoBrowser(r)
    BY <2>1, <1>q DEF FindsNoBrowser, pairing, history
  <2>2. CASE StartReturns(r) \/ CallReturns(r) \/ Finishes(r) \/ StopReturns(r)
               \/ Cancelled(r)
    BY <2>2, <1>q
       DEF StartReturns, CallReturns, Finishes, StopReturns, Cancelled, Goes, pairing,
           history
  <2>3. CASE \/ Starts(r) \/ Resets(r) \/ Works(r, "observe") \/ Works(r, "act")
             \/ SendsApproved(r) \/ Closes(r)
    BY <2>3, <1>q
       DEF Starts, Resets, Works, SendsApproved, Closes, Makes, pairing, history
  <2>4. QED
    BY <1>4, <2>1, <2>2, <2>3 DEF RunSteps
<1>5. CASE UNCHANGED vars
  BY <1>5, <1>q DEF vars, pairing, history
<1>6. QED
  BY <1>1, <1>2, <1>3, <1>4, <1>5 DEF Next

-----------------------------------------------------------------------------
(* The theorems.                                                           *)

\* Before anybody connects nothing is written down.
LEMMA BooksOpenRight == Init => Books /\ OneBrowser /\ Spent
BY DEF Init, Books, Shape, Entered, NobodyWaitsOnClosed, OneBrowser, Spent, CodeWorksOnce,
   Waiting, Stages, Sockets, NoSocket

\* What the backend writes down of runs, calls and connections is consistent
\* in every reachable state: the invariant the next four theorems rest on
\* (bridge.py).
THEOREM BooksAreRight == Spec => []Books
<1>1. Init => Books
  BY BooksOpenRight
<1>2. Books /\ [Next]_vars => Books'
  BY BooksStep
<1>3. QED
  BY <1>1, <1>2, PTL DEF Spec

\* Of all the sockets the backend serves, at most one is open, and it is the
\* one a new run would be given: a newer connection closes the older, and the
\* older one's late end does not evict the newer (BridgeRegistry.register and
\* unregister).
THEOREM OneBrowserPerOwner == Spec => []OneBrowser
<1>1. Init => OneBrowser
  BY BooksOpenRight
<1>2. Books /\ OneBrowser /\ [Next]_vars => OneBrowser'
  BY OneBrowserStep DEF Books
<1>3. QED
  BY <1>1, <1>2, BooksAreRight, PTL DEF Spec

\* No run waits for a reply on a connection the backend knows to be closed,
\* however calls, closes and newer connections interleave: a close fails what
\* is in flight, and nothing new goes in flight afterwards
\* (BridgeConnection.close and call).
THEOREM NobodyWaitsInVain == Spec => []NobodyWaitsOnClosed
<1>1. Books => NobodyWaitsOnClosed
  BY DEF Books
<1>2. QED
  BY <1>1, BooksAreRight, PTL

\* A call has one outcome: a reply after its timeout, its connection's close or
\* its run's cancellation changes nothing (BridgeConnection.resolve).
THEOREM FirstOutcomeStands == Spec => OutcomeStands
<1>1. Books /\ [Next]_vars =>
        [\A c \in Calls : calls[c].at \in Outcomes => calls'[c] = calls[c]]_vars
  BY BooksStep DEF OutcomesStand
<1>2. QED
  BY <1>1, BooksAreRight, PTL DEF Spec, OutcomeStands

\* A pairing code lets one connection in, however often it is presented and
\* whatever is issued later (PairingCodes.redeem).
THEOREM CodeLetsOneIn == Spec => []CodeWorksOnce
<1>1. Init => Spent
  BY BooksOpenRight
<1>2. Books /\ Spent /\ [Next]_vars => Spent'
  BY SpentStep DEF Books
<1>3. Spent => CodeWorksOnce
  BY DEF Spent
<1>4. QED
  BY <1>1, <1>2, <1>3, BooksAreRight, PTL DEF Spec

=============================================================================
