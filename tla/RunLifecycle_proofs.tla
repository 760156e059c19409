-------------------------- MODULE RunLifecycle_proofs --------------------------
(***************************************************************************)
(* Theorems about RunLifecycle, for any runs, sockets and number of cards. *)
(*                                                                         *)
(* Four invariants carry them.  Custody says who is answerable for a run:  *)
(* whoever cancelled it is still waiting for it, and a browser that is     *)
(* open has its cleanup registered.  Silence says what is left of a run    *)
(* whose end was announced, and Replying which future a reply was put in.  *)
(* Quiet says that a driver at work can be reached; it needs emissions     *)
(* that do not suspend their handler.                                      *)
(***************************************************************************)
EXTENDS RunLifecycle, TLAPS

USE LifecycleConstants

-----------------------------------------------------------------------------
(* The invariants.                                                         *)

\* A handler that is suspended knows the run it is suspended for.
Aware(s) ==
  /\ sock[s] \in {"starting", "joining"} => target[s] \in Runs
  /\ sock[s] = "stopping" =>
       viewing[s] \in Runs /\ sentinels[viewing[s]] > 0
  /\ sock[s] = "starting" =>
       /\ drive[target[s]] = "unused"
       /\ target[s] \in registered \/ finished[target[s]]
  /\ \A t \in Sockets :
       sock[s] = "starting" /\ sock[t] = "starting" /\ target[s] = target[t]
         => s = t

Answerable(r) ==
  /\ cancelled[r] => drive[r] \in Busy /\ Stopping(r) /\ sentinels[r] > 0
  /\ drive[r] \in {"unused", "opening", "openfailed"} => browser[r] # "open"
  /\ drive[r] = "ended" /\ ~Stopping(r) => browser[r] # "open"
  /\ browser[r] = "open" => cleanup[r]
  /\ drive[r] \in {"closing", "ended"} => sentinels[r] > 0
  /\ drive[r] = "crashed" => NoModel

Custody ==
  /\ TypeOK
  /\ \A s \in Sockets : Aware(s)
  /\ \A r \in Runs : Answerable(r)

\* The driver is past its last word.
Over(r) == drive[r] \in {"closing", "ended", "crashed"}

\* A run whose end was announced: a stop is still at it, or its driver is past
\* its last word.
Announced(r) ==
  /\ sentinels[r] > 0 /\ r \in registered => Announcing(r) \/ Over(r)
  /\ sentinels[r] > 0 /\ drive[r] = "unused" => finished[r] \/ r \in registered
  /\ Stopping(r) /\ ~cancelled[r] => Over(r)

Silence == \A r \in Runs : Announced(r)

\* A future is open only while its card waits, and what it was given it was
\* given at that card.
Waits(r) ==
  /\ slot[r] = "open" => drive[r] = "waiting"
  /\ drive[r] = "waiting" /\ slot[r] = "done" => reply[r].given = card[r]
  /\ resumed[r].reply.given = resumed[r].card

Replying == \A r \in Runs : Waits(r)

\* A run has its task as soon as it is registered, and somebody who knows it as
\* long as that task works.
Calm(r) ==
  /\ drive[r] \in Busy => Reachable(r)
  /\ r \in registered => drive[r] # "unused"

Quiet ==
  /\ \A s \in Sockets : sock[s] \in {"idle", "joining", "gone"}
  /\ \A r \in Runs : Calm(r)

-----------------------------------------------------------------------------
(* Types.                                                                  *)

\* The names of the nodes of drive, for typing.
LEMMA Nodes ==
  /\ {"unused", "ended", "crashed"} \subseteq Idle
  /\ {"opening", "openfailed", "preparing", "running", "asking", "waiting",
      "giving up", "wrapping", "closing"} \subseteq Busy
  /\ Idle \cap Busy = {}
BY DEF Idle, Busy

\* A sentinel is counted.
LEMMA SentinelIsTyped ==
  ASSUME TypeOK, NEW r \in Runs, EmitsSentinel(r)
  PROVE  sentinels' \in [Runs -> Nat] /\ late' \in [Runs -> BOOLEAN]
<1>1. sentinels \in [Runs -> Nat] /\ late \in [Runs -> BOOLEAN]
  BY DEF TypeOK
<1>2. sentinels[r] + 1 \in Nat
  BY <1>1
<1>3. QED
  BY <1>1, <1>2 DEF EmitsSentinel, Emits

\* Whatever is emitted after a sentinel is noted.
LEMMA EmissionIsTyped ==
  ASSUME TypeOK, NEW r \in Runs, Emits(r)
  PROVE  late' \in [Runs -> BOOLEAN]
<1>1. late \in [Runs -> BOOLEAN]
  BY DEF TypeOK
<1>2. QED
  BY <1>1 DEF Emits

\* What Run.stop leaves behind when nothing is at work.
LEMMA TearDownIsTyped ==
  ASSUME TypeOK, NEW r \in Runs, TearsDown(r)
  PROVE  /\ browser' \in [Runs -> {"none", "open", "closed", "lost"}]
         /\ finished' \in [Runs -> BOOLEAN]
<1>1. /\ browser \in [Runs -> {"none", "open", "closed", "lost"}]
      /\ finished \in [Runs -> BOOLEAN]
  BY DEF TypeOK
<1>2. QED
  BY <1>1 DEF TearsDown

\* A handler that is free again.
LEMMA LeavingIsTyped ==
  ASSUME TypeOK, NEW s \in Sockets, Leaves(s)
  PROVE  /\ sock' \in [Sockets -> {"idle", "starting", "stopping", "joining", "gone"}]
         /\ viewing' \in [Sockets -> Runs \cup {NoRun}]
         /\ target' \in [Sockets -> Runs \cup {NoRun}]
         /\ onScreen' \in [Sockets -> 0..MaxCards]
<1>1. /\ sock \in [Sockets -> {"idle", "starting", "stopping", "joining", "gone"}]
      /\ viewing \in [Sockets -> Runs \cup {NoRun}]
      /\ target \in [Sockets -> Runs \cup {NoRun}]
      /\ onScreen \in [Sockets -> 0..MaxCards]
  BY DEF TypeOK
<1>2. 0 \in 0..MaxCards
  OBVIOUS
<1>3. QED
  BY <1>1, <1>2 DEF Leaves

\* What a stop does to the registry, by either of its ways.
LEMMA RemovalIsTyped ==
  ASSUME TypeOK, NEW s \in Sockets, NEW r \in Runs, Removes(s, r)
  PROVE  /\ registered' \subseteq Runs
         /\ cancelled' \in [Runs -> BOOLEAN]
         /\ browser' \in [Runs -> {"none", "open", "closed", "lost"}]
         /\ finished' \in [Runs -> BOOLEAN]
         /\ sock' \in [Sockets -> {"idle", "starting", "stopping", "joining", "gone"}]
         /\ viewing' \in [Sockets -> Runs \cup {NoRun}]
         /\ target' \in [Sockets -> Runs \cup {NoRun}]
         /\ onScreen' \in [Sockets -> 0..MaxCards]
<1>1. CASE drive[r] \in Busy
  <2>0. /\ registered' = registered \ {r}
        /\ cancelled' = [cancelled EXCEPT ![r] = TRUE]
        /\ sock' = [sock EXCEPT ![s] = "joining"]
        /\ target' = [target EXCEPT ![s] = r]
        /\ UNCHANGED <<browser, finished, viewing, onScreen>>
    BY <1>1, Nodes DEF Removes
  <2>1. cancelled' \in [Runs -> BOOLEAN] /\ registered' \subseteq Runs
    BY <2>0 DEF TypeOK
  <2>2. sock' \in [Sockets -> {"idle", "starting", "stopping", "joining", "gone"}]
    BY <2>0 DEF TypeOK
  <2>3. target' \in [Sockets -> Runs \cup {NoRun}]
    BY <2>0 DEF TypeOK
  <2>4. UNCHANGED <<browser, finished, viewing, onScreen>>
    BY <2>0
  <2>5. QED
    BY <2>1, <2>2, <2>3, <2>4 DEF TypeOK
<1>2. CASE drive[r] \notin Busy
  <2>1. TearsDown(r) /\ Leaves(s) /\ UNCHANGED cancelled /\ registered' = registered \ {r}
    BY <1>2 DEF Removes
  <2>2. QED
    BY <2>1, TearDownIsTyped, LeavingIsTyped DEF TypeOK
<1>3. QED
  BY <1>1, <1>2

\* What a driver step may do leaves every variable in its type (ws.py, drive).
LEMMA DriveKeepsTypes ==
  ASSUME TypeOK, NEW r \in Runs, Drive(r)
  PROVE  TypeOK'
<1>a. drive \in [Runs -> Idle \cup Busy]
  BY DEF TypeOK
<1>b. cancelled \in [Runs -> BOOLEAN]
  BY DEF TypeOK
<1>c. card \in [Runs -> 0..MaxCards]
  BY DEF TypeOK
<1>d. kind \in [Runs -> {"approval", "question"}]
  BY DEF TypeOK
<1>e. slot \in [Runs -> {"none", "open", "done"}]
  BY DEF TypeOK
<1>f. reply \in [Runs -> Answers]
  BY DEF TypeOK
<1>g. browser \in [Runs -> {"none", "open", "closed", "lost"}]
  BY DEF TypeOK
<1>h. cleanup \in [Runs -> BOOLEAN]
  BY DEF TypeOK
<1>i. finished \in [Runs -> BOOLEAN]
  BY DEF TypeOK
<1>j. registered \in SUBSET Runs
  BY DEF TypeOK
<1>k. sock \in [Sockets -> {"idle", "starting", "stopping", "joining", "gone"}]
  BY DEF TypeOK
<1>l. viewing \in [Sockets -> Runs \cup {NoRun}]
  BY DEF TypeOK
<1>m. target \in [Sockets -> Runs \cup {NoRun}]
  BY DEF TypeOK
<1>n. onScreen \in [Sockets -> 0..MaxCards]
  BY DEF TypeOK
<1>o. mail \in [Sockets -> 0..MaxCards]
  BY DEF TypeOK
<1>p. sentinels \in [Runs -> Nat]
  BY DEF TypeOK
<1>q. late \in [Runs -> BOOLEAN]
  BY DEF TypeOK
<1>r. resumed \in [Runs -> [card : 0..MaxCards, reply : Answers]]
  BY DEF TypeOK
<1>1. CASE Opened(r)
  <2>1. drive' \in [Runs -> Idle \cup Busy]
    BY <1>1, <1>a, Nodes DEF Opened
  <2>2. browser' \in [Runs -> {"none", "open", "closed", "lost"}]
    BY <1>1, <1>g DEF Opened
  <2>3. cleanup' \in [Runs -> BOOLEAN]
    BY <1>1, <1>h DEF Opened
  <2>4. QED
    BY <1>1, <2>1, <2>2, <2>3 DEF Opened, TypeOK, sockVars, history
<1>2. CASE OpenFailed(r)
  <2>1. drive' \in [Runs -> Idle \cup Busy]
    BY <1>2, <1>a, Nodes DEF OpenFailed
  <2>2. browser' \in [Runs -> {"none", "open", "closed", "lost"}]
    BY <1>2, <1>g DEF OpenFailed, Abandons
  <2>3. late' \in [Runs -> BOOLEAN]
    BY <1>2, EmissionIsTyped DEF OpenFailed
  <2>4. QED
    BY <1>2, <2>1, <2>2, <2>3 DEF OpenFailed, TypeOK, sockVars, history
<1>3. CASE GivesUp(r)
  <2>1. drive' \in [Runs -> Idle \cup Busy]
    BY <1>3, <1>a, Nodes DEF GivesUp
  <2>2. finished' \in [Runs -> BOOLEAN]
    BY <1>3, <1>i DEF GivesUp
  <2>3. sentinels' \in [Runs -> Nat] /\ late' \in [Runs -> BOOLEAN]
    BY <1>3, SentinelIsTyped DEF GivesUp
  <2>4. QED
    BY <1>3, <2>1, <2>2, <2>3 DEF GivesUp, TypeOK, sockVars, history
<1>4. CASE Prepared(r)
  <2>1. drive' \in [Runs -> Idle \cup Busy]
    BY <1>4, <1>a, Nodes DEF Prepared
  <2>2. QED
    BY <1>4, <2>1 DEF Prepared, TypeOK, sockVars, history
<1>5. CASE PrepareRaises(r)
  <2>1. drive' \in [Runs -> Idle \cup Busy]
    BY <1>5, <1>a, Nodes DEF PrepareRaises
  <2>2. QED
    BY <1>5, <2>1 DEF PrepareRaises, TypeOK, sockVars, history
<1>6. CASE ExpectsAnswer(r)
  <2>1. drive' \in [Runs -> Idle \cup Busy]
    BY <1>6, <1>a, Nodes DEF ExpectsAnswer
  <2>2. slot' \in [Runs -> {"none", "open", "done"}]
    BY <1>6, <1>e DEF ExpectsAnswer
  <2>3. QED
    BY <1>6, <2>1, <2>2 DEF ExpectsAnswer, TypeOK, sockVars, history
<1>7. CASE Resumes(r)
  <2>1. drive' \in [Runs -> Idle \cup Busy]
    BY <1>7, <1>a, Nodes DEF Resumes
  <2>2. [card |-> card[r], reply |-> reply[r]] \in [card : 0..MaxCards, reply : Answers]
    BY <1>c, <1>f
  <2>3. resumed' \in [Runs -> [card : 0..MaxCards, reply : Answers]]
    BY <1>7, <1>r, <2>2 DEF Resumes
  <2>4. QED
    BY <1>7, <2>1, <2>2, <2>3 DEF Resumes, TypeOK, sockVars, history
<1>8. CASE Expires(r)
  <2>1. drive' \in [Runs -> Idle \cup Busy]
    BY <1>8, <1>a, Nodes DEF Expires
  <2>2. slot' \in [Runs -> {"none", "open", "done"}]
    BY <1>8, <1>e DEF Expires
  <2>3. QED
    BY <1>8, <2>1, <2>2 DEF Expires, TypeOK, sockVars, history
<1>9. CASE Wraps(r)
  <2>1. drive' \in [Runs -> Idle \cup Busy]
    BY <1>9, <1>a, Nodes DEF Wraps
  <2>2. late' \in [Runs -> BOOLEAN]
    BY <1>9, EmissionIsTyped DEF Wraps
  <2>3. QED
    BY <1>9, <2>1, <2>2 DEF Wraps, TypeOK, sockVars, history
<1>10. CASE Completes(r)
  <2>1. drive' \in [Runs -> Idle \cup Busy]
    BY <1>10, <1>a, Nodes DEF Completes
  <2>2. finished' \in [Runs -> BOOLEAN]
    BY <1>10, <1>i DEF Completes
  <2>3. sentinels' \in [Runs -> Nat] /\ late' \in [Runs -> BOOLEAN]
    BY <1>10, SentinelIsTyped DEF Completes
  <2>4. QED
    BY <1>10, <2>1, <2>2, <2>3 DEF Completes, TypeOK, sockVars, history
<1>11. CASE Closes(r)
  <2>1. drive' \in [Runs -> Idle \cup Busy]
    BY <1>11, <1>a, Nodes DEF Closes
  <2>2. browser' \in [Runs -> {"none", "open", "closed", "lost"}]
    BY <1>11, <1>g DEF Closes
  <2>3. cleanup' \in [Runs -> BOOLEAN]
    BY <1>11, <1>h DEF Closes
  <2>4. QED
    BY <1>11, <2>1, <2>2, <2>3 DEF Closes, TypeOK, sockVars, history
<1>12. CASE Cancelled(r)
  <2>1. drive' \in [Runs -> Idle \cup Busy]
    BY <1>12, <1>a, Nodes DEF Cancelled
  <2>2. cancelled' \in [Runs -> BOOLEAN]
    BY <1>12, <1>b DEF Cancelled
  <2>3. finished' \in [Runs -> BOOLEAN]
    BY <1>12, <1>i DEF Cancelled
  <2>4. browser' \in [Runs -> {"none", "open", "closed", "lost"}]
    BY <1>12, <1>g DEF Cancelled, Abandons
  <2>5. slot' \in [Runs -> {"none", "open", "done"}]
    BY <1>12, <1>e DEF Cancelled
  <2>6. QED
    BY <1>12, <2>1, <2>2, <2>3, <2>4, <2>5 DEF Cancelled, TypeOK, sockVars, history
<1>13. ASSUME NEW kd \in {"approval", "question"}, Interrupts(r, kd)
       PROVE  TypeOK'
  <2>1. card[r] + 1 \in 0..MaxCards
    BY <1>13, <1>c DEF Interrupts
  <2>2. card' \in [Runs -> 0..MaxCards]
    BY <1>13, <1>c, <2>1 DEF Interrupts
  <2>3. onScreen' \in [Sockets -> 0..MaxCards]
    BY <1>13, <1>n, <2>1 DEF Interrupts, Shows
  <2>4. late' \in [Runs -> BOOLEAN]
    BY <1>13, EmissionIsTyped DEF Interrupts
  <2>5. drive' \in [Runs -> Idle \cup Busy]
    BY <1>13, <1>a, Nodes DEF Interrupts
  <2>6. kind' \in [Runs -> {"approval", "question"}]
    BY <1>13, <1>d DEF Interrupts
  <2>7. QED
    BY <1>13, <2>2, <2>3, <2>4, <2>5, <2>6 DEF Interrupts, TypeOK
<1>14. QED
  BY <1>1, <1>2, <1>3, <1>4, <1>5, <1>6, <1>7, <1>8, <1>9, <1>10, <1>11, <1>12,
     <1>13 DEF Drive

\* Nor does a socket's handler, nor the person at it (ws.py, ws_run).
LEMMA SocketsKeepTypes ==
  ASSUME TypeOK, NEW s \in Sockets, Aware(s), Handler(s) \/ Cockpit(s)
  PROVE  TypeOK'
<1>a. drive \in [Runs -> Idle \cup Busy]
  BY DEF TypeOK
<1>b. cancelled \in [Runs -> BOOLEAN]
  BY DEF TypeOK
<1>c. card \in [Runs -> 0..MaxCards]
  BY DEF TypeOK
<1>d. kind \in [Runs -> {"approval", "question"}]
  BY DEF TypeOK
<1>e. slot \in [Runs -> {"none", "open", "done"}]
  BY DEF TypeOK
<1>f. reply \in [Runs -> Answers]
  BY DEF TypeOK
<1>g. browser \in [Runs -> {"none", "open", "closed", "lost"}]
  BY DEF TypeOK
<1>h. cleanup \in [Runs -> BOOLEAN]
  BY DEF TypeOK
<1>i. finished \in [Runs -> BOOLEAN]
  BY DEF TypeOK
<1>j. registered \in SUBSET Runs
  BY DEF TypeOK
<1>k. sock \in [Sockets -> {"idle", "starting", "stopping", "joining", "gone"}]
  BY DEF TypeOK
<1>l. viewing \in [Sockets -> Runs \cup {NoRun}]
  BY DEF TypeOK
<1>m. target \in [Sockets -> Runs \cup {NoRun}]
  BY DEF TypeOK
<1>n. onScreen \in [Sockets -> 0..MaxCards]
  BY DEF TypeOK
<1>o. mail \in [Sockets -> 0..MaxCards]
  BY DEF TypeOK
<1>p. sentinels \in [Runs -> Nat]
  BY DEF TypeOK
<1>q. late \in [Runs -> BOOLEAN]
  BY DEF TypeOK
<1>r. resumed \in [Runs -> [card : 0..MaxCards, reply : Answers]]
  BY DEF TypeOK
<1>1. CASE CreatesTask(s)
  <2>1. drive' \in [Runs -> Idle \cup Busy]
    BY <1>1, <1>a, Nodes DEF CreatesTask
  <2>2. sock' \in [Sockets -> {"idle", "starting", "stopping", "joining", "gone"}]
    BY <1>1, <1>k DEF CreatesTask
  <2>3. target' \in [Sockets -> Runs \cup {NoRun}]
    BY <1>1, <1>m DEF CreatesTask
  <2>4. QED
    BY <1>1, <2>1, <2>2, <2>3 DEF CreatesTask, TypeOK, history
<1>2. CASE Delivers(s)
  <2>1. mail' \in [Sockets -> 0..MaxCards]
    BY <1>2, <1>o DEF Delivers
  <2>2. CASE viewing[s] \in registered /\ Accepts(viewing[s])
    <3> DEFINE new == [meant |-> mail[s], given |-> card[viewing[s]]]
    <3>1. /\ slot' = [slot EXCEPT ![viewing[s]] = "done"]
          /\ reply' = [reply EXCEPT ![viewing[s]] = new]
      BY <1>2, <2>2 DEF Delivers
    <3>2. slot' \in [Runs -> {"none", "open", "done"}]
      BY <3>1, <1>e
    <3>a. new \in Answers
      BY <2>2, <1>c, <1>j, <1>o DEF Answers
    <3>3. reply' \in [Runs -> Answers]
      BY <3>1, <3>a, <1>f
    <3>4. QED
      BY <1>2, <2>1, <3>2, <3>3 DEF Delivers, TypeOK
  <2>3. CASE ~(viewing[s] \in registered /\ Accepts(viewing[s]))
    <3>1. UNCHANGED <<slot, reply>>
      BY <1>2, <2>3 DEF Delivers
    <3>2. QED
      BY <1>2, <2>1, <3>1 DEF Delivers, TypeOK
  <2>4. QED
    BY <2>2, <2>3
<1>3. CASE RemovesNext(s)
  <2>1. CASE viewing[s] \in registered /\ Removes(s, viewing[s])
    <3>1. viewing[s] \in Runs
      BY <2>1, <1>j
    <3>2. QED
      BY <1>3, <2>1, <3>1, RemovalIsTyped DEF RemovesNext, TypeOK, history
  <2>2. CASE Leaves(s) /\ UNCHANGED <<registered, cancelled, browser, finished>>
    BY <1>3, <2>2, LeavingIsTyped DEF RemovesNext, TypeOK, history
  <2>3. QED
    BY <1>3, <2>1, <2>2 DEF RemovesNext
<1>4. CASE Joins(s)
  <2>1. target[s] \in Runs
    BY <1>4 DEF Joins, Aware
  <2>2. QED
    BY <1>4, <2>1, TearDownIsTyped, LeavingIsTyped DEF Joins, TypeOK, history
<1>5. CASE Replies(s)
  <2>1. mail' \in [Sockets -> 0..MaxCards]
    BY <1>5, <1>o, <1>n DEF Replies
  <2>2. onScreen' \in [Sockets -> 0..MaxCards]
    BY <1>5, <1>n DEF Replies
  <2>3. QED
    BY <1>5, <2>1, <2>2 DEF Replies, TypeOK, runVars, history
<1>6. CASE Stops(s)
  <2>1. viewing[s] \in Runs
    BY <1>6, <1>j DEF Stops
  <2>2. sentinels' \in [Runs -> Nat] /\ late' \in [Runs -> BOOLEAN]
    BY <1>6, <2>1, SentinelIsTyped DEF Stops
  <2>3. CASE SlowSends
    <3>1. sock' \in [Sockets -> {"idle", "starting", "stopping", "joining", "gone"}]
      BY <1>6, <2>3, <1>k DEF Stops
    <3>2. QED
      BY <1>6, <2>2, <2>3, <3>1 DEF Stops, TypeOK
  <2>4. CASE ~SlowSends
    BY <1>6, <2>1, <2>2, <2>4, RemovalIsTyped DEF Stops, TypeOK
  <2>5. QED
    BY <2>3, <2>4
<1>7. CASE StopsNothing(s)
  <2>1. viewing' \in [Sockets -> Runs \cup {NoRun}]
    BY <1>7, <1>l DEF StopsNothing
  <2>2. onScreen' \in [Sockets -> 0..MaxCards]
    BY <1>7, <1>n DEF StopsNothing
  <2>3. QED
    BY <1>7, <2>1, <2>2 DEF StopsNothing, TypeOK, runVars, history
<1>8. CASE Disconnects(s)
  <2>1. sock' \in [Sockets -> {"idle", "starting", "stopping", "joining", "gone"}]
    BY <1>8, <1>k DEF Disconnects
  <2>2. viewing' \in [Sockets -> Runs \cup {NoRun}]
    BY <1>8, <1>l DEF Disconnects
  <2>3. onScreen' \in [Sockets -> 0..MaxCards]
    BY <1>8, <1>n DEF Disconnects
  <2>4. mail' \in [Sockets -> 0..MaxCards]
    BY <1>8, <1>o DEF Disconnects
  <2>5. QED
    BY <1>8, <2>1, <2>2, <2>3, <2>4 DEF Disconnects, TypeOK, runVars, history
<1>9. ASSUME NEW q \in Runs, Starts(s, q) PROVE TypeOK'
  <2>1. registered' \subseteq Runs
    BY <1>9, <1>j DEF Starts, Expired
  <2>2. drive' \in [Runs -> Idle \cup Busy]
    BY <1>9, <1>a, Nodes DEF Starts
  <2>3. sock' \in [Sockets -> {"idle", "starting", "stopping", "joining", "gone"}]
    BY <1>9, <1>k DEF Starts
  <2>4. target' \in [Sockets -> Runs \cup {NoRun}]
    BY <1>9, <1>m DEF Starts
  <2>5. viewing' \in [Sockets -> Runs \cup {NoRun}]
    BY <1>9, <1>l DEF Starts
  <2>6. onScreen' \in [Sockets -> 0..MaxCards]
    BY <1>9, <1>n DEF Starts
  <2>7. QED
    BY <1>9, <2>1, <2>2, <2>3, <2>4, <2>5, <2>6 DEF Starts, TypeOK, history
<1>10. ASSUME NEW q \in Runs, Attaches(s, q) PROVE TypeOK'
  <2>1. viewing' \in [Sockets -> Runs \cup {NoRun}]
    BY <1>10, <1>l DEF Attaches
  <2>2. onScreen' \in [Sockets -> 0..MaxCards]
    BY <1>10, <1>n, <1>c DEF Attaches
  <2>3. QED
    BY <1>10, <2>1, <2>2 DEF Attaches, TypeOK, runVars, history
<1>11. CASE Acknowledges(s)
  <2>1. late' \in [Runs -> BOOLEAN]
    BY <1>11, <1>j, EmissionIsTyped DEF Acknowledges
  <2>2. QED
    BY <1>11, <2>1 DEF Acknowledges, TypeOK, runVars, sockVars
<1>12. QED
  BY <1>1, <1>2, <1>3, <1>4, <1>5, <1>6, <1>7, <1>8, <1>9, <1>10, <1>11
     DEF Handler, Cockpit

\* A report or a frame changes nothing but what was emitted (ws.py, drive).
LEMMA ReportsKeepTypes ==
  ASSUME TypeOK, NEW r \in Runs, Works(r) \/ Streams(r)
  PROVE  TypeOK'
<1>1. late' \in [Runs -> BOOLEAN]
  BY EmissionIsTyped DEF Works, Streams
<1>2. QED
  BY <1>1 DEF Works, Streams, TypeOK, runVars, sockVars

-----------------------------------------------------------------------------
(* Steps of a driver.                                                      *)

\* A sentinel is one more of its run, and of no other.
LEMMA SentinelCounts ==
  ASSUME TypeOK, NEW r \in Runs, EmitsSentinel(r)
  PROVE  /\ sentinels'[r] > 0
         /\ \A q \in Runs : q # r => sentinels'[q] = sentinels[q]
         /\ \A q \in Runs : sentinels[q] > 0 => sentinels'[q] > 0
<1>1. sentinels \in [Runs -> Nat]
  BY DEF TypeOK
<1>2. sentinels' = [sentinels EXCEPT ![r] = sentinels[r] + 1]
  BY DEF EmitsSentinel
<1>3. sentinels'[r] = sentinels[r] + 1 /\ sentinels[r] \in Nat
  BY <1>1, <1>2
<1>4. \A q \in Runs : q # r => sentinels'[q] = sentinels[q]
  BY <1>1, <1>2
<1>5. QED
  BY <1>3, <1>4 DEF EmitsSentinel

Others(q) ==
  \A r \in Runs : r # q =>
    /\ drive'[r] = drive[r] /\ cancelled'[r] = cancelled[r]
    /\ browser'[r] = browser[r] /\ cleanup'[r] = cleanup[r]
    /\ finished'[r] = finished[r] /\ sentinels'[r] = sentinels[r]
    /\ card'[r] = card[r] /\ slot'[r] = slot[r]
    /\ reply'[r] = reply[r] /\ resumed'[r] = resumed[r]

\* A driver touches no other run, no socket and not the registry (ws.py, drive
\* has its own Run only).
LEMMA DriveMindsItsRun ==
  ASSUME TypeOK, NEW q \in Runs, Drive(q)
  PROVE  UNCHANGED <<registered, sock, viewing, target>> /\ Others(q)
<1> DEFINE Goal == UNCHANGED <<registered, sock, viewing, target>> /\ Others(q)
<1>t. /\ drive \in [Runs -> Idle \cup Busy] /\ cancelled \in [Runs -> BOOLEAN]
      /\ browser \in [Runs -> {"none", "open", "closed", "lost"}]
      /\ cleanup \in [Runs -> BOOLEAN] /\ finished \in [Runs -> BOOLEAN]
      /\ sentinels \in [Runs -> Nat]
      /\ card \in [Runs -> 0..MaxCards] /\ slot \in [Runs -> {"none", "open", "done"}]
      /\ resumed \in [Runs -> [card : 0..MaxCards, reply : Answers]]
  BY DEF TypeOK
<1>1. CASE Opened(q)
  BY <1>1, <1>t DEF Opened, Others, sockVars, history
<1>2. CASE OpenFailed(q)
  BY <1>2, <1>t DEF OpenFailed, Abandons, Emits, Others, sockVars, history
<1>3. CASE GivesUp(q)
  BY <1>3, <1>t DEF GivesUp, EmitsSentinel, Emits, Others, sockVars, history
<1>4. CASE Prepared(q)
  BY <1>4, <1>t DEF Prepared, Others, sockVars, history
<1>5. CASE PrepareRaises(q)
  BY <1>5, <1>t DEF PrepareRaises, Others, sockVars, history
<1>6. CASE ExpectsAnswer(q)
  BY <1>6, <1>t DEF ExpectsAnswer, Others, sockVars, history
<1>7. CASE Resumes(q)
  BY <1>7, <1>t DEF Resumes, Others, sockVars, history
<1>8. CASE Expires(q)
  BY <1>8, <1>t DEF Expires, Others, sockVars, history
<1>9. CASE Wraps(q)
  BY <1>9, <1>t DEF Wraps, Emits, Others, sockVars, history
<1>10. CASE Completes(q)
  BY <1>10, <1>t DEF Completes, EmitsSentinel, Emits, Others, sockVars, history
<1>11. CASE Closes(q)
  BY <1>11, <1>t DEF Closes, Others, sockVars, history
<1>12. CASE Cancelled(q)
  BY <1>12, <1>t DEF Cancelled, Abandons, Others, sockVars, history
<1>13. ASSUME NEW kd \in {"approval", "question"}, Interrupts(q, kd)
       PROVE  Goal
  BY <1>13, <1>t DEF Interrupts, Emits, Others, sockVars, history
<1>14. QED
  BY <1>1, <1>2, <1>3, <1>4, <1>5, <1>6, <1>7, <1>8, <1>9, <1>10, <1>11, <1>12,
     <1>13 DEF Drive

\* A step of a driver: it starts from a node of its own, and an end or a
\* sentinel is never taken back.
LEMMA DriveGoesOn ==
  ASSUME TypeOK, NEW q \in Runs, Answerable(q), Drive(q)
  PROVE  /\ drive[q] # "unused"
         /\ finished[q] => finished'[q]
         /\ sentinels[q] > 0 => sentinels'[q] > 0
<1> DEFINE Goal == /\ drive[q] # "unused"
                   /\ finished[q] => finished'[q]
                   /\ sentinels[q] > 0 => sentinels'[q] > 0
<1>t. /\ drive \in [Runs -> Idle \cup Busy]
      /\ finished \in [Runs -> BOOLEAN]
      /\ sentinels \in [Runs -> Nat] /\ sentinels[q] \in Nat
  BY DEF TypeOK
<1>a. cancelled[q] => drive[q] # "unused"
  BY DEF Answerable, Busy
<1>1. CASE Opened(q)
  BY <1>1, <1>t, <1>a DEF Opened, At, history
<1>2. CASE OpenFailed(q)
  BY <1>2, <1>t, <1>a DEF OpenFailed, Abandons, Emits, At, history
<1>3. CASE GivesUp(q)
  BY <1>3, <1>t, <1>a DEF GivesUp, EmitsSentinel, At, history
<1>4. CASE Prepared(q)
  BY <1>4, <1>t, <1>a DEF Prepared, At, history
<1>5. CASE PrepareRaises(q)
  BY <1>5, <1>t, <1>a DEF PrepareRaises, At, history
<1>6. CASE ExpectsAnswer(q)
  BY <1>6, <1>t, <1>a DEF ExpectsAnswer, At, history
<1>7. CASE Resumes(q)
  BY <1>7, <1>t, <1>a DEF Resumes, At, history
<1>8. CASE Expires(q)
  BY <1>8, <1>t, <1>a DEF Expires, At, history
<1>9. CASE Wraps(q)
  BY <1>9, <1>t, <1>a DEF Wraps, Emits, At, history
<1>10. CASE Completes(q)
  BY <1>10, <1>t, <1>a DEF Completes, EmitsSentinel, At, history
<1>11. CASE Closes(q)
  BY <1>11, <1>t, <1>a DEF Closes, At, history
<1>12. CASE Cancelled(q)
  BY <1>12, <1>t, <1>a DEF Cancelled, Abandons, At, history
<1>13. ASSUME NEW kd \in {"approval", "question"}, Interrupts(q, kd)
       PROVE  Goal
  BY <1>13, <1>t, <1>a DEF Interrupts, Emits, At, history
<1>14. QED
  BY <1>1, <1>2, <1>3, <1>4, <1>5, <1>6, <1>7, <1>8, <1>9, <1>10, <1>11, <1>12,
     <1>13 DEF Drive

\* A driver leaves its own run answerable: it opens a browser with its cleanup,
\* leaves through the finally clause, and dies in build_graph only.
LEMMA DriveStaysAnswerable ==
  ASSUME TypeOK, NEW q \in Runs, Answerable(q), Drive(q)
  PROVE  Answerable(q)'
<1>t. /\ drive \in [Runs -> Idle \cup Busy] /\ cancelled \in [Runs -> BOOLEAN]
      /\ browser \in [Runs -> {"none", "open", "closed", "lost"}]
      /\ cleanup \in [Runs -> BOOLEAN]
      /\ sentinels \in [Runs -> Nat] /\ sentinels[q] \in Nat
  BY DEF TypeOK
<1>s. Stopping(q)' <=> Stopping(q)
  BY DriveMindsItsRun DEF Stopping
<1>a. Answerable(q)
  OBVIOUS
<1>1. CASE Opened(q)
  BY <1>1, <1>t, <1>s, <1>a DEF Opened, At, Answerable, Busy, history
<1>2. CASE OpenFailed(q)
  BY <1>2, <1>t, <1>s, <1>a DEF OpenFailed, Abandons, Emits, At, Answerable, Busy, history
<1>3. CASE GivesUp(q)
  BY <1>3, <1>t, <1>s, <1>a, SentinelCounts DEF GivesUp, At, Answerable, Busy
<1>4. CASE Prepared(q)
  BY <1>4, <1>t, <1>s, <1>a DEF Prepared, At, Answerable, Busy, history
<1>5. CASE PrepareRaises(q)
  BY <1>5, <1>t, <1>s, <1>a DEF PrepareRaises, At, Answerable, Busy, history
<1>6. CASE ExpectsAnswer(q)
  BY <1>6, <1>t, <1>s, <1>a DEF ExpectsAnswer, At, Answerable, Busy, history
<1>7. CASE Resumes(q)
  BY <1>7, <1>t, <1>s, <1>a DEF Resumes, At, Answerable, Busy, history
<1>8. CASE Expires(q)
  BY <1>8, <1>t, <1>s, <1>a DEF Expires, At, Answerable, Busy, history
<1>9. CASE Wraps(q)
  BY <1>9, <1>t, <1>s, <1>a DEF Wraps, Emits, At, Answerable, Busy, history
<1>10. CASE Completes(q)
  BY <1>10, <1>t, <1>s, <1>a, SentinelCounts DEF Completes, At, Answerable, Busy
<1>11. CASE Closes(q)
  BY <1>11, <1>t, <1>s, <1>a DEF Closes, At, Answerable, Busy, history
<1>12. CASE Cancelled(q)
  BY <1>12, <1>t, <1>s, <1>a DEF Cancelled, Abandons, At, Answerable, Busy, history
<1>13. ASSUME NEW kd \in {"approval", "question"}, Interrupts(q, kd)
       PROVE  Answerable(q)'
  BY <1>13, <1>t, <1>s, <1>a DEF Interrupts, Emits, At, Answerable, Busy, history
<1>14. QED
  BY <1>1, <1>2, <1>3, <1>4, <1>5, <1>6, <1>7, <1>8, <1>9, <1>10, <1>11, <1>12,
     <1>13 DEF Drive

-----------------------------------------------------------------------------
(* Steps of a socket's handler and of the person at it.                    *)

\* Everything about runs that Custody speaks of.
runState == <<drive, cancelled, browser, cleanup, finished, registered, sentinels>>

\* A handler that is free, before and after, is nobody's concern.
LEMMA FreeSocketsKeepCustody ==
  ASSUME Custody, NEW s \in Sockets, UNCHANGED runState,
         \A t \in Sockets : t # s =>
           sock'[t] = sock[t] /\ viewing'[t] = viewing[t] /\ target'[t] = target[t],
         \/ sock'[s] \in {"idle", "gone"} /\ sock[s] # "joining"
         \/ sock'[s] = sock[s] /\ viewing'[s] = viewing[s] /\ target'[s] = target[s]
  PROVE  (\A t \in Sockets : Aware(t)') /\ (\A r \in Runs : Answerable(r)')
<1>1. \A r \in Runs : Stopping(r)' <=> Stopping(r)
  BY DEF Stopping
<1>2. ASSUME NEW r \in Runs PROVE Answerable(r)'
  <2>1. Answerable(r)
    BY DEF Custody
  <2>2. QED
    BY <1>1, <2>1 DEF Answerable, runState
<1>3. ASSUME NEW t \in Sockets PROVE Aware(t)'
  <2>1. \A u \in Sockets : Aware(u)
    BY DEF Custody
  <2>2. \A u \in Sockets :
          sock'[u] \in {"starting", "stopping", "joining"} =>
            sock'[u] = sock[u] /\ viewing'[u] = viewing[u] /\ target'[u] = target[u]
    OBVIOUS
  <2>3. /\ sock'[t] \in {"starting", "joining"} => target'[t] \in Runs
        /\ sock'[t] = "stopping" =>
             viewing'[t] \in Runs /\ sentinels'[viewing'[t]] > 0
        /\ sock'[t] = "starting" =>
             /\ drive'[target'[t]] = "unused"
             /\ target'[t] \in registered' \/ finished'[target'[t]]
    BY <2>1, <2>2 DEF Aware, runState
  <2>4. \A u \in Sockets :
          sock'[t] = "starting" /\ sock'[u] = "starting" /\ target'[t] = target'[u]
            => t = u
    BY <2>1, <2>2 DEF Aware
  <2>5. QED
    BY <2>3, <2>4 DEF Aware
<1>4. QED
  BY <1>2, <1>3

\* Run.stop of a run, by either of its ways: a task that is at work is waited
\* for, and what cleanup is left is run otherwise.
LEMMA RemovalKeepsCustody ==
  ASSUME Custody, NEW s \in Sockets, NEW r \in Runs, Removes(s, r),
         sock[s] \in {"idle", "stopping"}, UNCHANGED <<drive, cleanup>>,
         sentinels'[r] > 0, \A q \in Runs : sentinels[q] > 0 => sentinels'[q] > 0
  PROVE  (\A t \in Sockets : Aware(t)') /\ (\A q \in Runs : Answerable(q)')
<1>t. /\ drive \in [Runs -> Idle \cup Busy] /\ cancelled \in [Runs -> BOOLEAN]
      /\ browser \in [Runs -> {"none", "open", "closed", "lost"}]
      /\ cleanup \in [Runs -> BOOLEAN] /\ finished \in [Runs -> BOOLEAN]
      /\ sock \in [Sockets -> {"idle", "starting", "stopping", "joining", "gone"}]
      /\ target \in [Sockets -> Runs \cup {NoRun}]
      /\ viewing \in [Sockets -> Runs \cup {NoRun}]
  BY DEF Custody, TypeOK
<1>a. (\A t \in Sockets : Aware(t)) /\ (\A q \in Runs : Answerable(q))
  BY DEF Custody
<1>1. CASE drive[r] \in Busy
  <2>1. /\ cancelled' = [cancelled EXCEPT ![r] = TRUE]
        /\ sock' = [sock EXCEPT ![s] = "joining"]
        /\ target' = [target EXCEPT ![s] = r]
        /\ UNCHANGED <<browser, finished, viewing>> /\ registered' = registered \ {r}
    BY <1>1, Nodes DEF Removes
  <2>2. Stopping(r)' /\ \A q \in Runs : Stopping(q) => Stopping(q)'
    BY <2>1, <1>t DEF Stopping
  <2>3. ASSUME NEW q \in Runs PROVE Answerable(q)'
    BY <2>1, <2>2, <1>1, <1>t, <1>a DEF Answerable
  <2>4. ASSUME NEW t \in Sockets, t # s PROVE Aware(t)'
    <3>1. sock'[t] = sock[t] /\ target'[t] = target[t] /\ viewing'[t] = viewing[t]
      BY <2>1, <2>4, <1>t
    <3>2. sock'[t] = "starting" => target[t] # r
      BY <3>1, <1>1, <1>a, Nodes DEF Aware
    <3>3. QED
      BY <3>1, <3>2, <2>1, <2>4, <1>t, <1>a DEF Aware
  <2>5. Aware(s)'
    BY <2>1, <1>t DEF Aware
  <2>6. QED
    BY <2>3, <2>4, <2>5
<1>2. CASE drive[r] \notin Busy
  <2>1. TearsDown(r) /\ Leaves(s) /\ UNCHANGED cancelled /\ registered' = registered \ {r}
    BY <1>2 DEF Removes
  <2>2. \A q \in Runs : Stopping(q)' <=> Stopping(q)
    BY <2>1, <1>t DEF Stopping, Leaves
  <2>3. ASSUME NEW q \in Runs PROVE Answerable(q)'
    <3>1. /\ browser'[q] = "open" => browser[q] = "open"
          /\ cancelled'[q] = cancelled[q]
      BY <2>1, <1>t DEF TearsDown
    <3>2. QED
      BY <3>1, <2>2, <1>t, <1>a DEF Answerable
  <2>4. ASSUME NEW t \in Sockets, t # s PROVE Aware(t)'
    <3>1. \A u \in Sockets : u # s =>
            sock'[u] = sock[u] /\ target'[u] = target[u] /\ viewing'[u] = viewing[u]
      BY <2>1, <1>t DEF Leaves
    <3>2. sock'[s] = "idle"
      BY <2>1, <1>t DEF Leaves
    <3>3. \A q \in Runs : (finished[q] \/ q = r) => finished'[q]
      BY <2>1, <1>t DEF TearsDown
    <3>4. QED
      BY <3>1, <3>2, <3>3, <2>1, <2>4, <1>t, <1>a DEF Aware
  <2>5. Aware(s)'
    BY <2>1, <1>t DEF Aware, Leaves
  <2>6. QED
    BY <2>3, <2>4, <2>5
<1>3. QED
  BY <1>1, <1>2

\* A handler's step, or a click, leaves every run answerable and every handler
\* aware of its run.
LEMMA SocketsKeepCustody ==
  ASSUME Custody, NEW s \in Sockets, Handler(s) \/ Cockpit(s)
  PROVE  (\A t \in Sockets : Aware(t)') /\ (\A q \in Runs : Answerable(q)')
<1> DEFINE Goal == (\A t \in Sockets : Aware(t)') /\ (\A q \in Runs : Answerable(q)')
<1>t. /\ drive \in [Runs -> Idle \cup Busy] /\ cancelled \in [Runs -> BOOLEAN]
      /\ browser \in [Runs -> {"none", "open", "closed", "lost"}]
      /\ cleanup \in [Runs -> BOOLEAN] /\ finished \in [Runs -> BOOLEAN]
      /\ sock \in [Sockets -> {"idle", "starting", "stopping", "joining", "gone"}]
      /\ target \in [Sockets -> Runs \cup {NoRun}]
      /\ viewing \in [Sockets -> Runs \cup {NoRun}]
      /\ registered \subseteq Runs
  BY DEF Custody, TypeOK
<1>a. (\A t \in Sockets : Aware(t)) /\ (\A q \in Runs : Answerable(q))
  BY DEF Custody
<1>1. CASE CreatesTask(s)
  <2> DEFINE r == target[s]
  <2>1. /\ r \in Runs /\ drive[r] = "unused"
        /\ drive' = [drive EXCEPT ![r] = "opening"]
        /\ sock' = [sock EXCEPT ![s] = "idle"]
        /\ target' = [target EXCEPT ![s] = NoRun]
        /\ UNCHANGED <<cancelled, browser, cleanup, finished, registered, viewing,
                       sentinels>>
    BY <1>1, <1>a DEF CreatesTask, Aware, history
  <2>2. \A q \in Runs : Stopping(q)' <=> Stopping(q)
    BY <1>1, <2>1, <1>t DEF Stopping, CreatesTask
  <2>3. ASSUME NEW q \in Runs PROVE Answerable(q)'
    <3>1. CASE q = r
      <4>1. drive[q] = "unused" /\ drive'[q] = "opening"
        BY <2>1, <3>1, <1>t
      <4>2. browser[q] # "open" /\ ~cancelled[q]
        BY <4>1, <1>a, Nodes DEF Answerable
      <4>3. browser'[q] # "open" /\ ~cancelled'[q]
        BY <4>2, <2>1
      <4>4. QED
        BY <4>1, <4>3 DEF Answerable
    <3>2. CASE q # r
      <4>1. drive'[q] = drive[q]
        BY <2>1, <3>2, <1>t
      <4>2. QED
        BY <4>1, <2>1, <2>2, <1>a DEF Answerable
    <3>3. QED
      BY <3>1, <3>2
  <2>4. ASSUME NEW t \in Sockets, t # s PROVE Aware(t)'
    <3>1. sock'[t] = sock[t] /\ target'[t] = target[t] /\ viewing'[t] = viewing[t]
      BY <2>1, <2>4, <1>t
    <3>2. sock[t] = "starting" => target[t] # r
      BY <1>1, <2>4, <1>a DEF CreatesTask, Aware
    <3>3. sock'[s] = "idle"
      BY <2>1, <1>t
    <3>4. sock[t] = "starting" => drive'[target[t]] = drive[target[t]]
      BY <3>2, <2>1, <1>t, <1>a DEF Aware
    <3>5. /\ sock'[t] \in {"starting", "joining"} => target'[t] \in Runs
          /\ sock'[t] = "stopping" =>
               viewing'[t] \in Runs /\ sentinels'[viewing'[t]] > 0
          /\ sock'[t] = "starting" =>
               /\ drive'[target'[t]] = "unused"
               /\ target'[t] \in registered' \/ finished'[target'[t]]
      BY <3>1, <3>4, <2>1, <1>a DEF Aware
    <3>6. \A u \in Sockets : u # s =>
            sock'[u] = sock[u] /\ target'[u] = target[u]
      BY <2>1, <1>t
    <3>7. \A u \in Sockets :
            sock'[t] = "starting" /\ sock'[u] = "starting" /\ target'[t] = target'[u]
              => t = u
      BY <3>1, <3>3, <3>6, <1>a DEF Aware
    <3>8. QED
      BY <3>5, <3>7 DEF Aware
  <2>5. Aware(s)'
    BY <2>1, <1>t DEF Aware
  <2>6. QED
    BY <2>3, <2>4, <2>5
<1>2. CASE Delivers(s)
  BY <1>2, FreeSocketsKeepCustody DEF Delivers, runState
<1>3. CASE RemovesNext(s)
  <2>1. CASE viewing[s] \in registered /\ Removes(s, viewing[s])
    <3>1. viewing[s] \in Runs /\ sentinels[viewing[s]] > 0 /\ sock[s] = "stopping"
      BY <1>3, <1>a DEF RemovesNext, Aware
    <3>2. UNCHANGED <<drive, cleanup, sentinels>>
      BY <1>3 DEF RemovesNext, history
    <3>3. QED
      BY <2>1, <3>1, <3>2, RemovalKeepsCustody
  <2>2. CASE Leaves(s) /\ UNCHANGED <<registered, cancelled, browser, finished>>
    <3>1. sock[s] = "stopping" /\ sock'[s] = "idle"
      BY <1>3, <2>2, <1>t DEF RemovesNext, Leaves
    <3>2. \A t \in Sockets : t # s =>
            sock'[t] = sock[t] /\ viewing'[t] = viewing[t] /\ target'[t] = target[t]
      BY <2>2, <1>t DEF Leaves
    <3>3. UNCHANGED runState
      BY <1>3, <2>2 DEF RemovesNext, runState, history
    <3>4. QED
      BY <3>1, <3>2, <3>3, FreeSocketsKeepCustody
  <2>3. QED
    BY <1>3, <2>1, <2>2 DEF RemovesNext
<1>4. CASE Joins(s)
  <2> DEFINE r == target[s]
  <2>1. /\ r \in Runs /\ drive[r] \in Idle /\ TearsDown(r) /\ Leaves(s)
        /\ UNCHANGED <<drive, cancelled, cleanup, registered, sentinels>>
    BY <1>4, <1>a DEF Joins, Aware, history
  <2>2. \A q \in Runs : q # r => (Stopping(q)' <=> Stopping(q))
    BY <1>4, <2>1, <1>t DEF Stopping, Leaves, Joins
  <2>3. ASSUME NEW q \in Runs PROVE Answerable(q)'
    <3>1. CASE q = r
      <4>1. ~cancelled[r] /\ browser'[r] # "open"
        BY <2>1, <1>t, <1>a, Nodes DEF Answerable, TearsDown
      <4>2. QED
        BY <3>1, <4>1, <2>1, <1>a DEF Answerable
    <3>2. CASE q # r
      <4>1. browser'[q] = browser[q]
        BY <3>2, <2>1, <1>t DEF TearsDown
      <4>2. QED
        BY <3>2, <4>1, <2>1, <2>2, <1>a DEF Answerable
    <3>3. QED
      BY <3>1, <3>2
  <2>4. ASSUME NEW t \in Sockets, t # s PROVE Aware(t)'
    <3>1. \A u \in Sockets : u # s =>
            sock'[u] = sock[u] /\ target'[u] = target[u] /\ viewing'[u] = viewing[u]
      BY <2>1, <1>t DEF Leaves
    <3>2. sock'[s] = "idle"
      BY <2>1, <1>t DEF Leaves
    <3>3. \A q \in Runs : finished[q] => finished'[q]
      BY <2>1, <1>t DEF TearsDown
    <3>4. QED
      BY <3>1, <3>2, <3>3, <2>1, <2>4, <1>t, <1>a DEF Aware
  <2>5. Aware(s)'
    BY <2>1, <1>t DEF Aware, Leaves
  <2>6. QED
    BY <2>3, <2>4, <2>5
<1>5. CASE Replies(s)
  BY <1>5, FreeSocketsKeepCustody DEF Replies, runState, runVars, history
<1>6. CASE Stops(s)
  <2>1. /\ viewing[s] \in Runs /\ sock[s] = "idle"
        /\ EmitsSentinel(viewing[s]) /\ UNCHANGED <<drive, cleanup>>
    BY <1>6, <1>t DEF Stops, Free
  <2>2. /\ sentinels'[viewing[s]] > 0
        /\ \A q \in Runs : sentinels[q] > 0 => sentinels'[q] > 0
    BY <2>1, SentinelCounts DEF Custody
  <2>3. CASE SlowSends
    <3>1. /\ sock' = [sock EXCEPT ![s] = "stopping"]
          /\ UNCHANGED <<registered, cancelled, browser, finished, viewing, target>>
      BY <1>6, <2>3 DEF Stops
    <3>2. \A q \in Runs : Stopping(q)' <=> Stopping(q)
      BY <2>1, <3>1, <1>t DEF Stopping
    <3>3. \A q \in Runs : Answerable(q)'
      BY <2>1, <2>2, <3>1, <3>2, <1>a DEF Answerable
    <3>4. \A t \in Sockets : t # s => Aware(t)'
      BY <2>1, <2>2, <3>1, <1>t, <1>a DEF Aware
    <3>5. Aware(s)'
      BY <2>1, <2>2, <3>1, <1>t DEF Aware
    <3>6. QED
      BY <3>3, <3>4, <3>5
  <2>4. CASE ~SlowSends
    <3>1. Removes(s, viewing[s])
      BY <1>6, <2>4 DEF Stops
    <3>2. QED
      BY <2>1, <2>2, <3>1, RemovalKeepsCustody
  <2>5. QED
    BY <2>3, <2>4
<1>7. CASE StopsNothing(s)
  <2>1. \A t \in Sockets : t # s => viewing'[t] = viewing[t]
    BY <1>7, <1>t DEF StopsNothing
  <2>2. QED
    BY <1>7, <2>1, FreeSocketsKeepCustody
       DEF StopsNothing, Free, runState, runVars, history
<1>8. CASE Disconnects(s)
  <2>1. /\ sock[s] = "idle" /\ sock'[s] = "gone"
        /\ \A t \in Sockets : t # s => sock'[t] = sock[t] /\ viewing'[t] = viewing[t]
    BY <1>8, <1>t DEF Disconnects, Free
  <2>2. QED
    BY <1>8, <2>1, FreeSocketsKeepCustody DEF Disconnects, runState, runVars, history
<1>9. ASSUME NEW r \in Runs, Starts(s, r) PROVE Goal
  <2>1. /\ sock[s] = "idle" /\ drive[r] = "unused" /\ r \notin registered
        /\ ~finished[r] /\ r \in registered'
        /\ UNCHANGED <<cancelled, browser, cleanup, finished, sentinels>>
    BY <1>9 DEF Starts, Free, history
  <2>2. \A q \in registered : q \in registered' \/ finished[q]
    BY <1>9 DEF Starts, Expired
  <2>3. /\ \A t \in Sockets : t # s =>
             sock'[t] = sock[t] /\ viewing'[t] = viewing[t] /\ target'[t] = target[t]
        /\ sock'[s] \in {"idle", "starting"}
        /\ sock'[s] = "starting" => target'[s] = r /\ drive' = drive
    BY <1>9, <2>1, <1>t DEF Starts
  <2>4. \A q \in Runs : Stopping(q)' <=> Stopping(q)
    BY <2>1, <2>3 DEF Stopping
  <2>5. /\ \A q \in Runs : q # r => drive'[q] = drive[q]
        /\ drive'[r] \in {"unused", "opening"}
    BY <1>9, <2>1, <1>t DEF Starts
  <2>6. \A t \in Sockets : sock[t] = "starting" => target[t] # r
    BY <2>1, <1>a DEF Aware
  <2>7. ASSUME NEW q \in Runs PROVE Answerable(q)'
    <3>1. CASE q = r
      <4>1. browser[r] # "open" /\ ~cancelled[r]
        BY <2>1, <1>a, Nodes DEF Answerable
      <4>2. QED
        BY <3>1, <4>1, <2>1, <2>5 DEF Answerable
    <3>2. CASE q # r
      BY <3>2, <2>1, <2>4, <2>5, <1>a DEF Answerable
    <3>3. QED
      BY <3>1, <3>2
  <2>8. ASSUME NEW t \in Sockets, t # s PROVE Aware(t)'
    <3>1. /\ sock'[t] \in {"starting", "joining"} => target'[t] \in Runs
          /\ sock'[t] = "stopping" =>
               viewing'[t] \in Runs /\ sentinels'[viewing'[t]] > 0
          /\ sock'[t] = "starting" =>
               /\ drive'[target'[t]] = "unused"
               /\ target'[t] \in registered' \/ finished'[target'[t]]
      BY <2>1, <2>2, <2>3, <2>5, <2>6, <2>8, <1>a DEF Aware
    <3>2. \A u \in Sockets :
            sock'[t] = "starting" /\ sock'[u] = "starting" /\ target'[t] = target'[u]
              => t = u
      BY <2>3, <2>6, <2>8, <1>a DEF Aware
    <3>3. QED
      BY <3>1, <3>2 DEF Aware
  <2>9. Aware(s)'
    <3>1. \A u \in Sockets :
            sock'[s] = "starting" /\ sock'[u] = "starting" /\ target'[s] = target'[u]
              => s = u
      BY <2>3, <2>6
    <3>2. QED
      BY <3>1, <2>1, <2>3 DEF Aware
  <2>10. QED
    BY <2>7, <2>8, <2>9
<1>10. ASSUME NEW r \in Runs, Attaches(s, r) PROVE Goal
  <2>1. \A t \in Sockets : t # s => viewing'[t] = viewing[t]
    BY <1>10, <1>t DEF Attaches
  <2>2. QED
    BY <1>10, <2>1, FreeSocketsKeepCustody
       DEF Attaches, Free, runState, runVars, history
<1>11. CASE Acknowledges(s)
  BY <1>11, FreeSocketsKeepCustody DEF Acknowledges, Free, runState, runVars, sockVars
<1>12. QED
  BY <1>1, <1>2, <1>3, <1>4, <1>5, <1>6, <1>7, <1>8, <1>9, <1>10, <1>11
     DEF Handler, Cockpit

\* The invariant holds at first.
LEMMA CustodyInit == Init => Custody
<1> SUFFICES ASSUME Init PROVE Custody
  OBVIOUS
<1>1. TypeOK
  BY DEF Init, TypeOK, Idle, Answers, NoReply
<1>2. \A s \in Sockets : Aware(s)
  BY DEF Init, Aware
<1>3. \A r \in Runs : Answerable(r)
  BY DEF Init, Answerable
<1>4. QED
  BY <1>1, <1>2, <1>3 DEF Custody

\* And every step keeps it.
LEMMA CustodyStep == Custody /\ [Next]_vars => Custody'
<1> SUFFICES ASSUME Custody, [Next]_vars PROVE Custody'
  OBVIOUS
<1>1. ASSUME NEW q \in Runs, Drive(q) PROVE Custody'
  <2>1. TypeOK' /\ UNCHANGED <<registered, sock, viewing, target>> /\ Others(q)
    BY <1>1, DriveKeepsTypes, DriveMindsItsRun DEF Custody
  <2>2. /\ drive[q] # "unused" /\ (finished[q] => finished'[q])
        /\ sentinels[q] > 0 => sentinels'[q] > 0
    BY <1>1, DriveGoesOn DEF Custody
  <2>3. \A r \in Runs : Stopping(r)' <=> Stopping(r)
    BY <2>1 DEF Stopping
  <2>4. ASSUME NEW r \in Runs, r # q PROVE Answerable(r)'
    BY <2>1, <2>3, <2>4 DEF Custody, Answerable, Others
  <2>5. Answerable(q)'
    BY <1>1, DriveStaysAnswerable DEF Custody
  <2>6. ASSUME NEW s \in Sockets PROVE Aware(s)'
    <3>1. Aware(s)
      BY DEF Custody
    <3>2. \A r \in Runs : /\ drive[r] = "unused" => drive'[r] = "unused"
                          /\ finished[r] => finished'[r]
                          /\ sentinels[r] > 0 => sentinels'[r] > 0
      BY <2>1, <2>2 DEF Others
    <3>3. QED
      BY <2>1, <3>1, <3>2 DEF Aware
  <2>7. QED
    BY <2>1, <2>4, <2>5, <2>6 DEF Custody
<1>2. ASSUME NEW s \in Sockets, Handler(s) \/ Cockpit(s) PROVE Custody'
  BY <1>2, SocketsKeepTypes, SocketsKeepCustody DEF Custody
<1>3. ASSUME NEW q \in Runs, Works(q) \/ Streams(q) PROVE Custody'
  <2>1. TypeOK'
    BY <1>3, ReportsKeepTypes DEF Custody
  <2>2. QED
    BY <1>3, <2>1 DEF Works, Streams, runVars, sockVars, Custody, Aware, Answerable, Stopping
<1>4. CASE UNCHANGED vars
  BY <1>4 DEF vars, runVars, sockVars, history, Custody, TypeOK, Aware, Answerable,
     Stopping
<1>5. QED
  BY <1>1, <1>2, <1>3, <1>4 DEF Next

\* Custody is an invariant of the lifecycle, with slow sends and without.
THEOREM CustodyInvariant == Spec => []Custody
BY CustodyInit, CustodyStep, PTL DEF Spec

-----------------------------------------------------------------------------
(* When a driver falls silent.                                             *)

\* What a step that only concerns a free handler leaves of Silence.
LEMMA FreeSocketsKeepSilence ==
  ASSUME Silence, NEW s \in Sockets, UNCHANGED runState,
         \A t \in Sockets : t # s =>
           sock'[t] = sock[t] /\ viewing'[t] = viewing[t] /\ target'[t] = target[t],
         \/ sock'[s] \in {"idle", "gone"} /\ sock[s] = "idle"
         \/ sock'[s] = sock[s] /\ viewing'[s] = viewing[s] /\ target'[s] = target[s]
  PROVE  Silence'
<1>1. \A r \in Runs : (Stopping(r)' <=> Stopping(r)) /\ (Announcing(r)' <=> Announcing(r))
  BY DEF Stopping, Announcing
<1>2. QED
  BY <1>1 DEF Silence, Announced, Over, runState

\* A driver ends one way or another, or is no nearer its end than before
\* (ws.py, drive).
LEMMA DriveStaysSilent ==
  ASSUME TypeOK, NEW q \in Runs, Answerable(q), Announced(q), Drive(q)
  PROVE  Announced(q)'
<1>t. /\ drive \in [Runs -> Idle \cup Busy] /\ cancelled \in [Runs -> BOOLEAN]
      /\ finished \in [Runs -> BOOLEAN] /\ sentinels \in [Runs -> Nat]
  BY DEF TypeOK
<1>s. /\ UNCHANGED <<registered, sock, viewing, target>>
      /\ Stopping(q)' <=> Stopping(q)
      /\ Announcing(q)' <=> Announcing(q)
  BY DriveMindsItsRun DEF Stopping, Announcing
<1>a. Answerable(q) /\ Announced(q)
  OBVIOUS
<1>1. CASE \/ GivesUp(q) \/ PrepareRaises(q) \/ Completes(q) \/ Closes(q)
           \/ Cancelled(q)
  <2>1. Over(q)'
    BY <1>1, <1>t DEF GivesUp, PrepareRaises, Completes, Closes, Cancelled, Over
  <2>2. QED
    BY <2>1 DEF Announced, Over
<1>2. CASE \/ Opened(q) \/ OpenFailed(q) \/ Prepared(q) \/ ExpectsAnswer(q)
           \/ Resumes(q) \/ Expires(q) \/ Wraps(q)
           \/ \E k \in {"approval", "question"} : Interrupts(q, k)
  <2>1. /\ ~Over(q) /\ ~cancelled[q] /\ drive'[q] # "unused"
        /\ UNCHANGED <<cancelled, sentinels>>
    BY <1>2, <1>t DEF Opened, OpenFailed, Prepared, ExpectsAnswer, Resumes, Expires,
       Wraps, Interrupts, At, Over, history
  <2>2. QED
    BY <2>1, <1>s, <1>a DEF Announced
<1>3. QED
  BY <1>1, <1>2 DEF Drive

\* A run that is removed is being stopped, or is over already
\* (run_manager.py, RunManager.remove).
LEMMA RemovalKeepsSilence ==
  ASSUME Custody, Silence, NEW s \in Sockets, NEW r \in Runs, Removes(s, r),
         sock[s] \in {"idle", "stopping"}, sock[s] = "stopping" => viewing[s] = r,
         UNCHANGED drive, \A q \in Runs : q # r => sentinels'[q] = sentinels[q]
  PROVE  Silence'
<1>t. /\ drive \in [Runs -> Idle \cup Busy] /\ cancelled \in [Runs -> BOOLEAN]
      /\ finished \in [Runs -> BOOLEAN]
      /\ sock \in [Sockets -> {"idle", "starting", "stopping", "joining", "gone"}]
      /\ target \in [Sockets -> Runs \cup {NoRun}]
      /\ viewing \in [Sockets -> Runs \cup {NoRun}]
  BY DEF Custody, TypeOK
<1>a. \A q \in Runs : Answerable(q) /\ Announced(q)
  BY DEF Custody, Silence
<1>0. registered' = registered \ {r}
  BY DEF Removes
<1>1. CASE drive[r] \in Busy
  <2>1. /\ cancelled' = [cancelled EXCEPT ![r] = TRUE]
        /\ sock' = [sock EXCEPT ![s] = "joining"]
        /\ target' = [target EXCEPT ![s] = r]
        /\ UNCHANGED <<finished, viewing>>
    BY <1>1, Nodes DEF Removes
  <2>2. ASSUME NEW q \in Runs PROVE Announced(q)'
    <3>1. CASE q = r
      <4>1. r \notin registered' /\ drive'[r] # "unused" /\ cancelled'[r]
        BY <1>0, <1>1, <2>1, <1>t, Nodes
      <4>2. QED
        BY <3>1, <4>1 DEF Announced
    <3>2. CASE q # r
      <4>1. /\ Announcing(q) => Announcing(q)'
            /\ Stopping(q)' => Stopping(q)
        BY <3>2, <2>1, <1>t DEF Announcing, Stopping
      <4>2. cancelled'[q] = cancelled[q] /\ (q \in registered' <=> q \in registered)
        BY <3>2, <1>0, <2>1, <1>t
      <4>3. QED
        BY <3>2, <4>1, <4>2, <2>1, <1>a DEF Announced, Over
    <3>3. QED
      BY <3>1, <3>2
  <2>3. QED
    BY <2>2 DEF Silence
<1>2. CASE drive[r] \notin Busy
  <2>1. TearsDown(r) /\ Leaves(s) /\ UNCHANGED cancelled
    BY <1>2 DEF Removes
  <2>2. ASSUME NEW q \in Runs PROVE Announced(q)'
    <3>0. Stopping(q)' => Stopping(q)
      BY <2>1, <1>t DEF Stopping, Leaves
    <3>1. CASE q = r
      <4>1. r \notin registered' /\ finished'[r]
        BY <1>0, <2>1, <1>t DEF TearsDown
      <4>2. QED
        BY <3>0, <3>1, <4>1, <2>1, <1>a DEF Announced, Over
    <3>2. CASE q # r
      <4>1. Announcing(q) => Announcing(q)'
        BY <3>2, <2>1, <1>t DEF Announcing, Leaves
      <4>2. finished'[q] = finished[q] /\ (q \in registered' <=> q \in registered)
        BY <3>2, <1>0, <2>1, <1>t DEF TearsDown
      <4>3. QED
        BY <3>0, <3>2, <4>1, <4>2, <2>1, <1>a DEF Announced, Over
    <3>3. QED
      BY <3>1, <3>2
  <2>3. QED
    BY <2>2 DEF Silence
<1>3. QED
  BY <1>1, <1>2

\* A socket's handler, and the person at it, announce an end only to bring it
\* about (ws.py, ws_run).
LEMMA SocketsKeepSilence ==
  ASSUME Custody, Silence, NEW s \in Sockets, Handler(s) \/ Cockpit(s)
  PROVE  Silence'
<1>t. /\ drive \in [Runs -> Idle \cup Busy] /\ cancelled \in [Runs -> BOOLEAN]
      /\ finished \in [Runs -> BOOLEAN]
      /\ sock \in [Sockets -> {"idle", "starting", "stopping", "joining", "gone"}]
      /\ target \in [Sockets -> Runs \cup {NoRun}]
      /\ viewing \in [Sockets -> Runs \cup {NoRun}]
      /\ registered \subseteq Runs
  BY DEF Custody, TypeOK
<1>a. \A q \in Runs : Answerable(q) /\ Announced(q)
  BY DEF Custody, Silence
<1>b. Aware(s)
  BY DEF Custody
<1>1. CASE CreatesTask(s)
  <2> DEFINE r == target[s]
  <2>1. /\ r \in Runs /\ drive[r] = "unused" /\ sock[s] = "starting"
        /\ drive' = [drive EXCEPT ![r] = "opening"]
        /\ sock' = [sock EXCEPT ![s] = "idle"]
        /\ target' = [target EXCEPT ![s] = NoRun]
        /\ UNCHANGED <<cancelled, finished, registered, viewing, sentinels>>
    BY <1>1, <1>b DEF CreatesTask, Aware, history
  <2>2. \A q \in Runs : (Stopping(q)' <=> Stopping(q)) /\ (Announcing(q)' <=> Announcing(q))
    BY <2>1, <1>t DEF Stopping, Announcing
  <2>3. ~Over(r) /\ ~cancelled[r]
    BY <2>1, <1>a, Nodes DEF Over, Answerable
  <2>4. ASSUME NEW q \in Runs PROVE Announced(q)'
    <3>1. CASE q = r
      <4>1. drive'[r] = "opening"
        BY <2>1, <1>t
      <4>2. ~Stopping(r) /\ (sentinels[r] > 0 /\ r \in registered => Announcing(r))
        BY <2>1, <2>3, <1>a DEF Announced
      <4>3. QED
        BY <3>1, <4>1, <4>2, <2>1, <2>2 DEF Announced
    <3>2. CASE q # r
      <4>1. drive'[q] = drive[q]
        BY <3>2, <2>1, <1>t
      <4>2. QED
        BY <4>1, <2>1, <2>2, <1>a DEF Announced, Over
    <3>3. QED
      BY <3>1, <3>2
  <2>5. QED
    BY <2>4 DEF Silence
<1>2. CASE Delivers(s) \/ Replies(s) \/ Acknowledges(s)
  BY <1>2, FreeSocketsKeepSilence
     DEF Delivers, Replies, Acknowledges, Free, runState, runVars, sockVars, history
<1>3. CASE RemovesNext(s)
  <2>1. CASE viewing[s] \in registered /\ Removes(s, viewing[s])
    <3>1. sock[s] = "stopping" /\ viewing[s] \in Runs /\ UNCHANGED <<drive, sentinels>>
      BY <1>3, <2>1, <1>t DEF RemovesNext, history
    <3>2. QED
      BY <2>1, <3>1, RemovalKeepsSilence
  <2>2. CASE /\ viewing[s] \notin registered /\ Leaves(s)
             /\ UNCHANGED <<registered, cancelled, browser, finished>>
    <3>1. UNCHANGED <<drive, sentinels>> /\ sock[s] = "stopping"
      BY <1>3 DEF RemovesNext, history
    <3>2. \A q \in Runs : Stopping(q)' => Stopping(q)
      BY <2>2, <1>t DEF Stopping, Leaves
    <3>3. \A q \in registered : Announcing(q) => Announcing(q)'
      BY <2>2, <1>t DEF Announcing, Leaves
    <3>4. QED
      BY <2>2, <3>1, <3>2, <3>3, <1>a DEF Silence, Announced, Over
  <2>3. QED
    BY <1>3, <2>1, <2>2 DEF RemovesNext
<1>4. CASE Joins(s)
  <2>1. /\ sock[s] = "joining" /\ target[s] \in Runs /\ TearsDown(target[s]) /\ Leaves(s)
        /\ UNCHANGED <<drive, cancelled, registered, sentinels>>
    BY <1>4, <1>b DEF Joins, Aware, history
  <2>2. \A q \in Runs : /\ Stopping(q)' => Stopping(q)
                        /\ Announcing(q) => Announcing(q)'
                        /\ finished[q] => finished'[q]
    BY <2>1, <1>t DEF Stopping, Announcing, Leaves, TearsDown
  <2>3. QED
    BY <2>1, <2>2, <1>a DEF Silence, Announced, Over
<1>5. CASE Stops(s)
  <2>1. /\ viewing[s] \in registered /\ viewing[s] \in Runs /\ sock[s] = "idle"
        /\ EmitsSentinel(viewing[s]) /\ UNCHANGED drive
    BY <1>5, <1>t DEF Stops, Free
  <2>2. \A q \in Runs : q # viewing[s] => sentinels'[q] = sentinels[q]
    BY <2>1, SentinelCounts DEF Custody
  <2>3. CASE SlowSends
    <3>1. /\ sock' = [sock EXCEPT ![s] = "stopping"]
          /\ UNCHANGED <<registered, cancelled, finished, viewing, target>>
      BY <1>5, <2>3 DEF Stops
    <3>2. \A q \in Runs : /\ Stopping(q)' <=> Stopping(q)
                          /\ Announcing(q) => Announcing(q)'
      BY <2>1, <3>1, <1>t DEF Stopping, Announcing
    <3>3. Announcing(viewing[s])'
      BY <3>1, <1>t DEF Announcing
    <3>4. ASSUME NEW q \in Runs PROVE Announced(q)'
      BY <2>1, <2>2, <3>1, <3>2, <3>3, <1>a DEF Announced, Over
    <3>5. QED
      BY <3>4 DEF Silence
  <2>4. CASE ~SlowSends
    <3>1. Removes(s, viewing[s])
      BY <1>5, <2>4 DEF Stops
    <3>2. QED
      BY <2>1, <2>2, <3>1, RemovalKeepsSilence
  <2>5. QED
    BY <2>3, <2>4
<1>6. CASE StopsNothing(s)
  <2>1. \A t \in Sockets : t # s => viewing'[t] = viewing[t]
    BY <1>6, <1>t DEF StopsNothing
  <2>2. QED
    BY <1>6, <2>1, FreeSocketsKeepSilence
       DEF StopsNothing, Free, runState, runVars, history
<1>7. CASE Disconnects(s)
  <2>1. /\ sock[s] = "idle" /\ sock'[s] = "gone"
        /\ \A t \in Sockets : t # s => sock'[t] = sock[t] /\ viewing'[t] = viewing[t]
    BY <1>7, <1>t DEF Disconnects, Free
  <2>2. QED
    BY <1>7, <2>1, FreeSocketsKeepSilence DEF Disconnects, runState, runVars, history
<1>8. ASSUME NEW r \in Runs, Starts(s, r) PROVE Silence'
  <2>1. /\ sock[s] = "idle" /\ drive[r] = "unused" /\ r \notin registered
        /\ ~finished[r] /\ UNCHANGED <<cancelled, finished, sentinels>>
    BY <1>8 DEF Starts, Free, history
  <2>2. /\ \A q \in Runs : q # r /\ q \in registered' => q \in registered
        /\ \A q \in registered : q \in registered' \/ finished[q]
    BY <1>8 DEF Starts, Expired
  <2>3. /\ \A t \in Sockets : t # s =>
             sock'[t] = sock[t] /\ viewing'[t] = viewing[t] /\ target'[t] = target[t]
        /\ sock'[s] \in {"idle", "starting"}
    BY <1>8, <2>1, <1>t DEF Starts
  <2>4. \A q \in Runs : (Stopping(q)' <=> Stopping(q)) /\ (Announcing(q)' <=> Announcing(q))
    BY <2>1, <2>3 DEF Stopping, Announcing
  <2>5. \A q \in Runs : q # r => drive'[q] = drive[q]
    BY <1>8, <2>1, <1>t DEF Starts
  <2>6. ~(sentinels[r] > 0) /\ ~Stopping(r)
    BY <2>1, <1>a, Nodes DEF Announced, Over, Answerable
  <2>7. ASSUME NEW q \in Runs PROVE Announced(q)'
    <3>1. CASE q = r
      BY <3>1, <2>1, <2>4, <2>6 DEF Announced
    <3>2. CASE q # r
      BY <3>2, <2>1, <2>2, <2>4, <2>5, <1>a DEF Announced, Over
    <3>3. QED
      BY <3>1, <3>2
  <2>8. QED
    BY <2>7 DEF Silence
<1>9. ASSUME NEW r \in Runs, Attaches(s, r) PROVE Silence'
  <2>1. \A t \in Sockets : t # s => viewing'[t] = viewing[t]
    BY <1>9, <1>t DEF Attaches
  <2>2. QED
    BY <1>9, <2>1, FreeSocketsKeepSilence
       DEF Attaches, Free, runState, runVars, history
<1>10. QED
  BY <1>1, <1>2, <1>3, <1>4, <1>5, <1>6, <1>7, <1>8, <1>9 DEF Handler, Cockpit

\* No step breaks the silence.
LEMMA SilenceStep == Custody /\ Silence /\ [Next]_vars => Silence'
<1> SUFFICES ASSUME Custody, Silence, [Next]_vars PROVE Silence'
  OBVIOUS
<1>1. ASSUME NEW q \in Runs, Drive(q) PROVE Silence'
  <2>1. UNCHANGED <<registered, sock, viewing, target>> /\ Others(q)
    BY <1>1, DriveMindsItsRun DEF Custody
  <2>2. Announced(q)'
    BY <1>1, DriveStaysSilent DEF Custody, Silence
  <2>3. ASSUME NEW r \in Runs, r # q PROVE Announced(r)'
    <3>1. (Stopping(r)' <=> Stopping(r)) /\ (Announcing(r)' <=> Announcing(r))
      BY <2>1 DEF Stopping, Announcing
    <3>2. QED
      BY <2>1, <2>3, <3>1 DEF Silence, Announced, Over, Others
  <2>4. QED
    BY <2>2, <2>3 DEF Silence
<1>2. ASSUME NEW s \in Sockets, Handler(s) \/ Cockpit(s) PROVE Silence'
  BY <1>2, SocketsKeepSilence
<1>3. CASE UNCHANGED vars \/ \E q \in Runs : Works(q) \/ Streams(q)
  BY <1>3 DEF vars, runVars, sockVars, history, Works, Streams, Silence, Announced, Over,
     Stopping, Announcing
<1>4. QED
  BY <1>1, <1>2, <1>3 DEF Next

\* Silence is an invariant, with slow sends and without.
LEMMA SilenceInvariant == Spec => []Silence
<1>1. Init => Silence
  BY DEF Init, Silence, Announced, Stopping
<1>2. QED
  BY <1>1, SilenceStep, CustodyInvariant, PTL DEF Spec

-----------------------------------------------------------------------------
(* Which reply a run goes on with.                                         *)

\* The driver opens a future at a card and leaves it behind when it goes on
\* (ws.py, drive; run_manager.py, Run.expect_answer).
LEMMA DriveKeepsReplies ==
  ASSUME TypeOK, NEW q \in Runs, Waits(q), Drive(q)
  PROVE  Waits(q)'
<1>t. /\ drive \in [Runs -> Idle \cup Busy] /\ card \in [Runs -> 0..MaxCards]
      /\ slot \in [Runs -> {"none", "open", "done"}]
      /\ reply \in [Runs -> Answers]
      /\ resumed \in [Runs -> [card : 0..MaxCards, reply : Answers]]
  BY DEF TypeOK
<1>a. Waits(q)
  OBVIOUS
<1>1. CASE ExpectsAnswer(q)
  BY <1>1, <1>t, <1>a DEF ExpectsAnswer, Waits, sockVars, history
<1>2. CASE Resumes(q)
  <2>1. /\ drive[q] = "waiting" /\ slot[q] = "done" /\ drive'[q] = "running"
        /\ resumed'[q] = [card |-> card[q], reply |-> reply[q]]
        /\ UNCHANGED <<card, slot, reply>>
    BY <1>2, <1>t DEF Resumes, At
  <2>2. resumed'[q].reply.given = reply[q].given /\ resumed'[q].card = card[q]
    BY <2>1
  <2>3. QED
    BY <2>1, <2>2, <1>a DEF Waits
<1>3. CASE Expires(q) \/ Cancelled(q)
  <2>1. slot'[q] # "open" /\ drive'[q] # "waiting" /\ UNCHANGED resumed
    BY <1>3, <1>t DEF Expires, Cancelled, history
  <2>2. QED
    BY <2>1, <1>a DEF Waits
<1>4. CASE \/ Opened(q) \/ OpenFailed(q) \/ GivesUp(q) \/ Prepared(q)
           \/ PrepareRaises(q) \/ Wraps(q) \/ Completes(q) \/ Closes(q)
           \/ \E k \in {"approval", "question"} : Interrupts(q, k)
  <2>1. drive[q] # "waiting" /\ drive'[q] # "waiting" /\ UNCHANGED <<slot, resumed>>
    BY <1>4, <1>t DEF Opened, OpenFailed, GivesUp, Prepared, PrepareRaises, Wraps,
       Completes, Closes, Interrupts, At, history
  <2>2. QED
    BY <2>1, <1>a DEF Waits
<1>5. QED
  BY <1>1, <1>2, <1>3, <1>4 DEF Drive

\* A reply is taken by the future of the card the run waits at, and a socket
\* does nothing else to replies (ws.py, ws_run; run_manager.py, Run.answer).
LEMMA SocketsKeepReplies ==
  ASSUME TypeOK, Replying, NEW s \in Sockets, Aware(s), Handler(s) \/ Cockpit(s)
  PROVE  Replying'
<1>t. /\ drive \in [Runs -> Idle \cup Busy] /\ card \in [Runs -> 0..MaxCards]
      /\ slot \in [Runs -> {"none", "open", "done"}]
      /\ reply \in [Runs -> Answers] /\ registered \subseteq Runs
  BY DEF TypeOK
<1>a. \A r \in Runs : Waits(r)
  BY DEF Replying
<1>1. CASE Delivers(s)
  <2> DEFINE r == viewing[s]
             new == [meant |-> mail[s], given |-> card[r]]
  <2>0. UNCHANGED <<drive, card, resumed>>
    BY <1>1 DEF Delivers
  <2>1. CASE r \in registered /\ Accepts(r)
    <3>1. /\ r \in Runs /\ drive[r] = "waiting"
          /\ slot' = [slot EXCEPT ![r] = "done"]
          /\ reply' = [reply EXCEPT ![r] = new]
      BY <1>1, <2>1, <1>t, <1>a DEF Delivers, Accepts, Waits
    <3>2. new.given = card[r]
      OBVIOUS
    <3>3. reply'[r] = new /\ slot'[r] = "done"
      BY <3>1, <1>t
    <3>4. \A q \in Runs : q # r => reply'[q] = reply[q] /\ slot'[q] = slot[q]
      BY <3>1, <1>t
    <3>5. ASSUME NEW q \in Runs PROVE Waits(q)'
      <4>1. CASE q = r
        BY <4>1, <2>0, <3>1, <3>2, <3>3, <1>a DEF Waits
      <4>2. CASE q # r
        BY <4>2, <2>0, <3>4, <1>a DEF Waits
      <4>3. QED
        BY <4>1, <4>2
    <3>6. QED
      BY <3>5 DEF Replying
  <2>2. CASE ~(r \in registered /\ Accepts(r))
    BY <1>1, <2>0, <2>2, <1>a DEF Delivers, Replying, Waits
  <2>3. QED
    BY <2>1, <2>2
<1>2. CASE CreatesTask(s) \/ \E r \in Runs : Starts(s, r)
  <2>1. PICK r \in Runs : \/ drive' = [drive EXCEPT ![r] = "opening"] /\ drive[r] = "unused"
                          \/ UNCHANGED drive
    BY <1>2 DEF CreatesTask, Starts, Aware
  <2>2. UNCHANGED <<card, slot, reply, resumed>>
    BY <1>2 DEF CreatesTask, Starts, history
  <2>3. ASSUME NEW q \in Runs PROVE Waits(q)'
    <3>1. drive'[q] = drive[q] \/ (drive'[q] = "opening" /\ drive[q] = "unused")
      BY <2>1, <1>t
    <3>2. QED
      BY <3>1, <2>2, <1>a DEF Waits
  <2>4. QED
    BY <2>3 DEF Replying
<1>3. CASE \/ RemovesNext(s) \/ Joins(s) \/ Replies(s) \/ Acknowledges(s) \/ Stops(s)
           \/ StopsNothing(s) \/ Disconnects(s) \/ \E r \in Runs : Attaches(s, r)
  <2>1. UNCHANGED <<drive, card, slot, reply, resumed>>
    BY <1>3 DEF RemovesNext, Joins, Replies, Acknowledges, Stops, StopsNothing,
       Disconnects, Attaches, runVars, history
  <2>2. QED
    BY <2>1, <1>a DEF Replying, Waits
<1>4. QED
  BY <1>1, <1>2, <1>3 DEF Handler, Cockpit

\* Replying is an invariant.
LEMMA ReplyingInvariant == Spec => []Replying
<1>1. Init => Replying
  BY DEF Init, Replying, Waits, NoReply
<1>2. Custody /\ Replying /\ [Next]_vars => Replying'
  <2> SUFFICES ASSUME Custody, Replying, [Next]_vars PROVE Replying'
    OBVIOUS
  <2>1. ASSUME NEW q \in Runs, Drive(q) PROVE Replying'
    <3>1. Others(q) /\ Waits(q)'
      BY <2>1, DriveMindsItsRun, DriveKeepsReplies DEF Custody, Replying
    <3>2. ASSUME NEW r \in Runs, r # q PROVE Waits(r)'
      BY <3>1, <3>2 DEF Replying, Waits, Others
    <3>3. QED
      BY <3>1, <3>2 DEF Replying
  <2>2. ASSUME NEW s \in Sockets, Handler(s) \/ Cockpit(s) PROVE Replying'
    BY <2>2, SocketsKeepReplies DEF Custody
  <2>3. CASE UNCHANGED vars \/ \E q \in Runs : Works(q) \/ Streams(q)
    BY <2>3 DEF vars, runVars, history, Works, Streams, Replying, Waits
  <2>4. QED
    BY <2>1, <2>2, <2>3 DEF Next
<1>3. QED
  BY <1>1, <1>2, CustodyInvariant, PTL DEF Spec

-----------------------------------------------------------------------------
(* Where emissions do not suspend their handler.                           *)

\* A driver is registered, or being stopped, as long as it works.
LEMMA DriveStaysCalm ==
  ASSUME TypeOK, NEW q \in Runs, Answerable(q), Calm(q), Drive(q)
  PROVE  Calm(q)'
<1>1. /\ registered' = registered /\ (Stopping(q)' <=> Stopping(q))
  BY DriveMindsItsRun DEF Stopping
<1>2. drive[q] # "unused"
  BY DriveGoesOn
<1>3. drive[q] \in Busy
  BY DEF Drive, Opened, OpenFailed, GivesUp, Prepared, PrepareRaises, ExpectsAnswer,
     Resumes, Expires, Wraps, Completes, Closes, Cancelled, Interrupts, At, Answerable,
     Busy
<1>4. drive'[q] # "unused"
  <2>1. drive \in [Runs -> Idle \cup Busy]
    BY DEF TypeOK
  <2>2. QED
    BY <2>1 DEF Drive, Opened, OpenFailed, GivesUp, Prepared, PrepareRaises,
       ExpectsAnswer, Resumes, Expires, Wraps, Completes, Closes, Cancelled, Interrupts
<1>5. QED
  BY <1>1, <1>3, <1>4 DEF Calm, Reachable

\* A start takes its task along, and a stop cancels in the same breath
\* (ws.py, ws_run; run_manager.py, RunManager.remove).
LEMMA SocketsKeepQuiet ==
  ASSUME ~SlowSends, Custody, Quiet, NEW s \in Sockets, Handler(s) \/ Cockpit(s)
  PROVE  Quiet'
<1>t. /\ drive \in [Runs -> Idle \cup Busy] /\ cancelled \in [Runs -> BOOLEAN]
      /\ sock \in [Sockets -> {"idle", "starting", "stopping", "joining", "gone"}]
      /\ target \in [Sockets -> Runs \cup {NoRun}]
      /\ registered \subseteq Runs
  BY DEF Custody, TypeOK
<1>a. \A r \in Runs : Calm(r) /\ Answerable(r)
  BY DEF Custody, Quiet
<1>b. \A t \in Sockets : sock[t] \in {"idle", "joining", "gone"}
  BY DEF Quiet
<1>1. CASE CreatesTask(s)
  BY <1>1, <1>b DEF CreatesTask
<1>2. CASE Delivers(s) \/ Replies(s) \/ Acknowledges(s) \/ StopsNothing(s)
  BY <1>2, <1>a, <1>b DEF Delivers, Replies, Acknowledges, StopsNothing, runVars, sockVars,
     Quiet, Calm, Reachable, Stopping
<1>3. CASE RemovesNext(s)
  BY <1>3, <1>b DEF RemovesNext
<1>4. CASE Joins(s)
  <2>1. /\ drive[target[s]] \in Idle /\ Leaves(s)
        /\ UNCHANGED <<drive, registered>>
    BY <1>4 DEF Joins
  <2>2. \A t \in Sockets : sock'[t] \in {"idle", "joining", "gone"}
    BY <2>1, <1>t, <1>b DEF Leaves
  <2>3. \A r \in Runs : Stopping(r) /\ r # target[s] => Stopping(r)'
    BY <2>1, <1>t DEF Stopping, Leaves
  <2>4. ASSUME NEW r \in Runs PROVE Calm(r)'
    BY <2>1, <2>3, <1>a, Nodes DEF Calm, Reachable
  <2>5. QED
    BY <2>2, <2>4 DEF Quiet
<1>5. CASE Stops(s)
  <2>1. PICK r \in Runs :
          /\ r \in registered /\ sock[s] = "idle"
          /\ Removes(s, r) /\ UNCHANGED drive
    BY <1>5, <1>t DEF Stops, Free
  <2>3. registered' = registered \ {r}
    BY <2>1 DEF Removes
  <2>4. CASE drive[r] \in Busy
    <3>1. /\ cancelled' = [cancelled EXCEPT ![r] = TRUE]
          /\ sock' = [sock EXCEPT ![s] = "joining"]
          /\ target' = [target EXCEPT ![s] = r]
      BY <2>1, <2>4, Nodes DEF Removes
    <3>2. Stopping(r)' /\ \A q \in Runs : Stopping(q) => Stopping(q)'
      <4>1. sock'[s] = "joining" /\ target'[s] = r /\ sock[s] # "joining"
        BY <2>1, <3>1, <1>t
      <4>2. \A t \in Sockets : t # s => sock'[t] = sock[t] /\ target'[t] = target[t]
        BY <3>1, <1>t
      <4>3. QED
        BY <4>1, <4>2 DEF Stopping
    <3>3. ASSUME NEW q \in Runs PROVE Calm(q)'
      BY <2>1, <2>3, <3>2, <1>a DEF Calm, Reachable
    <3>4. QED
      BY <3>1, <3>3, <1>t, <1>b DEF Quiet
  <2>5. CASE drive[r] \notin Busy
    <3>1. Leaves(s) /\ UNCHANGED cancelled
      BY <2>1, <2>5 DEF Removes
    <3>2. /\ \A q \in Runs : Stopping(q) => Stopping(q)'
          /\ \A t \in Sockets : sock'[t] \in {"idle", "joining", "gone"}
      BY <2>1, <3>1, <1>t, <1>b DEF Stopping, Leaves
    <3>3. ASSUME NEW q \in Runs PROVE Calm(q)'
      BY <2>1, <2>3, <2>5, <3>2, <1>a DEF Calm, Reachable
    <3>4. QED
      BY <3>2, <3>3 DEF Quiet
  <2>6. QED
    BY <2>4, <2>5
<1>6. CASE Disconnects(s)
  <2>1. /\ sock[s] = "idle" /\ sock' = [sock EXCEPT ![s] = "gone"]
        /\ UNCHANGED <<drive, registered, target>>
    BY <1>6 DEF Disconnects, Free, runVars
  <2>2. \A r \in Runs : Stopping(r) => Stopping(r)'
    BY <2>1, <1>t DEF Stopping
  <2>3. \A r \in Runs : Calm(r)'
    BY <2>1, <2>2, <1>a DEF Calm, Reachable
  <2>4. QED
    BY <2>1, <2>3, <1>t, <1>b DEF Quiet
<1>7. ASSUME NEW r \in Runs, Starts(s, r) PROVE Quiet'
  <2>1. /\ drive[r] = "unused" /\ drive' = [drive EXCEPT ![r] = "opening"]
        /\ UNCHANGED <<sock, target>>
    BY <1>7 DEF Starts
  <2>2. /\ r \in registered' /\ registered' \subseteq registered \cup {r}
        /\ \A q \in registered : q \in registered' \/ drive[q] \in Idle
    BY <1>7 DEF Starts, Expired
  <2>3. \A q \in Runs : Stopping(q)' <=> Stopping(q)
    BY <2>1 DEF Stopping
  <2>4. ASSUME NEW q \in Runs PROVE Calm(q)'
    <3>1. CASE q = r
      BY <3>1, <2>1, <2>2, <1>t DEF Calm, Reachable
    <3>2. CASE q # r
      BY <3>2, <2>1, <2>2, <2>3, <1>t, <1>a, Nodes DEF Calm, Reachable
    <3>3. QED
      BY <3>1, <3>2
  <2>5. QED
    BY <2>1, <2>4, <1>b DEF Quiet
<1>8. ASSUME NEW r \in Runs, Attaches(s, r) PROVE Quiet'
  BY <1>8, <1>a, <1>b DEF Attaches, runVars, Quiet, Calm, Reachable, Stopping
<1>9. QED
  BY <1>1, <1>2, <1>3, <1>4, <1>5, <1>6, <1>7, <1>8 DEF Handler, Cockpit

\* No step breaks the quiet.
LEMMA QuietStep ==
  ASSUME ~SlowSends
  PROVE  Custody /\ Quiet /\ [Next]_vars => Quiet'
<1> SUFFICES ASSUME Custody, Quiet, [Next]_vars PROVE Quiet'
  OBVIOUS
<1>1. ASSUME NEW q \in Runs, Drive(q) PROVE Quiet'
  <2>1. UNCHANGED <<registered, sock, target>> /\ Others(q)
    BY <1>1, DriveMindsItsRun DEF Custody
  <2>2. Calm(q)'
    BY <1>1, DriveStaysCalm DEF Custody, Quiet
  <2>3. ASSUME NEW r \in Runs, r # q PROVE Calm(r)'
    BY <2>1, <2>3 DEF Quiet, Calm, Reachable, Stopping, Others
  <2>4. QED
    BY <2>1, <2>2, <2>3 DEF Quiet
<1>2. ASSUME NEW s \in Sockets, Handler(s) \/ Cockpit(s) PROVE Quiet'
  BY <1>2, SocketsKeepQuiet
<1>3. CASE UNCHANGED vars \/ \E q \in Runs : Works(q) \/ Streams(q)
  BY <1>3 DEF vars, runVars, sockVars, history, Works, Streams, Quiet, Calm, Reachable, Stopping
<1>4. QED
  BY <1>1, <1>2, <1>3 DEF Next

\* Quiet is an invariant of a lifecycle whose emissions do not suspend.
LEMMA QuietInvariant ==
  ASSUME ~SlowSends
  PROVE  Spec => []Quiet
<1>1. Init => Quiet
  BY DEF Init, Quiet, Calm, Busy
<1>2. Custody /\ Quiet /\ [Next]_vars => Quiet'
  BY QuietStep
<1>3. QED
  BY <1>1, <1>2, CustodyInvariant, PTL DEF Spec

-----------------------------------------------------------------------------
(* The theorems.                                                           *)

\* TypeOK: every variable of Run, its driver and the sockets keeps its type.
THEOREM TypeCorrect == Spec => []TypeOK
<1>1. Custody => TypeOK
  BY DEF Custody
<1>2. QED
  BY <1>1, CustodyInvariant, PTL

\* HandedOverIsClosed, where a model is configured: once the driver of a run is
\* done and nobody is still stopping the run, the browser that launch_surface
\* returned to it is closed, in whichever await the driver was cancelled and
\* however slow the sockets are (ws.py, drive's finally clause; run_manager.py,
\* Run.stop).  A Chromium left behind inside launch_surface is not covered.
THEOREM BrowserGoesWithItsRun ==
  ASSUME ~NoModel
  PROVE  Spec => []HandedOverIsClosed
<1>1. Custody => HandedOverIsClosed
  BY DEF Custody, Answerable, HandedOverIsClosed
<1>2. QED
  BY <1>1, CustodyInvariant, PTL

\* AlwaysAnnounced, where a model is configured: a driver that is done has
\* either emitted run_complete or was cancelled by a stop that did (ws.py).
THEOREM EveryEndIsAnnounced ==
  ASSUME ~NoModel
  PROVE  Spec => []AlwaysAnnounced
<1>1. Custody => AlwaysAnnounced
  BY DEF Custody, Answerable, AlwaysAnnounced
<1>2. QED
  BY <1>1, CustodyInvariant, PTL

\* NoOrphan, where emissions do not suspend their handler: a driver at work
\* belongs to a registered run or to one that a socket is stopping
\* (run_manager.py, RunManager).
THEOREM WhoWorksCanBeReached ==
  ASSUME ~SlowSends
  PROVE  Spec => []NoOrphan
<1>1. Quiet => NoOrphan
  BY DEF Quiet, Calm, NoOrphan
<1>2. QED
  BY <1>1, QuietInvariant, PTL

\* DriverFallsSilent, with slow sends and without: whoever sent the run_complete
\* of a run, its driver adds nothing to it, unless the stop is still sending or
\* met the run before its task existed (ws.py, drive and the stop branch of
\* ws_run; run_manager.py, RunManager.remove).
THEOREM NoWordAfterTheEnd == Spec => DriverFallsSilent
<1>1. ASSUME Custody, Silence, NEW r \in Runs, Speaks(r)
      PROVE  sentinels[r] = 0 \/ Announcing(r) \/ ~Reachable(r)
  <2>1. ~cancelled[r] /\ ~Over(r)
    BY <1>1 DEF Speaks, OpenFailed, GivesUp, Works, Wraps, Completes, Interrupts, At, Over
  <2>2. Announced(r) /\ sentinels[r] \in Nat
    BY <1>1 DEF Custody, TypeOK, Silence
  <2>3. QED
    BY <2>1, <2>2 DEF Announced, Reachable
<1>2. Custody /\ Silence =>
        [\A r \in Runs :
           Speaks(r) => sentinels[r] = 0 \/ Announcing(r) \/ ~Reachable(r)]_vars
  BY <1>1
<1>3. QED
  BY <1>2, CustodyInvariant, SilenceInvariant, PTL DEF DriverFallsSilent

\* EachCardItsReply: whatever two cockpits send, and however deadlines and stops
\* fall between, what resumed a run was taken by the future of the card it
\* resumed (ws.py, drive; run_manager.py, Run.expect_answer and Run.answer).
THEOREM RepliesAreNotReused == Spec => []EachCardItsReply
<1>1. Replying => EachCardItsReply
  BY DEF Replying, Waits, EachCardItsReply
<1>2. QED
  BY <1>1, ReplyingInvariant, PTL

=============================================================================
