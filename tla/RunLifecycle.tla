----------------------------- MODULE RunLifecycle -----------------------------
(***************************************************************************)
(* A run as a server-side object and the cockpit sockets that start,       *)
(* watch, answer and stop it: the driver coroutine and the socket handler  *)
(* of api/ws.py, and Run and RunManager of api/run_manager.py.             *)
(*                                                                         *)
(* Everything runs on one event loop, so a step is the code between two    *)
(* awaits that really suspend.  A driver step that a cancellation reached  *)
(* first is not taken: the task resumes with CancelledError instead.       *)
(*                                                                         *)
(* Each start carries a thread id nobody used before, as the cockpit makes *)
(* one per run (frontend/lib/startRun.ts), so a run stands for its thread. *)
(***************************************************************************)
EXTENDS Naturals, FiniteSets

CONSTANTS
  Runs,         \* the runs that may be started
  Sockets,      \* the cockpit connections
  NoRun,
  MaxCards,     \* bound: how often a run stops to ask the human
  SlowSends,    \* a handler may be suspended while it emits (a full socket)
  NoModel       \* build_graph may raise: no LLM is configured

ASSUME LifecycleConstants ==
  /\ NoRun \notin Runs
  /\ MaxCards \in Nat
  /\ {SlowSends, NoModel} \subseteq BOOLEAN

VARIABLES
  drive,       \* where the driver coroutine of a run is
  cancelled,   \* the task was cancelled and has not resumed yet
  card, kind,  \* the latest card the run raised, and what kind it is
  slot, reply, \* Run._answer; the card its value was meant for, and the one
               \* the run was waiting at when it took it
  browser,     \* a Chromium started for the run: none; open, in the driver's
               \* hands; closed; or lost, left running by a launch that failed
  cleanup,     \* Run.cleanup is set
  finished,    \* Run.finished_at is set
  registered,  \* the runs RunManager knows
  sock,        \* what a socket's handler is doing
  viewing,     \* the run a socket looks at
  target,      \* the run a socket's handler is starting or stopping
  onScreen,    \* the undecided card on a socket's screen, 0 for none
  mail,        \* a reply on its way to the server, 0 for none
  sentinels,   \* history: run_complete events of a run
  late,        \* history: the run emitted something after a run_complete
  resumed      \* history: the card that was resumed last, with which reply

runVars == <<drive, cancelled, card, kind, slot, reply, browser, cleanup,
             finished>>
sockVars == <<sock, viewing, target, onScreen, mail>>
history == <<sentinels, late, resumed>>
vars == <<runVars, registered, sockVars, history>>

Idle == {"unused", "ended", "crashed"}
Busy == {"opening", "openfailed", "preparing", "running", "asking", "waiting",
         "giving up", "wrapping", "closing"}

Answers == [meant : 0..MaxCards, given : 0..MaxCards]
NoReply == [meant |-> 0, given |-> 0]

Init ==
  /\ drive = [r \in Runs |-> "unused"]
  /\ cancelled = [r \in Runs |-> FALSE]
  /\ card = [r \in Runs |-> 0] /\ kind = [r \in Runs |-> "question"]
  /\ slot = [r \in Runs |-> "none"] /\ reply = [r \in Runs |-> NoReply]
  /\ browser = [r \in Runs |-> "none"] /\ cleanup = [r \in Runs |-> FALSE]
  /\ finished = [r \in Runs |-> FALSE]
  /\ registered = {}
  /\ sock = [s \in Sockets |-> "idle"]
  /\ viewing = [s \in Sockets |-> NoRun]
  /\ target = [s \in Sockets |-> NoRun]
  /\ onScreen = [s \in Sockets |-> 0] /\ mail = [s \in Sockets |-> 0]
  /\ sentinels = [r \in Runs |-> 0] /\ late = [r \in Runs |-> FALSE]
  /\ resumed = [r \in Runs |-> [card |-> 0, reply |-> NoReply]]

-----------------------------------------------------------------------------
(* What the run emits, as far as these properties tell events apart.       *)

Emits(r) == late' = [late EXCEPT ![r] = @ \/ sentinels[r] > 0]

\* run_complete, the first of its run or another one.
EmitsSentinel(r) ==
  /\ Emits(r)
  /\ sentinels' = [sentinels EXCEPT ![r] = @ + 1]

\* A defect: the card carries the number of the next one.
ShowsNext(r, n) ==
  onScreen' = [s \in Sockets |-> IF viewing[s] = r THEN n + 1 ELSE onScreen[s]]

\* A card reaches everyone who is watching.
Shows(r, n) ==
  onScreen' = [s \in Sockets |-> IF viewing[s] = r THEN n ELSE onScreen[s]]

-----------------------------------------------------------------------------
(* drive                                                                   *)

At(r, node) == drive[r] = node /\ ~cancelled[r]

\* The browser is up: cleanup is registered before anything else can fail.
Opened(r) ==
  /\ At(r, "opening")
  /\ drive' = [drive EXCEPT ![r] = "preparing"]
  /\ browser' = [browser EXCEPT ![r] = "open"]
  /\ cleanup' = [cleanup EXCEPT ![r] = TRUE]
  /\ UNCHANGED <<cancelled, card, kind, slot, reply, finished, registered,
                 sockVars, history>>

\* The launch fails or is cancelled: a Chromium it had already started stays
\* behind, and nothing the run owns can close it.
Abandons(r) ==
  \/ UNCHANGED browser
  \/ browser' = [browser EXCEPT ![r] = "lost"]

\* No browser: the error is on its way out.
OpenFailed(r) ==
  /\ At(r, "opening")
  /\ drive' = [drive EXCEPT ![r] = "openfailed"]
  /\ Abandons(r)
  /\ Emits(r)
  /\ UNCHANGED <<cancelled, card, kind, slot, reply, cleanup, finished,
                 registered, sockVars, sentinels, resumed>>

\* A defect: the failed launch is reported, the end of the run is not.
GivesUpQuietly(r) ==
  /\ At(r, "openfailed")
  /\ drive' = [drive EXCEPT ![r] = "ended"]
  /\ finished' = [finished EXCEPT ![r] = TRUE]
  /\ UNCHANGED <<cancelled, card, kind, slot, reply, browser, cleanup,
                 registered, sockVars, history>>

GivesUp(r) ==
  /\ At(r, "openfailed")
  /\ drive' = [drive EXCEPT ![r] = "ended"]
  /\ finished' = [finished EXCEPT ![r] = TRUE]
  /\ EmitsSentinel(r)
  /\ UNCHANGED <<cancelled, card, kind, slot, reply, browser, cleanup,
                 registered, sockVars, resumed>>

\* The screencast: while the browser is up its frames are emitted, whatever
\* the driver is doing.
Streams(r) ==
  /\ browser[r] = "open"
  /\ Emits(r)
  /\ UNCHANGED <<runVars, registered, sockVars, sentinels, resumed>>

\* The driver's work is seen: a graph node reports what it does, or the setup
\* that there is no live view.
Works(r) ==
  /\ At(r, "preparing") \/ At(r, "running")
  /\ Emits(r)
  /\ UNCHANGED <<runVars, registered, sockVars, sentinels, resumed>>

\* The screencast is up (or not) and the graph is built.
Prepared(r) ==
  /\ At(r, "preparing")
  /\ drive' = [drive EXCEPT ![r] = "running"]
  /\ UNCHANGED <<cancelled, card, kind, slot, reply, browser, cleanup,
                 finished, registered, sockVars, history>>

\* build_graph raised, outside the try: the task dies with the exception.
PrepareRaises(r) ==
  /\ NoModel
  /\ At(r, "preparing")
  /\ drive' = [drive EXCEPT ![r] = "crashed"]
  /\ UNCHANGED <<cancelled, card, kind, slot, reply, browser, cleanup,
                 finished, registered, sockVars, history>>

\* A node stops at an interrupt.  Its card is on screen before the driver
\* has a future for the reply.
Interrupts(r, k) ==
  /\ At(r, "running")
  /\ card[r] < MaxCards
  /\ drive' = [drive EXCEPT ![r] = "asking"]
  /\ card' = [card EXCEPT ![r] = @ + 1] /\ kind' = [kind EXCEPT ![r] = k]
  /\ Shows(r, card[r] + 1)
  /\ Emits(r)
  /\ UNCHANGED <<cancelled, slot, reply, browser, cleanup, finished,
                 registered, sock, viewing, target, mail, sentinels, resumed>>

\* A defect: the future of the last card is kept when it was never dropped.
ExpectsAnswerReusing(r) ==
  /\ At(r, "asking")
  /\ drive' = [drive EXCEPT ![r] = "waiting"]
  /\ slot' = [slot EXCEPT ![r] = IF @ = "none" THEN "open" ELSE @]
  /\ UNCHANGED <<cancelled, card, kind, reply, browser, cleanup, finished,
                 registered, sockVars, history>>

\* Run.expect_answer: a new future for every card.
ExpectsAnswer(r) ==
  /\ At(r, "asking")
  /\ drive' = [drive EXCEPT ![r] = "waiting"]
  /\ slot' = [slot EXCEPT ![r] = "open"]
  /\ UNCHANGED <<cancelled, card, kind, reply, browser, cleanup, finished,
                 registered, sockVars, history>>

\* The awaited reply arrived: the graph resumes with it.
Resumes(r) ==
  /\ At(r, "waiting")
  /\ slot[r] = "done"
  /\ drive' = [drive EXCEPT ![r] = "running"]
  /\ resumed' = [resumed EXCEPT ![r] = [card |-> card[r], reply |-> reply[r]]]
  /\ UNCHANGED <<cancelled, card, kind, slot, reply, browser, cleanup,
                 finished, registered, sockVars, sentinels, late>>

\* Only an approval has a deadline; wait_for cancels the future with it.  A
\* reply taken in the same pass of the event loop is lost to the deadline
\* (asyncio of the Python 3.12 that pyproject.toml asks for).  The gate ends the
\* run on it, without another question.
Expires(r) ==
  /\ At(r, "waiting")
  /\ kind[r] = "approval"
  /\ drive' = [drive EXCEPT ![r] = "giving up"]
  /\ slot' = [slot EXCEPT ![r] = IF @ = "open" THEN "none" ELSE @]
  /\ UNCHANGED <<cancelled, card, kind, reply, browser, cleanup, finished,
                 registered, sockVars, history>>

\* The graph returned or raised; finalize or error is on its way out.
Wraps(r) ==
  /\ At(r, "running") \/ At(r, "giving up")
  /\ drive' = [drive EXCEPT ![r] = "wrapping"]
  /\ Emits(r)
  /\ UNCHANGED <<cancelled, card, kind, slot, reply, browser, cleanup,
                 finished, registered, sockVars, sentinels, resumed>>

\* run_complete, and into the finally clause.
Completes(r) ==
  /\ At(r, "wrapping")
  /\ drive' = [drive EXCEPT ![r] = "closing"]
  /\ finished' = [finished EXCEPT ![r] = TRUE]
  /\ EmitsSentinel(r)
  /\ UNCHANGED <<cancelled, card, kind, slot, reply, browser, cleanup,
                 registered, sockVars, resumed>>

Closes(r) ==
  /\ At(r, "closing")
  /\ drive' = [drive EXCEPT ![r] = "ended"]
  /\ browser' = [browser EXCEPT ![r] = "closed"]
  /\ cleanup' = [cleanup EXCEPT ![r] = FALSE]
  /\ UNCHANGED <<cancelled, card, kind, slot, reply, finished, registered,
                 sockVars, history>>

\* Three defects of the cancelled driver: it skips the finally clause; it
\* reports the cancellation like any other error; it does not notice.
CancelledBare(r) ==
  /\ cancelled[r]
  /\ cancelled' = [cancelled EXCEPT ![r] = FALSE]
  /\ drive' = [drive EXCEPT ![r] = "ended"]
  /\ cleanup' = [cleanup EXCEPT ![r] = FALSE]
  /\ UNCHANGED <<card, kind, slot, reply, browser, finished, registered,
                 sockVars, history>>

CancelledReported(r) ==
  /\ cancelled[r]
  /\ cancelled' = [cancelled EXCEPT ![r] = FALSE]
  /\ drive' = [drive EXCEPT ![r] = "wrapping"]
  /\ Emits(r)
  /\ UNCHANGED <<card, kind, slot, reply, browser, cleanup, finished,
                 registered, sockVars, sentinels, resumed>>

CancelledUnnoticed(r) ==
  /\ cancelled[r]
  /\ cancelled' = [cancelled EXCEPT ![r] = FALSE]
  /\ UNCHANGED <<drive, card, kind, slot, reply, browser, cleanup, finished,
                 registered, sockVars, history>>

\* CancelledError: inside the try it passes the finally clause, elsewhere it
\* ends the task.
Cancelled(r) ==
  /\ cancelled[r]
  /\ cancelled' = [cancelled EXCEPT ![r] = FALSE]
  /\ IF drive[r] \in {"running", "asking", "waiting", "giving up", "wrapping"}
       THEN /\ drive' = [drive EXCEPT ![r] = "closing"]
            /\ finished' = [finished EXCEPT ![r] = TRUE]
       ELSE /\ drive' = [drive EXCEPT ![r] = "ended"]
            /\ UNCHANGED finished
  /\ IF drive[r] = "opening" THEN Abandons(r) ELSE UNCHANGED browser
  /\ slot' = [slot EXCEPT ![r] = IF @ = "open" THEN "none" ELSE @]
  /\ UNCHANGED <<card, kind, reply, cleanup, registered, sockVars, history>>

Drive(r) ==
  \/ Opened(r) \/ OpenFailed(r) \/ GivesUp(r) \/ Prepared(r)
  \/ PrepareRaises(r) \/ ExpectsAnswer(r) \/ Resumes(r) \/ Expires(r)
  \/ Wraps(r) \/ Completes(r) \/ Closes(r) \/ Cancelled(r)
  \/ \E k \in {"approval", "question"} : Interrupts(r, k)

-----------------------------------------------------------------------------
(* ws_run: one handler per socket, one message at a time and in order: a    *)
(* reply still on its way is handled before whatever the cockpit sends next. *)

Free(s) == sock[s] = "idle"

\* The socket stops looking at its run, and its handler is free again.
Leaves(s) ==
  /\ sock' = [sock EXCEPT ![s] = "idle"]
  /\ viewing' = [viewing EXCEPT ![s] = NoRun]
  /\ target' = [target EXCEPT ![s] = NoRun]
  /\ onScreen' = [onScreen EXCEPT ![s] = 0]

\* The end of Run.stop: whatever cleanup is left, and finished.
TearsDown(r) ==
  /\ browser' = [browser EXCEPT ![r] = IF cleanup[r] THEN "closed" ELSE @]
  /\ finished' = [finished EXCEPT ![r] = TRUE]

\* A defect: the run is forgotten and not cancelled.
RemovesOnly(s, r) ==
  /\ registered' = registered \ {r}
  /\ Leaves(s)
  /\ UNCHANGED <<cancelled, browser, finished>>

\* RunManager.remove: out of the registry, then Run.stop.  A task that is at
\* work is cancelled, and the handler waits for it.
Removes(s, r) ==
  /\ registered' = registered \ {r}
  /\ \/ /\ drive[r] \in Busy
        /\ cancelled' = [cancelled EXCEPT ![r] = TRUE]
        /\ sock' = [sock EXCEPT ![s] = "joining"]
        /\ target' = [target EXCEPT ![s] = r]
        /\ UNCHANGED <<browser, finished, viewing, onScreen>>
     \/ /\ drive[r] \in Idle
        /\ TearsDown(r) /\ Leaves(s)
        /\ UNCHANGED cancelled

\* RunManager.gc drops finished runs past their TTL; how many are past it is
\* a matter of time.  Their task is done or only closing its browser.
Expired == {r \in registered : finished[r] /\ drive[r] \in Idle}

\* start: gc, leave the old run, create and attach, emit the first status.
\* The task is created after that status, which a full socket may delay.
Starts(s, r) ==
  /\ Free(s) /\ mail[s] = 0
  /\ drive[r] = "unused" /\ r \notin registered /\ ~finished[r]
  /\ \E old \in SUBSET Expired : registered' = (registered \ old) \cup {r}
  /\ viewing' = [viewing EXCEPT ![s] = r]
  /\ onScreen' = [onScreen EXCEPT ![s] = 0]
  /\ IF SlowSends
       THEN /\ sock' = [sock EXCEPT ![s] = "starting"]
            /\ target' = [target EXCEPT ![s] = r]
            /\ UNCHANGED drive
       ELSE /\ drive' = [drive EXCEPT ![r] = "opening"]
            /\ UNCHANGED <<sock, target>>
  /\ UNCHANGED <<cancelled, card, kind, slot, reply, browser, cleanup,
                 finished, mail, history>>

CreatesTask(s) ==
  /\ sock[s] = "starting"
  /\ drive' = [drive EXCEPT ![target[s]] = "opening"]
  /\ sock' = [sock EXCEPT ![s] = "idle"]
  /\ target' = [target EXCEPT ![s] = NoRun]
  /\ UNCHANGED <<cancelled, card, kind, slot, reply, browser, cleanup,
                 finished, registered, viewing, onScreen, mail, history>>

\* attach: the replay puts the latest card on screen, unless it was decided.
Attaches(s, r) ==
  /\ Free(s) /\ mail[s] = 0
  /\ r \in registered
  /\ viewing' = [viewing EXCEPT ![s] = r]
  /\ onScreen' = [onScreen EXCEPT ![s] =
                    IF drive[r] \in {"asking", "waiting"} THEN card[r] ELSE 0]
  /\ UNCHANGED <<runVars, registered, sock, target, mail, history>>

\* The human answers, decides or chooses; a card leaves the screen with it.
Replies(s) ==
  /\ sock[s] # "gone"
  /\ onScreen[s] # 0 /\ mail[s] = 0
  /\ mail' = [mail EXCEPT ![s] = onScreen[s]]
  /\ onScreen' = [onScreen EXCEPT ![s] = 0]
  /\ UNCHANGED <<runVars, registered, sock, viewing, target, history>>

\* Run.answer
Accepts(r) == slot[r] = "open"

\* answer, decision, choice: whatever future is open takes the reply.
Delivers(s) ==
  /\ Free(s)
  /\ mail[s] # 0
  /\ mail' = [mail EXCEPT ![s] = 0]
  /\ LET r == viewing[s]
     IN  IF r \in registered /\ Accepts(r)
           THEN /\ slot' = [slot EXCEPT ![r] = "done"]
                /\ reply' = [reply EXCEPT ![r] =
                                [meant |-> mail[s], given |-> card[r]]]
           ELSE UNCHANGED <<slot, reply>>
  /\ UNCHANGED <<drive, cancelled, card, kind, browser, cleanup, finished,
                 registered, sock, viewing, target, onScreen, sentinels, late,
                 resumed>>

\* feedback: acknowledged in the run's stream, of a finished run too; a rating
\* is given when the run is over.  (What becomes of the text is in Steering.)
Acknowledges(s) ==
  /\ Free(s) /\ mail[s] = 0
  /\ viewing[s] \in registered
  /\ Emits(viewing[s])
  /\ UNCHANGED <<runVars, registered, sockVars, sentinels, resumed>>

\* stop: the sentinel first, which a full socket may delay.
Stops(s) ==
  /\ Free(s) /\ mail[s] = 0
  /\ viewing[s] \in registered
  /\ EmitsSentinel(viewing[s])
  /\ IF SlowSends
       THEN /\ sock' = [sock EXCEPT ![s] = "stopping"]
            /\ UNCHANGED <<registered, cancelled, browser, finished, viewing,
                           target, onScreen>>
       ELSE Removes(s, viewing[s])
  /\ UNCHANGED <<drive, card, kind, slot, reply, cleanup, mail, resumed>>

\* stop for a run that is gone: the socket just stops looking at it.
StopsNothing(s) ==
  /\ Free(s) /\ mail[s] = 0
  /\ viewing[s] \in Runs \ registered
  /\ viewing' = [viewing EXCEPT ![s] = NoRun]
  /\ onScreen' = [onScreen EXCEPT ![s] = 0]
  /\ UNCHANGED <<runVars, registered, sock, target, mail, history>>

\* The sentinel is out.  Another socket may have removed the run meanwhile.
RemovesNext(s) ==
  /\ sock[s] = "stopping"
  /\ \/ viewing[s] \in registered /\ Removes(s, viewing[s])
     \/ /\ viewing[s] \notin registered /\ Leaves(s)
        /\ UNCHANGED <<registered, cancelled, browser, finished>>
  /\ UNCHANGED <<drive, card, kind, slot, reply, cleanup, mail, history>>

\* Run.stop goes on when the cancelled task is done.
Joins(s) ==
  /\ sock[s] = "joining"
  /\ drive[target[s]] \in Idle
  /\ TearsDown(target[s]) /\ Leaves(s)
  /\ UNCHANGED <<drive, cancelled, card, kind, slot, reply, cleanup,
                 registered, mail, history>>

\* The cockpit goes away.  The run does not.
Disconnects(s) ==
  /\ Free(s)
  /\ sock' = [sock EXCEPT ![s] = "gone"]
  /\ viewing' = [viewing EXCEPT ![s] = NoRun]
  /\ onScreen' = [onScreen EXCEPT ![s] = 0]
  /\ mail' = [mail EXCEPT ![s] = 0]
  /\ UNCHANGED <<runVars, registered, target, history>>

\* What the handler goes on to do by itself.
Handler(s) == CreatesTask(s) \/ Delivers(s) \/ RemovesNext(s) \/ Joins(s)

\* What the human or the browser does.
Cockpit(s) ==
  \/ Replies(s) \/ Acknowledges(s) \/ Stops(s) \/ StopsNothing(s)
  \/ Disconnects(s)
  \/ \E r \in Runs : Starts(s, r) \/ Attaches(s, r)

Next ==
  \/ \E r \in Runs : Drive(r) \/ Works(r) \/ Streams(r)
  \/ \E s \in Sockets : Handler(s) \/ Cockpit(s)

\* The event loop resumes every task that can go on.  A driver may wait for
\* the human forever, work need not report itself, and a page that is still
\* sends no frames.
Spec ==
  /\ Init /\ [][Next]_vars
  /\ \A r \in Runs : WF_vars(Drive(r))
  /\ \A s \in Sockets : WF_vars(Handler(s))

-----------------------------------------------------------------------------
\* The state stays in its types (all of RunLifecycle: Run, its driver and the sockets).
TypeOK ==
  /\ drive \in [Runs -> Idle \cup Busy] /\ cancelled \in [Runs -> BOOLEAN]
  /\ card \in [Runs -> 0..MaxCards]
  /\ kind \in [Runs -> {"approval", "question"}]
  /\ slot \in [Runs -> {"none", "open", "done"}]
  /\ reply \in [Runs -> Answers]
  /\ browser \in [Runs -> {"none", "open", "closed", "lost"}]
  /\ cleanup \in [Runs -> BOOLEAN] /\ finished \in [Runs -> BOOLEAN]
  /\ registered \subseteq Runs
  /\ sock \in [Sockets -> {"idle", "starting", "stopping", "joining", "gone"}]
  /\ viewing \in [Sockets -> Runs \cup {NoRun}]
  /\ target \in [Sockets -> Runs \cup {NoRun}]
  /\ onScreen \in [Sockets -> 0..MaxCards] /\ mail \in [Sockets -> 0..MaxCards]
  /\ sentinels \in [Runs -> Nat] /\ late \in [Runs -> BOOLEAN]
  /\ resumed \in [Runs -> [card : 0..MaxCards, reply : Answers]]

Stopping(r) == \E s \in Sockets : sock[s] = "joining" /\ target[s] = r

\* A browser that was handed to its run is closed with it: once the driver is
\* done, and nobody is still in the middle of stopping the run, the Chromium
\* that launch_surface returned does not run on, in whichever await the driver
\* was cancelled.  (One that launch_surface started and did not return is in
\* nobody's hands: NoBrowserLeft.)
HandedOverIsClosed ==
  \A r \in Runs :
    drive[r] \in {"ended", "crashed"} /\ ~Stopping(r) => browser[r] # "open"

\* What the comment in drive promises, "a crash mid-setup still closes it": no
\* Chromium started for a run outlives it.
NoBrowserLeft ==
  \A r \in Runs :
    drive[r] \in {"ended", "crashed"} /\ ~Stopping(r)
      => browser[r] \notin {"open", "lost"}

\* Nothing runs that nobody can reach: a driver that is at work belongs to a
\* registered run, or to one that a socket is stopping.
Reachable(r) == r \in registered \/ Stopping(r)
NoOrphan == \A r \in Runs : drive[r] \in Busy => Reachable(r)

\* Every run that is over was announced as over.
AlwaysAnnounced ==
  \A r \in Runs : drive[r] \in {"ended", "crashed"} => sentinels[r] > 0

\* A stop that is still sending its run_complete.
Announcing(r) == \E s \in Sockets : sock[s] = "stopping" /\ viewing[s] = r

\* What the driver itself emits, its own run_complete included.
Speaks(r) ==
  \/ OpenFailed(r) \/ GivesUp(r) \/ Works(r) \/ Wraps(r) \/ Completes(r)
  \/ \E k \in {"approval", "question"} : Interrupts(r, k)

\* After a run_complete the driver says nothing more: no work, not its own end,
\* not the error a cancellation could be taken for, not a second run_complete.
\* It may still speak while a stop is sending the run_complete, and where the
\* stop came before the run's task existed and so left it running.  Others may
\* add to the stream of a run that is over: SentinelIsLast.
DriverFallsSilent ==
  [][\A r \in Runs :
       Speaks(r) => sentinels[r] = 0 \/ Announcing(r) \/ ~Reachable(r)]_vars

\* What docs/WS-PROTOCOL.md says of run_complete: with it "the stream for this
\* run has ended".
SentinelIsLast == \A r \in Runs : ~late[r]

\* A reply resumes the card it was given to, and never a later one.
RepliesMatch ==
  \A r \in Runs : resumed[r].reply.meant = resumed[r].card

\* One reply, one card: what resumes a run was taken while it waited at that
\* very card.  No verdict serves a second card, and none is taken before its
\* card has a future, whatever two cockpits click while cards follow each
\* other, deadlines pass and the run is stopped.
EachCardItsReply ==
  \A r \in Runs : resumed[r].reply.given = resumed[r].card

\* A reply the server took is the one the run goes on with, unless it is stopped.
TakenReplyCounts ==
  [][\A r \in Runs :
       drive[r] = "waiting" /\ slot[r] = "done" /\ drive'[r] # "waiting"
         => drive'[r] = "running" \/ cancelled[r]]_vars

\* A stop that will reach the run's task: its run_complete is on its way and
\* the run is still there to be removed, or the handler waits for the task.
StopBegun(r) ==
  \/ Stopping(r)
  \/ Announcing(r) /\ r \in registered

\* Stopping works, from the sentinel on: once the run has a task, a stop that
\* began ends it, in whichever await the driver was and whoever else is
\* stopping it, and a browser it was handed is closed.  (Not covered: a stop
\* before there is a task, StopReachesStart; a Chromium that the launch left
\* behind, NoBrowserLeft.)
StopsForGood ==
  \A r \in Runs :
    StopBegun(r) /\ drive[r] # "unused"
      ~> drive[r] \in {"ended", "crashed"} /\ browser[r] # "open" /\ finished[r]

\* The same of any stop: what was stopped does not run later.
StopReachesStart ==
  \A r \in Runs : StopBegun(r) ~> [](drive[r] \in Idle)

=============================================================================
