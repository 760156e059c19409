------------------------------- MODULE Bridge -------------------------------
(* One owner's browser extension, the backend it pairs with, and the runs   *)
(* that drive it: pairing and reconnecting, the registry of connections,    *)
(* calls and their replies, and the extension's one session.                *)
(*                                                                          *)
(* A connection is named by its socket.  A page is not modelled: an action  *)
(* is carried out or not, in some run's session; a draft's text never       *)
(* changes, so a fingerprint is told apart only by who computes it.         *)
EXTENDS Integers, FiniteSets, Sequences

CONSTANTS
  Runs,        \* runs of this owner
  MaxSockets,  \* sockets the extension opens in its life
  MaxCodes,    \* pairing codes issued to this owner
  MaxCalls,    \* calls one run makes
  NoRun

ASSUME BridgeConstants ==
  /\ NoRun \notin Runs
  /\ MaxSockets \in Nat \ {0} /\ MaxCodes \in Nat /\ MaxCalls \in Nat

Sockets == 1..MaxSockets
NoSocket == 0
Codes == 1..MaxCodes
NoCode == 0
Calls == Runs \X (1..MaxCalls)

VARIABLES
  \* pairing: codes the backend still accepts; the extension's storage
  codes, issued, stored,
  \* the extension's client, and each socket as the extension sees it
  client, mine, near,
  \* each socket as the backend sees it, what its hello offered, and the
  \* sockets whose transport is gone or which the backend turned away
  far, offered, down, refused,
  \* BridgeRegistry and BridgeConnection._closed
  registry, closed,
  \* runs, their calls, and the frames on each socket
  run, calls, toExt, toBack,
  \* the extension's session, its unfinished handlers, its approvals
  session, working, approved,
  \* history: who acted in whose session, mails sent, codes redeemed by whom
  acted, sent, redeemed

pairing == <<codes, issued, stored>>
socket  == <<client, mine, near>>
server  == <<far, offered, refused, registry, closed>>
rpc     == <<run, calls>>
worker  == <<session, working, approved>>
history == <<acted, sent, redeemed>>
vars == <<pairing, socket, server, down, rpc, toExt, toBack, worker, history>>

NoClient == [at |-> "none", socket |-> NoSocket, code |-> NoCode,
             token |-> FALSE]

Init ==
  /\ codes = {} /\ issued = 0
  /\ stored = [code |-> NoCode, token |-> FALSE]
  /\ client = NoClient /\ mine = {}
  /\ near = [s \in Sockets |-> "unused"]
  /\ far = [s \in Sockets |-> "none"]
  /\ offered = [s \in Sockets |-> NoCode]
  /\ down = {} /\ refused = {} /\ registry = NoSocket /\ closed = {}
  /\ run = [r \in Runs |-> [at |-> "idle", conn |-> NoSocket, made |-> 0]]
  /\ calls = [c \in Calls |-> [method |-> "none", at |-> "unmade"]]
  /\ toExt = [s \in Sockets |-> <<>>] /\ toBack = [s \in Sockets |-> <<>>]
  /\ session = NoRun /\ working = {} /\ approved = {}
  /\ acted = {} /\ sent = {} /\ redeemed = {}

-----------------------------------------------------------------------------
(* The extension's client.                                                  *)

Fresh(s) == near[s] = "unused" /\ \A t \in 1..(s - 1) : near[t] # "unused"

Connected == client.socket # NoSocket /\ near[client.socket] = "open"

\* BridgeClient.connect: one more socket, with the credentials the client
\* was made with.
Dials ==
  \E s \in Sockets :
    /\ Fresh(s)
    /\ near' = [near EXCEPT ![s] = "dialing"]
    /\ client' = [client EXCEPT !.at = "connecting", !.socket = s]
    /\ mine' = mine \cup {s}
    /\ UNCHANGED <<pairing, server, down, rpc, toExt, toBack, worker, history>>

\* background connect: read the settings, drop the old client, make a new one.
Reconnects(settings) ==
  \E s \in Sockets :
    /\ Fresh(s)
    /\ near' = [t \in Sockets |-> IF t = s THEN "dialing"
                                  ELSE IF t = client.socket THEN "closed"
                                  ELSE near[t]]
    /\ down' = down \cup ({client.socket} \ {NoSocket})
    /\ client' = [at |-> "connecting", socket |-> s,
                  code |-> settings.code, token |-> settings.token]
    /\ mine' = {s}

HasCredentials(settings) == settings.code # NoCode \/ settings.token

\* A cold start of the service worker.
Wakes ==
  /\ client.at = "none" /\ HasCredentials(stored)
  /\ Reconnects(stored)
  /\ UNCHANGED <<pairing, server, rpc, toExt, toBack, worker, history>>

\* The retry timer; clearing it is what connect does first.
Retries == client.at = "offline" /\ Dials

\* The keepalive alarm exists while a session does.
AlarmRings ==
  /\ session # NoRun /\ client.at # "none" /\ ~Connected
  /\ Dials

\* "open": the hello goes out on the client's current socket.
SocketOpens(s) ==
  LET now == client.socket
      greets == s \in mine /\ now # NoSocket /\ near'[now] = "open"
  IN  /\ near[s] = "dialing" /\ s \notin down
      /\ near' = [near EXCEPT ![s] = "open"]
      /\ client' = IF s \in mine THEN [client EXCEPT !.at = "connected"]
                                 ELSE client
      /\ IF greets /\ far[now] = "none"
           THEN /\ far' = [far EXCEPT ![now] = "hello"]
                /\ offered' = [offered EXCEPT ![now] =
                                 IF client.token THEN NoCode ELSE client.code]
           ELSE UNCHANGED <<far, offered>>
      /\ UNCHANGED <<pairing, mine, refused, registry, closed, down, rpc,
                     toExt, toBack, worker, history>>

\* The network, or a sleeping machine.
SocketFails(s) ==
  /\ near[s] \in {"dialing", "open"} /\ s \notin down
  /\ down' = down \cup {s}
  /\ UNCHANGED <<pairing, socket, server, rpc, toExt, toBack, worker, history>>

\* "close": whichever of the client's sockets it was, the client forgets the
\* one it has.
SocketCloses(s) ==
  /\ near[s] \in {"dialing", "open"} /\ s \in down
  /\ near' = [near EXCEPT ![s] = "closed"]
  /\ toExt' = [toExt EXCEPT ![s] = <<>>]
  /\ client' =
       IF s \notin mine THEN client
       ELSE [client EXCEPT !.socket = NoSocket,
               !.at = IF s \in refused THEN "rejected" ELSE "offline"]
  /\ UNCHANGED <<pairing, mine, server, down, rpc, toBack, worker, history>>

\* Chrome kills the service worker: everything but its storage is gone.
Suspends ==
  /\ client.at # "none"
  /\ near' = [s \in Sockets |-> IF near[s] = "unused" THEN "unused"
                                                      ELSE "closed"]
  /\ down' = {s \in Sockets : near[s] # "unused"}
  /\ client' = NoClient /\ mine' = {}
  /\ toExt' = [s \in Sockets |-> <<>>]
  /\ session' = NoRun /\ working' = {} /\ approved' = {}
  /\ UNCHANGED <<pairing, server, rpc, toBack, history>>

-----------------------------------------------------------------------------
(* Pairing.  The cockpit shows a code, the popup takes it.                  *)

\* PairingCodes.issue: the owner's previous code is replaced.
Issues ==
  /\ issued < MaxCodes
  /\ issued' = issued + 1 /\ codes' = {issued + 1}
  /\ UNCHANGED <<stored, socket, server, down, rpc, toExt, toBack, worker,
                 history>>

CodeExpires ==
  /\ codes # {} /\ codes' = {}
  /\ UNCHANGED <<issued, stored, socket, server, down, rpc, toExt, toBack,
                 worker, history>>

\* The popup hides the field once paired.
Saves(code) ==
  /\ ~stored.token /\ code <= issued
  /\ stored' = [stored EXCEPT !.code = code]
  /\ Reconnects(stored')
  /\ UNCHANGED <<codes, issued, server, rpc, toExt, toBack, worker, history>>

Unpairs ==
  /\ stored.token
  /\ stored' = [code |-> NoCode, token |-> FALSE]
  /\ near' = [s \in Sockets |-> IF s = client.socket THEN "closed"
                                                     ELSE near[s]]
  /\ down' = down \cup ({client.socket} \ {NoSocket})
  /\ client' = NoClient /\ mine' = {}
  /\ session' = NoRun
  /\ UNCHANGED <<codes, issued, server, rpc, toExt, toBack, working, approved,
                 history>>

-----------------------------------------------------------------------------
(* The backend's end of a socket.                                           *)

Waiting(c) == calls[c].at = "waiting"
On(s) == {c \in Calls : run[c[1]].conn = s}

\* A defect of BridgeConnection.close: what is in flight is left waiting.
FailedLazily(s) == calls

\* BridgeConnection.close: fail everything in flight.
Failed(s) ==
  [c \in Calls |-> IF c \in On(s) /\ Waiting(c)
                     THEN [calls[c] EXCEPT !.at = "unavailable"] ELSE calls[c]]

\* Two defects of the registry: the previous connection is not closed; a
\* late close takes the newer connection's place.
RegistersBeside(s) == registry' = s /\ UNCHANGED <<closed, calls>>
UnregistersAny(s) == registry' = NoSocket

\* BridgeRegistry.register: a second connection replaces the first.
Registers(s) ==
  /\ registry' = s
  /\ closed' = closed \cup ({registry} \ {NoSocket})
  /\ calls' = Failed(registry)

\* BridgeRegistry.unregister: only if it is still ours.
Unregisters(s) == registry' = IF registry = s THEN NoSocket ELSE registry

\* A defect of PairingCodes.redeem: the code stays good.
RedeemsForEver(s) ==
  /\ offered[s] \in codes /\ redeemed' = redeemed \cup {<<offered[s], s>>}
  /\ UNCHANGED codes

\* PairingCodes.redeem: single use.
Redeems(s) ==
  /\ offered[s] \in codes
  /\ codes' = codes \ {offered[s]}
  /\ redeemed' = redeemed \cup {<<offered[s], s>>}

\* _resolve_owner: a token, or else a code.
Resolves(s) ==
  \/ offered[s] = NoCode /\ UNCHANGED <<codes, redeemed>>
  \/ Redeems(s)

\* Accepted: registered first, then welcomed.  The welcome is sent outside the
\* try: on a dead socket it may raise, and then nobody unregisters.
Greets(s) ==
  /\ far[s] = "hello"
  /\ Resolves(s)
  /\ Registers(s)
  /\ \/ /\ far' = [far EXCEPT ![s] = "serving"]
        /\ toExt' = IF s \in down THEN toExt
                    ELSE [toExt EXCEPT ![s] = Append(@, <<"welcome">>)]
     \/ /\ s \in down
        /\ far' = [far EXCEPT ![s] = "gone"] /\ UNCHANGED toExt
  /\ UNCHANGED <<issued, stored, socket, offered, refused, down, run, toBack,
                 worker, acted, sent>>

TurnsAway(s) ==
  /\ far[s] = "hello"
  /\ offered[s] # NoCode /\ offered[s] \notin codes
  /\ far' = [far EXCEPT ![s] = "gone"]
  /\ refused' = IF s \in down THEN refused ELSE refused \cup {s}
  /\ down' = down \cup {s}
  /\ UNCHANGED <<pairing, socket, offered, registry, closed, rpc, toExt,
                 toBack, worker, history>>

\* A defect of resolve: a finished call is answered again.
AnsweredAgain(c, outcome) ==
  calls' = IF calls[c].at # "unmade"
             THEN [calls EXCEPT ![c].at = outcome] ELSE calls

\* BridgeConnection.resolve: an unknown or finished call's reply is dropped.
Answered(c, outcome) ==
  calls' = IF Waiting(c) THEN [calls EXCEPT ![c].at = outcome] ELSE calls

\* A reply meets only the connection its call was made on.
HearsReply(s) ==
  /\ far[s] = "serving" /\ toBack[s] # <<>>
  /\ LET frame == Head(toBack[s])
     IN  /\ frame[1] = "reply"
         /\ IF frame[2] \in On(s) THEN Answered(frame[2], frame[3])
                                  ELSE UNCHANGED calls
  /\ toBack' = [toBack EXCEPT ![s] = Tail(@)]
  /\ UNCHANGED <<pairing, socket, server, down, run, toExt, worker, history>>

\* The connection is closed, its socket is not, and it stays registered.
HearsDetached(s) ==
  /\ far[s] = "serving" /\ toBack[s] # <<>>
  /\ Head(toBack[s]) = <<"detached">>
  /\ closed' = closed \cup {s} /\ calls' = Failed(s)
  /\ toBack' = [toBack EXCEPT ![s] = Tail(@)]
  /\ UNCHANGED <<pairing, socket, far, offered, refused, registry, down, run,
                 toExt, worker, history>>

\* The socket's end: what it still carried may be lost.
HearsClose(s) ==
  /\ far[s] = "serving" /\ s \in down
  /\ far' = [far EXCEPT ![s] = "gone"]
  /\ closed' = closed \cup {s} /\ calls' = Failed(s)
  /\ Unregisters(s)
  /\ toBack' = [toBack EXCEPT ![s] = <<>>]
  /\ UNCHANGED <<pairing, socket, offered, refused, down, run, toExt, worker,
                 history>>

-----------------------------------------------------------------------------
(* A run: ExtensionEmailSurface over the connection it found at its start.  *)

Current(r) == <<r, run[r].made>>

\* What a call made on s is at once: refused on a closed connection, in
\* flight on a live one.  On a dead socket the send may raise or say nothing.
Prospects(s) ==
  IF s \in closed THEN {"unavailable"}
  ELSE IF s \in down THEN {"unavailable", "waiting"}
  ELSE {"waiting"}

\* BridgeConnection.call, for the given methods in order.
Makes(r, s, methods, at) ==
  LET before == run[r].made
      made == before + Len(methods)
      frames == [i \in 1..Len(methods) |-> <<"call", <<r, before + i>>>>]
  IN  /\ made <= MaxCalls
      /\ \E prospect \in Prospects(s) :
           calls' = [c \in Calls |->
                       IF c[1] = r /\ c[2] > before /\ c[2] <= made
                         THEN [method |-> methods[c[2] - before],
                               at |-> prospect]
                         ELSE calls[c]]
      /\ run' = [run EXCEPT ![r] = [at |-> at, conn |-> s, made |-> made]]
      /\ toExt' = IF s \in closed \cup down THEN toExt
                  ELSE [toExt EXCEPT ![s] = @ \o frames]
      /\ UNCHANGED <<pairing, socket, far, offered, refused, closed, down,
                     toBack, worker, history>>

\* new_surface: BridgeRegistry.require, then start.
Starts(r) ==
  /\ run[r].at = "idle"
  /\ registry # NoSocket /\ registry \notin closed
  /\ Makes(r, registry, <<"start">>, "starting")
  /\ UNCHANGED registry

FindsNoBrowser(r) ==
  /\ run[r].at = "idle"
  /\ registry = NoSocket \/ registry \in closed
  /\ registry' = NoSocket
  /\ run' = [run EXCEPT ![r].at = "done"]
  /\ UNCHANGED <<pairing, socket, far, offered, refused, closed, down, calls,
                 toExt, toBack, worker, history>>

\* dispatch asks for a clean page before anything else.
Resets(r) ==
  /\ run[r].at = "ready" /\ run[r].made = 1 /\ MaxCalls > 2
  /\ Makes(r, run[r].conn, <<"reset">>, "calling")
  /\ UNCHANGED registry

AtWork(r) == run[r].at = "ready" /\ run[r].made > 1

Works(r, method) ==
  /\ AtWork(r) /\ run[r].made + 2 <= MaxCalls
  /\ Makes(r, run[r].conn, <<method>>, "calling")
  /\ UNCHANGED registry

\* The human approved: the fingerprint is sent and not waited for, and the
\* action follows it on the same socket.
SendsApproved(r) ==
  /\ AtWork(r) /\ run[r].made + 3 <= MaxCalls
  /\ Makes(r, run[r].conn, <<"approve", "send">>, "calling")
  /\ UNCHANGED registry

Goes(r, at) ==
  /\ run' = [run EXCEPT ![r].at = at]
  /\ UNCHANGED <<pairing, socket, server, down, calls, toExt, toBack, worker,
                 history>>

\* The surface is only ever closed by a run that got it.
StartReturns(r) ==
  /\ run[r].at = "starting" /\ ~Waiting(Current(r))
  /\ Goes(r, IF calls[Current(r)].at = "ok" THEN "ready" ELSE "done")

\* act turns the extension's refusal into a result; from observe it escapes.
\* A reset that fails is no reason to stop.
CallReturns(r) ==
  /\ run[r].at = "calling" /\ ~Waiting(Current(r))
  /\ LET call == calls[Current(r)]
     IN  Goes(r, IF \/ call.at = "unavailable" /\ call.method # "reset"
                    \/ call.at = "refused" /\ call.method = "observe"
                   THEN "closing" ELSE "ready")

Finishes(r) == run[r].at = "ready" /\ Goes(r, "closing")

\* The run is cancelled in the middle of a call, which is forgotten.
Cancelled(r) ==
  /\ run[r].at \in {"starting", "calling"}
  /\ run' = [run EXCEPT ![r].at = IF @ = "starting" THEN "done"
                                                    ELSE "closing"]
  /\ calls' = IF Waiting(Current(r))
                THEN [calls EXCEPT ![Current(r)].at = "forgotten"] ELSE calls
  /\ UNCHANGED <<pairing, socket, server, down, toExt, toBack, worker, history>>

\* close: approvals in flight first, then stop.
Closes(r) ==
  /\ run[r].at = "closing"
  /\ \A i \in 1..MaxCalls : ~Waiting(<<r, i>>)
  /\ Makes(r, run[r].conn, <<"stop">>, "stopping")
  /\ UNCHANGED registry

StopReturns(r) ==
  /\ run[r].at = "stopping" /\ ~Waiting(Current(r))
  /\ Goes(r, "done")

TimesOut(c) ==
  /\ Waiting(c)
  /\ calls' = [calls EXCEPT ![c].at = "unavailable"]
  /\ UNCHANGED <<pairing, socket, server, down, run, toExt, toBack, worker,
                 history>>

-----------------------------------------------------------------------------
(* The extension answers.  Each frame is handled on its own, across awaits; *)
(* the reply goes out on the client's current socket, or nowhere.           *)

Says(frame) ==
  toBack' = IF Connected THEN [toBack EXCEPT ![client.socket] =
                                 Append(@, frame)]
                         ELSE toBack

Replies(c, outcome) == Says(<<"reply", c, outcome>>)

Receives(s) ==
  /\ near[s] = "open" /\ toExt[s] # <<>>
  /\ toExt' = [toExt EXCEPT ![s] = Tail(@)]

HandlesWelcome(s) ==
  /\ Receives(s) /\ Head(toExt[s]) = <<"welcome">>
  /\ stored' = [code |-> NoCode, token |-> TRUE]
  /\ UNCHANGED <<codes, issued, socket, server, down, rpc, toBack, worker,
                 history>>

Called(s, methods, c) ==
  /\ Receives(s) /\ Head(toExt[s]) = <<"call", c>>
  /\ calls[c].method \in methods

\* The extension knows no reset: the frame is dropped, and nobody answers.
DropsReset(s, c) ==
  /\ Called(s, {"reset"}, c)
  /\ UNCHANGED <<pairing, socket, server, down, rpc, toBack, worker, history>>

\* start and stop both end the session there is before their first await.
HandlesLifecycle(s, c) ==
  /\ Called(s, {"start", "stop"}, c)
  /\ session' = NoRun
  /\ working' = working \cup {[call |-> c, session |-> NoRun]}
  /\ UNCHANGED <<pairing, socket, server, down, rpc, toBack, approved, history>>

\* requireSession: whoever started it.
HandlesWork(s, c) ==
  /\ Called(s, {"observe", "act", "send"}, c)
  /\ IF session = NoRun
       THEN Replies(c, "unavailable") /\ UNCHANGED working
       ELSE /\ working' = working \cup {[call |-> c, session |-> session]}
            /\ UNCHANGED toBack
  /\ UNCHANGED <<pairing, socket, server, down, rpc, session, approved,
                 history>>

\* The fingerprint is the one the backend computed.
Approves(c) ==
  IF session = NoRun
    THEN Replies(c, "unavailable") /\ UNCHANGED approved
    ELSE /\ approved' = approved \cup {<<session, "sha256">>}
         /\ Replies(c, "ok")

HandlesApprove(s, c) ==
  /\ Called(s, {"approve"}, c)
  /\ Approves(c)
  /\ UNCHANGED <<pairing, socket, server, down, rpc, session, working, history>>

Done(w) == w \in working /\ working' = working \ {w}
Method(w) == calls[w.call].method

FinishesStart(w) ==
  /\ Done(w) /\ Method(w) = "start"
  /\ \/ session' = w.call[1] /\ Replies(w.call, "ok")
     \/ UNCHANGED session /\ Replies(w.call, "unavailable")
  /\ UNCHANGED <<pairing, socket, server, down, rpc, toExt, approved, history>>

FinishesStop(w) ==
  /\ Done(w) /\ Method(w) = "stop"
  /\ Replies(w.call, "ok")
  /\ UNCHANGED <<pairing, socket, server, down, rpc, toExt, session, approved,
                 history>>

\* The handler keeps the session it found, whether or not it still is the
\* current one; a detached debugger re-attaches.
FinishesWork(w) ==
  /\ Done(w) /\ Method(w) \in {"observe", "act"}
  /\ acted' = IF Method(w) = "act"
                THEN acted \cup {<<w.call[1], w.session>>} ELSE acted
  /\ \E outcome \in {"ok", "refused", "unavailable"} : Replies(w.call, outcome)
  /\ UNCHANGED <<pairing, socket, server, down, rpc, toExt, session, approved,
                 sent, redeemed>>

\* checkApproval: against the fingerprint computed here.
FinishesSend(w) ==
  /\ Done(w) /\ Method(w) = "send"
  /\ sent' = IF <<w.session, "fnv">> \in approved THEN sent \cup {w.call}
                                                  ELSE sent
  /\ Replies(w.call, "ok")
  /\ UNCHANGED <<pairing, socket, server, down, rpc, toExt, session, approved,
                 acted, redeemed>>

\* The Gmail tab is closed.
TabCloses ==
  /\ session # NoRun
  /\ Says(<<"detached">>)
  /\ session' = NoRun
  /\ UNCHANGED <<pairing, socket, server, down, rpc, toExt, working, approved,
                 history>>

-----------------------------------------------------------------------------
Extension ==
  \/ Wakes \/ Retries \/ AlarmRings
  \/ \E s \in Sockets :
       \/ SocketOpens(s) \/ SocketCloses(s) \/ HandlesWelcome(s)
       \/ \E c \in Calls :
            DropsReset(s, c) \/ HandlesLifecycle(s, c) \/ HandlesWork(s, c)
              \/ HandlesApprove(s, c)
  \/ \E w \in working :
       FinishesStart(w) \/ FinishesStop(w) \/ FinishesWork(w) \/ FinishesSend(w)

Backend ==
  \E s \in Sockets :
    Greets(s) \/ TurnsAway(s) \/ HearsReply(s) \/ HearsDetached(s)
      \/ HearsClose(s)

RunSteps(r) ==
  \/ Starts(r) \/ FindsNoBrowser(r) \/ StartReturns(r) \/ Resets(r)
  \/ Works(r, "observe") \/ Works(r, "act") \/ SendsApproved(r)
  \/ CallReturns(r) \/ Finishes(r) \/ Cancelled(r) \/ Closes(r)
  \/ StopReturns(r)

Outside ==
  \/ Issues \/ CodeExpires \/ Unpairs \/ Suspends \/ TabCloses
  \/ \E code \in Codes : Saves(code)
  \/ \E s \in Sockets : SocketFails(s)
  \/ \E c \in Calls : TimesOut(c)

Next == Extension \/ Backend \/ Outside \/ \E r \in Runs : RunSteps(r)

Spec == Init /\ [][Next]_vars

-----------------------------------------------------------------------------
(* What holds.                                                              *)

CallMethods == {"start", "reset", "observe", "act", "approve", "send", "stop"}
Outcomes == {"ok", "refused", "unavailable", "forgotten"}
BackendFrames == {<<"welcome">>} \cup ({"call"} \X Calls)
ExtensionFrames ==
  {<<"detached">>} \cup ({"reply"} \X Calls \X {"ok", "refused", "unavailable"})

\* The state stays in its types (all of Bridge).
TypeOK ==
  /\ codes \subseteq Codes /\ Cardinality(codes) <= 1 /\ issued \in 0..MaxCodes
  /\ stored \in [code : {NoCode} \cup Codes, token : BOOLEAN]
  /\ client \in [at : {"none", "connecting", "connected", "offline",
                        "rejected"},
                 socket : {NoSocket} \cup Sockets,
                 code : {NoCode} \cup Codes, token : BOOLEAN]
  /\ mine \subseteq Sockets
  /\ near \in [Sockets -> {"unused", "dialing", "open", "closed"}]
  /\ far \in [Sockets -> {"none", "hello", "serving", "gone"}]
  /\ offered \in [Sockets -> {NoCode} \cup Codes]
  /\ refused \subseteq down /\ down \subseteq Sockets
  /\ registry \in {NoSocket} \cup Sockets /\ closed \subseteq Sockets
  /\ run \in [Runs -> [at : {"idle", "starting", "ready", "calling", "closing",
                             "stopping", "done"},
                       conn : {NoSocket} \cup Sockets, made : 0..MaxCalls]]
  /\ calls \in [Calls -> [method : {"none"} \cup CallMethods,
                          at : {"unmade", "waiting"} \cup Outcomes]]
  /\ \A s \in Sockets : toExt[s] \in Seq(BackendFrames)
  /\ \A s \in Sockets : toBack[s] \in Seq(ExtensionFrames)
  /\ session \in Runs \cup {NoRun}
  /\ working \subseteq [call : Calls, session : Runs \cup {NoRun}]
  /\ approved \subseteq Runs \X {"sha256"}
  /\ acted \subseteq Runs \X Runs /\ sent \subseteq Calls
  /\ redeemed \subseteq Codes \X Sockets

\* Of all the sockets the backend serves, the open one is the one the owner's
\* next run will find: an older one is closed by the newer, and its late end
\* does not evict the newer (BridgeRegistry.register, unregister).
OneBrowser ==
  \A s \in Sockets : far[s] = "serving" /\ s \notin closed => s = registry

\* No run waits for an answer on a connection known to be closed
\* (BridgeConnection: "Every pending call is failed explicitly").
NobodyWaitsOnClosed ==
  \A c \in Calls : Waiting(c) => run[c[1]].conn \notin closed

\* The first outcome of a call is its only one: replies that come after a
\* timeout, a close or a cancellation change nothing
\* (BridgeConnection.resolve).
OutcomeStands ==
  [][\A c \in Calls : calls[c].at \in Outcomes => calls'[c] = calls[c]]_vars

\* A pairing code lets one connection in, however often the extension
\* presents it (PairingCodes.redeem).
CodeWorksOnce == \A p, q \in redeemed : p[1] = q[1] => p = q

-----------------------------------------------------------------------------
(* What the code's comments say, and it does not do.                        *)

\* A paired browser is not turned away.  The client presents the credentials
\* it was made with, so after pairing its first reconnect offers the code it
\* has already used (background.ts handle, client.ts connect).
PairedStaysPaired == client.at = "rejected" => ~stored.token

Reachable == registry # NoSocket /\ registry \notin closed \cup down

\* While the owner's browser is connected, no run's call fails for want of a
\* connection.  The surface keeps the one it found at its start
\* (BridgeRegistry, ExtensionEmailSurface).
RunFindsItsBrowser ==
  [][\A r \in Runs :
       run[r].at = "ready" /\ run'[r].at = "calling" /\ Reachable
         => calls'[<<r, run'[r].made>>].at # "unavailable"]_vars

\* A call that reaches a connected extension is answered or being worked on.
\* The reset before every run's first step is neither (BridgeConnection:
\* "every call has an id and exactly one reply").
EveryCallIsHeard ==
  [][\A s \in Sockets, c \in Calls :
       Called(s, CallMethods, c) /\ Connected /\ near'[s] = "open" =>
         toBack' # toBack \/ \E w \in working' : w.call = c]_vars

\* A run acts in the session it started (AppContainer.new_surface: "Per run,
\* never per process").  The extension has one session, whoever asks.
ActsInItsOwnSession == \A p \in acted : p[1] = p[2]

\* An approval that arrived before its send lets the send through.  The
\* fingerprints are computed differently on the two sides
\* (ExtensionEmailSurface, approvalFingerprint).
ApprovedGoesOut ==
  [][\A w \in working \ working' :
       /\ calls[w.call].method = "send"
       /\ <<w.session, "sha256">> \in approved
       => w.call \in sent']_vars

=============================================================================
