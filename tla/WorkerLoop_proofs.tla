--------------------------- MODULE WorkerLoop_proofs ---------------------------
(***************************************************************************)
(* Theorems about WorkerLoop, for every value of its constants.            *)
(*                                                                         *)
(* The invariant behind all of them is Turn: TypeOK together with          *)
(* ActsOnItsChoice.  Neither is inductive alone: the window of recent      *)
(* actions stays a sequence of verbs only because no node past reason ever *)
(* runs without a choice, and that is read off the router.                 *)
(***************************************************************************)
EXTENDS WorkerLoop, TLAPS

USE GuardConstants, LoopConstants
    DEF control, guards, turn, page, recovery, surface, history

-----------------------------------------------------------------------------
(* The guards.                                                             *)

\* The window never grows past its bound (push_action's trim).
LEMMA PushBounded ==
  ASSUME NEW S, NEW recents \in Seq(S), NEW sig \in S,
         Len(recents) <= RecentWindow
  PROVE  /\ PushAction(recents, sig) \in Seq(S)
         /\ Len(PushAction(recents, sig)) <= RecentWindow
<1>1. CASE Len(recents) < RecentWindow
  BY <1>1 DEF PushAction
<1>2. CASE ~(Len(recents) < RecentWindow)
  <2>1. recents # <<>>
    BY <1>2
  <2>2. Tail(recents) \in Seq(S) /\ Len(Tail(recents)) = Len(recents) - 1
    BY <2>1
  <2>3. QED
    BY <1>2, <2>2 DEF PushAction
<1>3. QED
  BY <1>1, <1>2

\* Every diagnosis is one of the known causes.
LEMMA DiagnosesAreCauses == PossibleCauses \subseteq Causes
<1>1. ASSUME errorCode \in DOMAIN CodeCause
      PROVE  CodeCause[errorCode] \in Causes
  BY <1>1 DEF CodeCause, Causes
<1>2. ASSUME lastResult \in DOMAIN ResultCause
      PROVE  ResultCause[lastResult] \in Causes
  BY <1>2 DEF ResultCause, Causes
<1>3. ASSUME errorCode \in DOMAIN LateCause
      PROVE  LateCause[errorCode] \in Causes
  BY <1>3 DEF LateCause, Causes
<1>4. {"off_screen", "overlay_blocking", "target_moved", "unknown"}
        \subseteq Causes
  BY DEF Causes
<1>5. QED
  BY <1>1, <1>2, <1>3, <1>4 DEF PossibleCauses

-----------------------------------------------------------------------------
(* Types, and that a turn acts on its own choice.                          *)

Turn == TypeOK /\ ActsOnItsChoice

\* A run starts well typed, with no call chosen (state.py, initial_state).
LEMMA TurnInit == Init => Turn
<1> SUFFICES ASSUME Init PROVE Turn
  OBVIOUS
<1>1. /\ finished \in BOOLEAN /\ seen \in BOOLEAN /\ mail \in BOOLEAN
      /\ confirmed \in BOOLEAN /\ rested \in BOOLEAN
  BY DEF Init
<1>2. remedied \in [Causes -> Nat]
  BY DEF Init
<1>3. TypeOK
  BY <1>1, <1>2 DEF Init, TypeOK, Nodes, Views, Contents, Readings
<1>4. ActsOnItsChoice
  BY DEF Init, ActsOnItsChoice
<1>5. QED
  BY <1>3, <1>4 DEF Turn

\* Every node and every human answer preserves Turn: whatever clears, sets or
\* carries on a choice does so in step with the routing.
LEMMA TurnStep == Turn /\ [Next]_vars => Turn'
<1> SUFFICES ASSUME Turn, [Next]_vars PROVE Turn'
  OBVIOUS
<1> USE DEF Turn, TypeOK, ActsOnItsChoice, Nodes, Waiting, Ended, Terminal
<1>1. ASSUME Observe \/ ObserveSurfaceGone \/ ObserveSignedOut
             \/ ObserveStillSignedOut
      PROVE  Turn'
  <2>1. CASE Observe
    BY <2>1 DEF Observe, See, RouteAfterObserve
  <2>2. CASE ObserveSurfaceGone
    BY <2>2 DEF ObserveSurfaceGone, Fail, RouteAfterObserve, Codes
  <2>3. CASE ObserveSignedOut
    BY <2>3 DEF ObserveSignedOut
  <2>4. CASE ObserveStillSignedOut
    BY <2>4 DEF ObserveStillSignedOut, Fail, RouteAfterObserve, Codes
  <2>5. QED
    BY <1>1, <2>1, <2>2, <2>3, <2>4
<1>2. ASSUME Reason PROVE Turn'
  <2>0. rested' \in BOOLEAN
    <3>1. rested' = FALSE \/ rested' = rested
      BY <1>2 DEF Reason, ReasonStops, ReasonRaises, ReasonUnexplained,
         ReasonNudged, ReasonNoAction, ReasonChooses, Think
    <3>2. QED
      BY <3>1
  <2>1. CASE ReasonStops
    BY <2>1 DEF ReasonStops, Fail, RouteAfterReason, Codes
  <2>2. CASE ReasonRaises
    BY <2>0, <2>2 DEF ReasonRaises, Think
  <2>3. CASE ReasonUnexplained
    BY <2>0, <2>3 DEF ReasonUnexplained, Think, Fail, RouteAfterReason, Codes
  <2>4. CASE ReasonNudged
    BY <2>0, <2>4 DEF ReasonNudged, Think, HardStop, OutOfSteps, RouteAfterReason
  <2>5. CASE ReasonNoAction
    BY <2>0, <2>5 DEF ReasonNoAction, Think, Fail, RouteAfterReason, Codes
  <2>6. ASSUME NEW verb \in Picks, ReasonChooses(verb) PROVE Turn'
    <3>1. verb \in Verbs /\ verb # NoAction
      BY DEF Verbs, Surface, Internal, NoAction
    <3>2. QED
      BY <2>0, <2>6, <3>1 DEF ReasonChooses, Think, HardStop, OutOfSteps,
                        RouteAfterReason
  <2>7. QED
    BY <1>2, <2>1, <2>2, <2>3, <2>4, <2>5, <2>6 DEF Reason
<1>3. ASSUME GatePresent \/ GateApproved \/ GateDeclined \/ GateRaises
             \/ GateExpired
      PROVE  Turn'
  <2>1. Reads \subseteq Readings
    BY DEF Reads, Readings, Contents
  <2>2. CASE GatePresent
    BY <2>1, <2>2 DEF GatePresent
  <2>3. CASE GateApproved
    <3>1. approved' \subseteq Verbs \X Readings
      BY <2>1, <2>3 DEF GateApproved, Fingerprint
    <3>2. QED
      BY <2>3, <3>1 DEF GateApproved, RouteAfterApproval, Readings, Contents
  <2>4. CASE GateDeclined
    BY <2>4 DEF GateDeclined, RouteAfterApproval, Readings, Contents
  <2>5. CASE GateRaises
    BY <2>5 DEF GateRaises
  <2>6. CASE GateExpired
    BY <2>6 DEF GateExpired, Fail, RouteAfterApproval, Codes, Readings,
                Contents
  <2>7. QED
    BY <1>3, <2>2, <2>3, <2>4, <2>5, <2>6
<1>4. ASSUME Act \/ ActAnswered PROVE Turn'
  <2>1. lastAction \in Verbs /\ lastAction # NoAction
    BY <1>4 DEF Act, ActAnswered, ActUnbound, ActComplete, ActRemember,
       ActAsk, ActRefused, ActAdmitted, ActConfirmed, ActSurfaceGone,
       ActPerformed, Dispatched
  <2>2. ASSUME Recorded
        PROVE  recent' \in Seq(Verbs) /\ Len(recent') <= RecentWindow
    BY <2>1, <2>2, PushBounded DEF Recorded
  <2>3. ASSUME NEW effect \in BOOLEAN, Takes(effect)
        PROVE  draft' \in Contents /\ sent' \in Seq(Drafts)
    <3>1. draft # NoDraft => Append(sent, draft) \in Seq(Drafts)
      BY DEF Contents
    <3>2. QED
      BY <2>3, <3>1 DEF Takes, Contents
  <2>4. CASE ActUnbound
    BY <2>2, <2>4 DEF ActUnbound, RouteAfterAct
  <2>5. CASE ActComplete
    BY <2>2, <2>5 DEF ActComplete, RouteAfterAct
  <2>6. CASE ActRemember
    BY <2>2, <2>6 DEF ActRemember, RouteAfterAct
  <2>7. CASE ActAsk
    BY <2>7 DEF ActAsk
  <2>8. CASE ActAnswered
    BY <2>2, <2>8 DEF ActAnswered, RouteAfterAct
  <2>9. CASE ActRefused
    BY <2>2, <2>9 DEF ActRefused, RouteAfterAct
  <2>10. CASE ActAdmitted
    BY <2>10 DEF ActAdmitted
  <2>11. CASE ActConfirmed
    BY <2>2, <2>3, <2>11 DEF ActConfirmed, Dispatched, RouteAfterAct
  <2>12. ASSUME NEW effect \in BOOLEAN, ActSurfaceGone(effect) PROVE Turn'
    BY <2>2, <2>3, <2>12 DEF ActSurfaceGone, Fail, Codes, RouteAfterAct
  <2>13. ASSUME NEW effect \in BOOLEAN,
                NEW result \in {"ok", "failed", "timeout"},
                ActPerformed(effect, result)
         PROVE  Turn'
    BY <2>2, <2>3, <2>13 DEF ActPerformed, Dispatched, RouteAfterAct
  <2>14. QED
    BY <1>4, <2>4, <2>5, <2>6, <2>7, <2>8, <2>9, <2>10, <2>11, <2>12, <2>13
       DEF Act
<1>5. ASSUME Verify PROVE Turn'
  <2>1. CASE VerifyFailed
    BY <2>1 DEF VerifyFailed, RouteAfterVerify
  <2>2. CASE VerifyUnconfirmed
    BY <2>2 DEF VerifyUnconfirmed, RouteAfterVerify, Codes
  <2>3. CASE VerifyPassed
    BY <2>3 DEF VerifyPassed, RouteAfterVerify
  <2>4. QED
    BY <1>5, <2>1, <2>2, <2>3 DEF Verify
<1>6. ASSUME Diagnose PROVE Turn'
  <2>1. finished' \in BOOLEAN
    BY <1>6 DEF Diagnose, Fail
  <2>2. errorCode' \in Codes \cup {NoCode}
    BY <1>6 DEF Diagnose, Fail, Codes
  <2>3. cause' \in Causes \cup {"none"}
    BY <1>6, DiagnosesAreCauses DEF Diagnose
  <2>4. QED
    BY <1>6, <2>1, <2>2, <2>3 DEF Diagnose, Fail, RouteAfterDiagnose
<1>7. ASSUME Options \/ OptionsRanked \/ OptionsFreeform \/ OptionsGiveUp
             \/ Finalize
      PROVE  Turn'
  <2>1. CASE Options
    BY <2>1 DEF Options
  <2>2. ASSUME Resumes, tried' \subseteq Strategies PROVE Turn'
    <3>1. remedied' \in [Causes -> Nat]
      <4>1. remedied' = [c \in Causes |-> IF c = cause THEN remedied[c] + 1
                                                      ELSE remedied[c]]
        BY <2>2 DEF Resumes
      <4>2. \A c \in Causes : remedied[c] \in Nat /\ remedied[c] + 1 \in Nat
        OBVIOUS
      <4>3. QED
        BY <4>1, <4>2
    <3>2. patience' \in 0..Patience
      BY <2>2 DEF Resumes
    <3>3. rested' \in BOOLEAN /\ finished' \in BOOLEAN
      BY <2>2 DEF Resumes
    <3>4. TypeOK'
      BY <2>2, <3>1, <3>2, <3>3 DEF Resumes, RouteAfterOptions
    <3>5. ActsOnItsChoice'
      BY <2>2 DEF Resumes, RouteAfterOptions
    <3>6. QED
      BY <3>4, <3>5
  <2>3. CASE OptionsRanked
    BY <2>2, <2>3 DEF OptionsRanked
  <2>4. CASE OptionsFreeform
    BY <2>2, <2>4 DEF OptionsFreeform
  <2>5. CASE OptionsGiveUp
    BY <2>5 DEF OptionsGiveUp, RouteAfterOptions
  <2>6. CASE Finalize
    BY <2>6 DEF Finalize
  <2>7. QED
    BY <1>7, <2>1, <2>3, <2>4, <2>5, <2>6
<1>8. CASE HumanTypes
  BY <1>8 DEF HumanTypes, Contents, Readings
<1>9. CASE UNCHANGED vars
  BY <1>9 DEF vars
<1>10. QED
  BY <1>1, <1>2, <1>3, <1>4, <1>5, <1>6, <1>7, <1>8, <1>9
     DEF Next, Machine, Human

\* The two together are inductive: a run is always well typed, and the call
\* the gate and act work on is the one chosen in this very turn.
THEOREM TurnInvariant == Spec => []Turn
BY TurnInit, TurnStep, PTL DEF Spec

\* TypeOK: every variable keeps its type, the recent window and the step
\* counter their bounds (guards.py, RECENT_WINDOW and settings.max_steps).
THEOREM TypeCorrect == Spec => []TypeOK
<1>1. Turn => TypeOK
  BY DEF Turn
<1>2. QED
  BY <1>1, TurnInvariant, PTL

\* ActsOnItsChoice: approval, act and the surface only ever work on the call
\* the model chose in this turn (routing.py, route_after_reason).
THEOREM ChoiceIsCurrent == Spec => []ActsOnItsChoice
<1>1. Turn => ActsOnItsChoice
  BY DEF Turn
<1>2. QED
  BY <1>1, TurnInvariant, PTL

-----------------------------------------------------------------------------
(* Consent.  An irreversible choice reaches act through the gate only, and *)
(* the gate leaves it in place only when it was approved.                  *)

Consent ==
  pc \in {"act", "dispatching"} /\ lastAction \in Irreversible
    => verdictAt = step

\* Every step preserves Consent: an irreversible call reaches act only from
\* the gate, in the turn of the verdict.
LEMMA ConsentStep == Turn /\ Consent /\ [Next]_vars => Consent'
<1> SUFFICES ASSUME Turn, Consent, [Next]_vars PROVE Consent'
  OBVIOUS
<1> USE DEF Turn, TypeOK, ActsOnItsChoice, Consent, Irreversible, Terminal
<1>1. CASE Observe
  BY <1>1 DEF Observe, See, RouteAfterObserve
<1>2. CASE ObserveSurfaceGone
  BY <1>2 DEF ObserveSurfaceGone, Fail, RouteAfterObserve
<1>3. CASE ObserveSignedOut
  BY <1>3 DEF ObserveSignedOut
<1>4. CASE ObserveStillSignedOut
  BY <1>4 DEF ObserveStillSignedOut, Fail, RouteAfterObserve
<1>5. CASE ReasonStops
  BY <1>5 DEF ReasonStops, Fail, RouteAfterReason
<1>6. CASE ReasonRaises
  BY <1>6 DEF ReasonRaises, Think
<1>7. CASE ReasonUnexplained
  BY <1>7 DEF ReasonUnexplained, Think, Fail, RouteAfterReason
<1>8. CASE ReasonNudged
  BY <1>8 DEF ReasonNudged, Think, RouteAfterReason
<1>9. CASE ReasonNoAction
  BY <1>9 DEF ReasonNoAction, Think, Fail, RouteAfterReason
<1>10. CASE GatePresent
  BY <1>10 DEF GatePresent
<1>11. CASE GateApproved
  BY <1>11 DEF GateApproved, RouteAfterApproval
<1>12. CASE GateDeclined
  BY <1>12 DEF GateDeclined, RouteAfterApproval
<1>13. CASE GateRaises
  BY <1>13 DEF GateRaises
<1>14. CASE GateExpired
  BY <1>14 DEF GateExpired, Fail, RouteAfterApproval
<1>15. CASE ActUnbound
  BY <1>15 DEF ActUnbound, RouteAfterAct
<1>16. CASE ActComplete
  BY <1>16 DEF ActComplete, RouteAfterAct
<1>17. CASE ActRemember
  BY <1>17 DEF ActRemember, RouteAfterAct
<1>18. CASE ActAsk
  BY <1>18 DEF ActAsk
<1>19. CASE ActAnswered
  BY <1>19 DEF ActAnswered, RouteAfterAct
<1>20. CASE ActRefused
  BY <1>20 DEF ActRefused, RouteAfterAct
<1>21. CASE ActAdmitted
  BY <1>21 DEF ActAdmitted
<1>22. CASE ActConfirmed
  BY <1>22 DEF ActConfirmed, Dispatched, RouteAfterAct
<1>23. CASE VerifyFailed
  BY <1>23 DEF VerifyFailed, RouteAfterVerify
<1>24. CASE VerifyUnconfirmed
  BY <1>24 DEF VerifyUnconfirmed, RouteAfterVerify
<1>25. CASE VerifyPassed
  BY <1>25 DEF VerifyPassed, RouteAfterVerify
<1>26. CASE Diagnose
  BY <1>26 DEF Diagnose, Fail, RouteAfterDiagnose
<1>27. CASE Options
  BY <1>27 DEF Options
<1>28. CASE OptionsRanked
  BY <1>28 DEF OptionsRanked, Resumes, RouteAfterOptions
<1>29. CASE OptionsFreeform
  BY <1>29 DEF OptionsFreeform, Resumes, RouteAfterOptions
<1>30. CASE OptionsGiveUp
  BY <1>30 DEF OptionsGiveUp, RouteAfterOptions
<1>31. CASE Finalize
  BY <1>31 DEF Finalize
<1>32. CASE HumanTypes
  BY <1>32 DEF HumanTypes
<1>33. ASSUME NEW verb \in Picks, ReasonChooses(verb) PROVE Consent'
  BY <1>33 DEF ReasonChooses, Think, RouteAfterReason
<1>34. ASSUME NEW effect \in BOOLEAN, ActSurfaceGone(effect) PROVE Consent'
  BY <1>34 DEF ActSurfaceGone, Fail, RouteAfterAct
<1>35. ASSUME NEW effect \in BOOLEAN, NEW result \in {"ok", "failed", "timeout"},
             ActPerformed(effect, result) PROVE Consent'
  BY <1>35 DEF ActPerformed, Dispatched, RouteAfterAct
<1>36. CASE UNCHANGED vars
  BY <1>36 DEF vars
<1>37. QED
  BY <1>1, <1>2, <1>3, <1>4, <1>5, <1>6, <1>7, <1>8, <1>9, <1>10, <1>11,
       <1>12, <1>13, <1>14, <1>15, <1>16, <1>17, <1>18, <1>19, <1>20, <1>21,
       <1>22, <1>23, <1>24, <1>25, <1>26, <1>27, <1>28, <1>29, <1>30, <1>31,
       <1>32, <1>33, <1>34, <1>35, <1>36
     DEF Next, Machine, Human, Reason, Act, Verify

-----------------------------------------------------------------------------
(* The phases of a run, and what is already settled in each.               *)

Looping == {"observe", "ask_signin", "reason", "approval", "ask_verdict",
            "act", "ask_user", "dispatching"}

Failed == status = "failed" /\ success = "no"

Succeeded ==
  /\ status = "done" /\ success = "yes" /\ errorCode = NoCode
  /\ confirmed \/ lastAction = "CompleteOk"

Open ==
  /\ status = "running" /\ finished = FALSE /\ success = "unset"
  /\ errorCode = NoCode /\ confirmed = FALSE

Phases ==
  /\ pc \in Looping => Open
  /\ pc = "verify" => Failed \/ Succeeded
  /\ pc = "verify" /\ confirmed => Succeeded /\ DirectEvidence
  /\ pc \in {"diagnose", "options", "ask_option"} => Failed /\ ~confirmed
  /\ pc \in {"finalize", "end"} => Failed \/ Succeeded
  /\ pc \in {"finalize", "end"} /\ confirmed => Succeeded
  /\ pc = "raised" => ~confirmed

\* Every step keeps the status, the outcome and the node in line: the edges
\* of routing.py never leave a finished run in the loop.
LEMMA PhasesStep == Turn /\ Phases /\ [Next]_vars => Phases'
<1> SUFFICES ASSUME Turn, Phases, [Next]_vars PROVE Phases'
  OBVIOUS
<1> USE DEF Turn, TypeOK, Phases, Looping, Open, Failed, Succeeded, Terminal,
           NoCode, Irreversible, DirectEvidence
<1>1. CASE Observe
  BY <1>1 DEF Observe, See, RouteAfterObserve
<1>2. CASE ObserveSurfaceGone
  BY <1>2 DEF ObserveSurfaceGone, Fail, RouteAfterObserve
<1>3. CASE ObserveSignedOut
  BY <1>3 DEF ObserveSignedOut
<1>4. CASE ObserveStillSignedOut
  BY <1>4 DEF ObserveStillSignedOut, Fail, RouteAfterObserve
<1>5. CASE ReasonStops
  BY <1>5 DEF ReasonStops, Fail, RouteAfterReason
<1>6. CASE ReasonRaises
  BY <1>6 DEF ReasonRaises, Think
<1>7. CASE ReasonUnexplained
  BY <1>7 DEF ReasonUnexplained, Think, Fail, RouteAfterReason
<1>8. CASE ReasonNudged
  BY <1>8 DEF ReasonNudged, Think, RouteAfterReason
<1>9. CASE ReasonNoAction
  BY <1>9 DEF ReasonNoAction, Think, Fail, RouteAfterReason
<1>10. CASE GatePresent
  BY <1>10 DEF GatePresent
<1>11. CASE GateApproved
  BY <1>11 DEF GateApproved, RouteAfterApproval
<1>12. CASE GateDeclined
  BY <1>12 DEF GateDeclined, RouteAfterApproval
<1>13. CASE GateRaises
  BY <1>13 DEF GateRaises
<1>14. CASE GateExpired
  BY <1>14 DEF GateExpired, Fail, RouteAfterApproval
<1>15. CASE ActUnbound
  BY <1>15 DEF ActUnbound, RouteAfterAct
<1>16. CASE ActComplete
  BY <1>16 DEF ActComplete, RouteAfterAct
<1>17. CASE ActRemember
  BY <1>17 DEF ActRemember, RouteAfterAct
<1>18. CASE ActAsk
  BY <1>18 DEF ActAsk
<1>19. CASE ActAnswered
  BY <1>19 DEF ActAnswered, RouteAfterAct
<1>20. CASE ActRefused
  BY <1>20 DEF ActRefused, RouteAfterAct
<1>21. CASE ActAdmitted
  BY <1>21 DEF ActAdmitted
<1>22. CASE ActConfirmed
  BY <1>22 DEF ActConfirmed, Dispatched, RouteAfterAct
<1>23. CASE VerifyFailed
  BY <1>23 DEF VerifyFailed, RouteAfterVerify
<1>24. CASE VerifyUnconfirmed
  BY <1>24 DEF VerifyUnconfirmed, RouteAfterVerify
<1>25. CASE VerifyPassed
  BY <1>25 DEF VerifyPassed, RouteAfterVerify
<1>26. CASE Diagnose
  BY <1>26 DEF Diagnose, Fail, RouteAfterDiagnose
<1>27. CASE Options
  BY <1>27 DEF Options
<1>28. CASE OptionsRanked
  BY <1>28 DEF OptionsRanked, Resumes, RouteAfterOptions
<1>29. CASE OptionsFreeform
  BY <1>29 DEF OptionsFreeform, Resumes, RouteAfterOptions
<1>30. CASE OptionsGiveUp
  BY <1>30 DEF OptionsGiveUp, RouteAfterOptions
<1>31. CASE Finalize
  BY <1>31 DEF Finalize
<1>32. CASE HumanTypes
  BY <1>32 DEF HumanTypes
<1>33. ASSUME NEW verb \in Picks, ReasonChooses(verb) PROVE Phases'
  BY <1>33 DEF ReasonChooses, Think, RouteAfterReason
<1>34. ASSUME NEW effect \in BOOLEAN, ActSurfaceGone(effect) PROVE Phases'
  BY <1>34 DEF ActSurfaceGone, Fail, RouteAfterAct
<1>35. ASSUME NEW effect \in BOOLEAN, NEW result \in {"ok", "failed", "timeout"},
             ActPerformed(effect, result) PROVE Phases'
  BY <1>35 DEF ActPerformed, Dispatched, RouteAfterAct
<1>36. CASE UNCHANGED vars
  BY <1>36 DEF vars
<1>37. QED
  BY <1>1, <1>2, <1>3, <1>4, <1>5, <1>6, <1>7, <1>8, <1>9, <1>10, <1>11,
       <1>12, <1>13, <1>14, <1>15, <1>16, <1>17, <1>18, <1>19, <1>20, <1>21,
       <1>22, <1>23, <1>24, <1>25, <1>26, <1>27, <1>28, <1>29, <1>30, <1>31,
       <1>32, <1>33, <1>34, <1>35, <1>36
     DEF Next, Machine, Human, Reason, Act, Verify

-----------------------------------------------------------------------------
(* Remedies.                                                               *)

Remedies ==
  /\ \A c \in Causes : remedied[c] <= MaxAttempts
  /\ pc \in {"options", "ask_option"}
       => cause \in Causes /\ remedied[cause] < MaxAttempts

\* Every step preserves Remedies: diagnose reaches options only while the
\* cause has attempts left, and only options counts one.
LEMMA RemediesStep == Turn /\ Remedies /\ [Next]_vars => Remedies'
<1> SUFFICES ASSUME Turn, Remedies, [Next]_vars PROVE Remedies'
  OBVIOUS
<1> USE DEF Turn, TypeOK, Remedies
<1>1. CASE Observe
  BY <1>1 DEF Observe, See, RouteAfterObserve
<1>2. CASE ObserveSurfaceGone
  BY <1>2 DEF ObserveSurfaceGone, Fail, RouteAfterObserve
<1>3. CASE ObserveSignedOut
  BY <1>3 DEF ObserveSignedOut
<1>4. CASE ObserveStillSignedOut
  BY <1>4 DEF ObserveStillSignedOut, Fail, RouteAfterObserve
<1>5. CASE ReasonStops
  BY <1>5 DEF ReasonStops, Fail, RouteAfterReason
<1>6. CASE ReasonRaises
  BY <1>6 DEF ReasonRaises, Think
<1>7. CASE ReasonUnexplained
  BY <1>7 DEF ReasonUnexplained, Think, Fail, RouteAfterReason
<1>8. CASE ReasonNudged
  BY <1>8 DEF ReasonNudged, Think, RouteAfterReason
<1>9. CASE ReasonNoAction
  BY <1>9 DEF ReasonNoAction, Think, Fail, RouteAfterReason
<1>10. CASE GatePresent
  BY <1>10 DEF GatePresent
<1>11. CASE GateApproved
  BY <1>11 DEF GateApproved, RouteAfterApproval
<1>12. CASE GateDeclined
  BY <1>12 DEF GateDeclined, RouteAfterApproval
<1>13. CASE GateRaises
  BY <1>13 DEF GateRaises
<1>14. CASE GateExpired
  BY <1>14 DEF GateExpired, Fail, RouteAfterApproval
<1>15. CASE ActUnbound
  BY <1>15 DEF ActUnbound, RouteAfterAct
<1>16. CASE ActComplete
  BY <1>16 DEF ActComplete, RouteAfterAct
<1>17. CASE ActRemember
  BY <1>17 DEF ActRemember, RouteAfterAct
<1>18. CASE ActAsk
  BY <1>18 DEF ActAsk
<1>19. CASE ActAnswered
  BY <1>19 DEF ActAnswered, RouteAfterAct
<1>20. CASE ActRefused
  BY <1>20 DEF ActRefused, RouteAfterAct
<1>21. CASE ActAdmitted
  BY <1>21 DEF ActAdmitted
<1>22. CASE ActConfirmed
  BY <1>22 DEF ActConfirmed, Dispatched, RouteAfterAct
<1>23. CASE VerifyFailed
  BY <1>23 DEF VerifyFailed, RouteAfterVerify
<1>24. CASE VerifyUnconfirmed
  BY <1>24 DEF VerifyUnconfirmed, RouteAfterVerify
<1>25. CASE VerifyPassed
  BY <1>25 DEF VerifyPassed, RouteAfterVerify
<1>26. CASE Diagnose
  <2>1. PICK c \in Causes :
          finished' = TRUE \/ (~Exhausted(c) /\ cause' = c)
    <3>1. PICK c \in PossibleCauses :
            finished' = TRUE \/ (~Exhausted(c) /\ cause' = c)
      BY <1>26, Zenon DEF Diagnose, Fail
    <3>2. QED
      BY <3>1, DiagnosesAreCauses
  <2>2. remedied' = remedied
    BY <1>26 DEF Diagnose
  <2>3. finished' = TRUE => pc' = "finalize"
    BY <1>26 DEF Diagnose, RouteAfterDiagnose
  <2>4. QED
    BY <2>1, <2>2, <2>3 DEF Exhausted
<1>27. CASE Options
  BY <1>27 DEF Options
<1>28. CASE OptionsRanked
  BY <1>28 DEF OptionsRanked, Resumes, RouteAfterOptions
<1>29. CASE OptionsFreeform
  BY <1>29 DEF OptionsFreeform, Resumes, RouteAfterOptions
<1>30. CASE OptionsGiveUp
  BY <1>30 DEF OptionsGiveUp, RouteAfterOptions
<1>31. CASE Finalize
  BY <1>31 DEF Finalize
<1>32. CASE HumanTypes
  BY <1>32 DEF HumanTypes
<1>33. ASSUME NEW verb \in Picks, ReasonChooses(verb) PROVE Remedies'
  BY <1>33 DEF ReasonChooses, Think, RouteAfterReason
<1>34. ASSUME NEW effect \in BOOLEAN, ActSurfaceGone(effect) PROVE Remedies'
  BY <1>34 DEF ActSurfaceGone, Fail, RouteAfterAct
<1>35. ASSUME NEW effect \in BOOLEAN, NEW result \in {"ok", "failed", "timeout"},
             ActPerformed(effect, result) PROVE Remedies'
  BY <1>35 DEF ActPerformed, Dispatched, RouteAfterAct
<1>36. CASE UNCHANGED vars
  BY <1>36 DEF vars
<1>37. QED
  BY <1>1, <1>2, <1>3, <1>4, <1>5, <1>6, <1>7, <1>8, <1>9, <1>10, <1>11,
       <1>12, <1>13, <1>14, <1>15, <1>16, <1>17, <1>18, <1>19, <1>20, <1>21,
       <1>22, <1>23, <1>24, <1>25, <1>26, <1>27, <1>28, <1>29, <1>30, <1>31,
       <1>32, <1>33, <1>34, <1>35, <1>36
     DEF Next, Machine, Human, Reason, Act, Verify

-----------------------------------------------------------------------------
(* What is sent was read.                                                  *)

Read ==
  /\ pc = "ask_verdict" => shown \in {draft, Unreadable} \/ draft \in consented
  /\ pc \in {"act", "dispatching"} /\ lastAction \in Irreversible
       => draft \in consented
  /\ SentWasRead

\* Every step preserves Read: between the card and the dispatch of an
\* irreversible call only the human can change the window.
LEMMA ReadStep == Turn /\ Read /\ [Next]_vars => Read'
<1> SUFFICES ASSUME Turn, Read, [Next]_vars PROVE Read'
  OBVIOUS
<1> USE DEF Turn, TypeOK, Read, SentWasRead, Irreversible, Reads, Terminal
<1>0. ASSUME NEW effect \in BOOLEAN, Takes(effect), pc = "dispatching",
             UNCHANGED consented
      PROVE  SentWasRead'
  <2>1. CASE effect /\ lastAction = "Send" /\ draft # NoDraft
    <3>1. sent' = Append(sent, draft)
      BY <1>0, <2>1 DEF Takes
    <3>2. draft \in consented
      BY <1>0, <2>1
    <3>3. QED
      BY <1>0, <3>1, <3>2
  <2>2. CASE ~(effect /\ lastAction = "Send" /\ draft # NoDraft)
    <3>1. UNCHANGED sent
      BY <1>0, <2>2 DEF Takes
    <3>2. QED
      BY <1>0, <3>1
  <2>3. QED
    BY <2>1, <2>2
<1>1. CASE Observe
  BY <1>1 DEF Observe, See, RouteAfterObserve
<1>2. CASE ObserveSurfaceGone
  BY <1>2 DEF ObserveSurfaceGone, Fail, RouteAfterObserve
<1>3. CASE ObserveSignedOut
  BY <1>3 DEF ObserveSignedOut
<1>4. CASE ObserveStillSignedOut
  BY <1>4 DEF ObserveStillSignedOut, Fail, RouteAfterObserve
<1>5. CASE ReasonStops
  BY <1>5 DEF ReasonStops, Fail, RouteAfterReason
<1>6. CASE ReasonRaises
  BY <1>6 DEF ReasonRaises, Think
<1>7. CASE ReasonUnexplained
  BY <1>7 DEF ReasonUnexplained, Think, Fail, RouteAfterReason
<1>8. CASE ReasonNudged
  BY <1>8 DEF ReasonNudged, Think, RouteAfterReason
<1>9. CASE ReasonNoAction
  BY <1>9 DEF ReasonNoAction, Think, Fail, RouteAfterReason
<1>10. CASE GatePresent
  BY <1>10 DEF GatePresent
<1>11. CASE GateApproved
  BY <1>11 DEF GateApproved, RouteAfterApproval
<1>12. CASE GateDeclined
  BY <1>12 DEF GateDeclined, RouteAfterApproval
<1>13. CASE GateRaises
  BY <1>13 DEF GateRaises
<1>14. CASE GateExpired
  BY <1>14 DEF GateExpired, Fail, RouteAfterApproval
<1>15. CASE ActUnbound
  BY <1>15 DEF ActUnbound, RouteAfterAct
<1>16. CASE ActComplete
  BY <1>16 DEF ActComplete, RouteAfterAct
<1>17. CASE ActRemember
  BY <1>17 DEF ActRemember, RouteAfterAct
<1>18. CASE ActAsk
  BY <1>18 DEF ActAsk
<1>19. CASE ActAnswered
  BY <1>19 DEF ActAnswered, RouteAfterAct
<1>20. CASE ActRefused
  BY <1>20 DEF ActRefused, RouteAfterAct
<1>21. CASE ActAdmitted
  BY <1>21 DEF ActAdmitted, Admits
<1>22. CASE ActConfirmed
  BY <1>0, <1>22 DEF ActConfirmed, Dispatched, RouteAfterAct
<1>23. CASE VerifyFailed
  BY <1>23 DEF VerifyFailed, RouteAfterVerify
<1>24. CASE VerifyUnconfirmed
  BY <1>24 DEF VerifyUnconfirmed, RouteAfterVerify
<1>25. CASE VerifyPassed
  BY <1>25 DEF VerifyPassed, RouteAfterVerify
<1>26. CASE Diagnose
  BY <1>26 DEF Diagnose, Fail, RouteAfterDiagnose
<1>27. CASE Options
  BY <1>27 DEF Options
<1>28. CASE OptionsRanked
  BY <1>28 DEF OptionsRanked, Resumes, RouteAfterOptions
<1>29. CASE OptionsFreeform
  BY <1>29 DEF OptionsFreeform, Resumes, RouteAfterOptions
<1>30. CASE OptionsGiveUp
  BY <1>30 DEF OptionsGiveUp, RouteAfterOptions
<1>31. CASE Finalize
  BY <1>31 DEF Finalize
<1>32. CASE HumanTypes
  BY <1>32 DEF HumanTypes
<1>33. ASSUME NEW verb \in Picks, ReasonChooses(verb) PROVE Read'
  BY <1>33 DEF ReasonChooses, Think, RouteAfterReason
<1>34. ASSUME NEW effect \in BOOLEAN, ActSurfaceGone(effect) PROVE Read'
  BY <1>0, <1>34 DEF ActSurfaceGone, Fail, RouteAfterAct
<1>35. ASSUME NEW effect \in BOOLEAN, NEW result \in {"ok", "failed", "timeout"},
             ActPerformed(effect, result) PROVE Read'
  BY <1>0, <1>35 DEF ActPerformed, Dispatched, RouteAfterAct
<1>36. CASE UNCHANGED vars
  BY <1>36 DEF vars
<1>37. QED
  BY <1>1, <1>2, <1>3, <1>4, <1>5, <1>6, <1>7, <1>8, <1>9, <1>10, <1>11,
       <1>12, <1>13, <1>14, <1>15, <1>16, <1>17, <1>18, <1>19, <1>20, <1>21,
       <1>22, <1>23, <1>24, <1>25, <1>26, <1>27, <1>28, <1>29, <1>30, <1>31,
       <1>32, <1>33, <1>34, <1>35, <1>36
     DEF Next, Machine, Human, Reason, Act, Verify

-----------------------------------------------------------------------------
(* The theorems.  Each invariant holds initially, is kept by every step    *)
(* from a state of Turn, and implies the property of the same name.        *)

\* ConsentIsFresh: the surface starts an irreversible action only in the turn
\* a human approved it (irreversible.py's gate, behind route_after_reason).
THEOREM IrreversibleNeedsAFreshVerdict == Spec => []ConsentIsFresh
<1>1. Init => Consent
  BY DEF Init, Consent
<1>2. Consent => ConsentIsFresh
  BY DEF Consent, ConsentIsFresh
<1>3. QED
  BY <1>1, <1>2, TurnInvariant, ConsentStep, PTL DEF Spec

\* Phases holds throughout a run, relative to Turn.
LEMMA PhasesInvariant == Spec => []Phases
<1>1. Init => Phases
  BY DEF Init, Phases, Looping, Open
<1>2. QED
  BY <1>1, TurnInvariant, PhasesStep, PTL DEF Spec

\* NothingAfterConfirmation: after a confirmed send no node loops back, and
\* verify cannot turn the success into a failure (recovery_nodes.py, the
\* direct evidence of the executor).
THEOREM ConfirmationIsFinal == Spec => []NothingAfterConfirmation
<1>1. Turn /\ Phases => NothingAfterConfirmation
  BY DEF Turn, TypeOK, Phases, Looping, Open, Succeeded, Nodes, Waiting,
         Ended, NothingAfterConfirmation
<1>2. QED
  BY <1>1, TurnInvariant, PhasesInvariant, PTL

\* OutcomeConsistent: what a finished run reports is one story
\* (graph.py, finalize).
THEOREM OneOutcome == Spec => []OutcomeConsistent
<1>1. Phases => OutcomeConsistent
  BY DEF Phases, Failed, Succeeded, OutcomeConsistent
<1>2. QED
  BY <1>1, PhasesInvariant, PTL

\* RemediesBounded: the registry's cap on remedies per cause holds however
\* often the human comes back (registry.py, exhausted).
THEOREM RemediesAreBounded == Spec => []RemediesBounded
<1>1. Init => Remedies
  BY DEF Init, Remedies
<1>2. Remedies => RemediesBounded
  BY DEF Remedies, RemediesBounded
<1>3. QED
  BY <1>1, <1>2, TurnInvariant, RemediesStep, PTL DEF Spec

\* SentWasRead: whatever was sent is a text the human read on a card they
\* approved, looked at in the window because the card told them to, or typed
\* themselves (the gate in front of act, and the draft staying as it was).
THEOREM SendsOnlyWhatWasRead == Spec => []SentWasRead
<1>1. Init => Read
  BY DEF Init, Read, SentWasRead
<1>2. Read => SentWasRead
  BY DEF Read
<1>3. QED
  BY <1>1, <1>2, TurnInvariant, ReadStep, PTL DEF Spec

=============================================================================
