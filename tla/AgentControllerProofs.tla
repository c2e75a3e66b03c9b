------------------------ MODULE AgentControllerProofs ------------------------
(***************************************************************************)
(* Theorems about AgentController for every value of its constants: type   *)
(* correctness, the refinement of the act-and-judge loop, the bound on     *)
(* repeated actions, and what the history tells: everything that was sent, *)
(* nothing that was not authorised, and a verdict on all of it.            *)
(***************************************************************************)
EXTENDS AgentController, FiniteSetTheorems, TLAPS

\* Where the last step of the history is decided on but has not run.
Deciding == {"decided", "approval", "confirm", "guard", "execute", "sent"}

\* The history never outgrows the step limit, and there is room where a step is planned.
RoomForStep ==
    /\ Len(history) <= MaxSteps
    /\ pc = "planned" => Len(history) < MaxSteps

\* From its decision to the end of its execution the last step is the proposal,
\* has not run and has no verdict; its input is not sent before "sent".
LastIsProposal ==
    /\ pc \in Deciding \cup {"settle"} => history # <<>> /\ Last.action = proposal
    /\ pc \in Deciding => ~Ran(Len(history)) /\ Last.verdict = None
    /\ pc \in Deciding \ {"sent"} => Len(history) \notin reached

\* A step that ran and is not judged is the last one, and is waiting for it.
Judged ==
    /\ previous => pc \in {"loop", "reobserve", "done"} /\ history # <<>>
    /\ \A i \in DOMAIN history :
          Ran(i) /\ history[i].verdict = None =>
              /\ i = Len(history)
              /\ pc \in {"loop", "reobserve"} => previous
              /\ pc \in {"loop", "reobserve", "settle", "done"}

IInv == TypeOK /\ RoomForStep /\ LastIsProposal /\ Judged

-----------------------------------------------------------------------------
\* What Stamp does to the history, for each field it is used on.

LEMMA StampVerdict ==
    ASSUME history \in Seq(Steps), history # <<>>,
           NEW value \in Verdicts, Stamp("verdict", value)
    PROVE  /\ history' \in Seq(Steps) /\ Len(history') = Len(history)
           /\ DOMAIN history' = DOMAIN history
           /\ \A i \in DOMAIN history :
                 /\ i # Len(history) => history'[i] = history[i]
                 /\ history'[i].screen = history[i].screen
                 /\ history'[i].action = history[i].action
                 /\ history'[i].run = history[i].run
                 /\ history'[i].decision = history[i].decision
                 /\ history'[i].approved = history[i].approved
           /\ history'[Len(history)].verdict = value
  <1>1. Len(history) \in DOMAIN history
    BY DEF Steps
  <1>2. history[Len(history)] \in Steps
    BY <1>1
  <1>3. [history[Len(history)] EXCEPT !["verdict"] = value] \in Steps
    BY <1>2 DEF Steps
  <1> QED
    BY <1>1, <1>2, <1>3 DEF Stamp, Steps

LEMMA StampRun ==
    ASSUME history \in Seq(Steps), history # <<>>,
           NEW value \in Transports, Stamp("run", value)
    PROVE  /\ history' \in Seq(Steps) /\ Len(history') = Len(history)
           /\ DOMAIN history' = DOMAIN history
           /\ \A i \in DOMAIN history :
                 /\ i # Len(history) => history'[i] = history[i]
                 /\ history'[i].screen = history[i].screen
                 /\ history'[i].action = history[i].action
                 /\ history'[i].verdict = history[i].verdict
                 /\ history'[i].decision = history[i].decision
                 /\ history'[i].approved = history[i].approved
           /\ history'[Len(history)].run = value
  <1>1. Len(history) \in DOMAIN history
    BY DEF Steps
  <1>2. history[Len(history)] \in Steps
    BY <1>1
  <1>3. [history[Len(history)] EXCEPT !["run"] = value] \in Steps
    BY <1>2 DEF Steps
  <1> QED
    BY <1>1, <1>2, <1>3 DEF Stamp, Steps

LEMMA StampApproved ==
    ASSUME history \in Seq(Steps), history # <<>>, Stamp("approved", TRUE)
    PROVE  /\ history' \in Seq(Steps) /\ Len(history') = Len(history)
           /\ DOMAIN history' = DOMAIN history
           /\ \A i \in DOMAIN history :
                 /\ i # Len(history) => history'[i] = history[i]
                 /\ history'[i].screen = history[i].screen
                 /\ history'[i].action = history[i].action
                 /\ history'[i].run = history[i].run
                 /\ history'[i].verdict = history[i].verdict
                 /\ history'[i].decision = history[i].decision
           /\ history'[Len(history)].approved = TRUE
  <1>1. Len(history) \in DOMAIN history
    BY DEF Steps
  <1>2. history[Len(history)] \in Steps
    BY <1>1
  <1>3. [history[Len(history)] EXCEPT !["approved"] = TRUE] \in Steps
    BY <1>2 DEF Steps
  <1> QED
    BY <1>1, <1>2, <1>3 DEF Stamp, Steps

\* What a decision appends.
LEMMA DecideAppends ==
    ASSUME IInv, Decide
    PROVE  /\ history' \in Seq(Steps)
           /\ Len(history') = Len(history) + 1
           /\ DOMAIN history' = DOMAIN history \cup {Len(history) + 1}
           /\ \A i \in DOMAIN history : history'[i] = history[i]
           /\ history'[Len(history')].action = proposal
           /\ history'[Len(history')].run = None
           /\ history'[Len(history')].verdict = None
  <1>1. PICK d \in Decisions : history' = Append(history, Step(current, proposal, Decision(d)))
    BY DEF Decide, Decisions
  <1>2. Step(current, proposal, Decision(d)) \in Steps
    BY <1>1 DEF IInv, TypeOK, Decide, Step, Steps, Decision, Decisions
  <1> DEFINE e == Step(current, proposal, Decision(d))
  <1>3. history \in Seq(Steps) /\ history' = Append(history, e) /\ e \in Steps
    BY <1>1, <1>2 DEF IInv, TypeOK
  <1>4. e.action = proposal /\ e.run = None /\ e.verdict = None
    BY DEF Step
  <1> HIDE DEF e
  <1>5. /\ history' \in Seq(Steps)
        /\ Len(history') = Len(history) + 1
        /\ history'[Len(history) + 1] = e
        /\ \A i \in 1..Len(history) : history'[i] = history[i]
    BY <1>3
  <1> QED
    BY <1>3, <1>4, <1>5

-----------------------------------------------------------------------------
\* Steps that end the session and touch nothing else.
Quits ==
    /\ pc # "done" /\ pc' = "done"
    /\ result'.status \in Statuses
    /\ noChange' \in Nat
    /\ UNCHANGED <<options, current, proposal, history, ladder, hid, reached>>

Quitting ==
    \/ RuntimeLimit \/ VerificationMissing \/ StepLimit \/ UnsafeScreen \/ RepeatRefused
    \/ LowConfidence \/ Completed \/ AssistanceRequested \/ Denied \/ Stuck \/ DryRun
    \/ ApprovalDenied \/ StepCancelled \/ NoScreenChange \/ Raises \/ Interrupted

\* Steps that only move on, perhaps with a new screenshot or proposal.
Moving ==
    \/ FirstCapture \/ ObserveFirst \/ Recapture \/ Plan \/ Proceed \/ Confirmed
    \/ GuardAllows \/ GuardCancels

\* Steps that write the history, send input or await a verdict.
Writing ==
    \/ Reobserve \/ RecoveriesExhausted \/ Recover \/ Verified \/ Decide \/ Approved
    \/ Send \/ Executed \/ TransportFailed \/ Settled

LEMMA NextCases == Next => Quitting \/ Moving \/ Writing
  BY DEF Next, Run, Observe, PlanNext, Consider, Authorise, Act, Quitting, Moving, Writing

LEMMA QuittingQuits ==
    ASSUME IInv, Quitting
    PROVE  Quits
  <1> USE DEF keepLadder, Finish, Quits, ladder, Statuses
  <1>1. CASE RuntimeLimit \/ VerificationMissing \/ StepLimit \/ UnsafeScreen
    BY <1>1 DEF RuntimeLimit, VerificationMissing, StepLimit, UnsafeScreen, IInv, TypeOK
  <1>2. CASE RepeatRefused \/ LowConfidence \/ Completed \/ AssistanceRequested
    BY <1>2 DEF RepeatRefused, LowConfidence, Completed, AssistanceRequested, IInv, TypeOK
  <1>3. CASE Denied \/ Stuck \/ DryRun \/ ApprovalDenied \/ StepCancelled
    BY <1>3 DEF Denied, Stuck, DryRun, ApprovalDenied, StepCancelled, IInv, TypeOK
  <1>4. CASE NoScreenChange
    BY <1>4 DEF NoScreenChange, IInv, TypeOK
  <1>5. CASE Raises \/ Interrupted
    BY <1>5 DEF Raises, Raising, Interrupted, IInv, TypeOK
  <1> QED
    BY <1>1, <1>2, <1>3, <1>4, <1>5 DEF Quitting

LEMMA QuitsKeepsIInv ==
    ASSUME IInv, Quits
    PROVE  IInv'
  <1>1. TypeOK'
    BY DEF IInv, TypeOK, Quits, ladder, Labels
  <1>2. RoomForStep'
    BY DEF IInv, RoomForStep, Quits
  <1>3. LastIsProposal'
    BY DEF LastIsProposal, Quits, Deciding
  <1>4. Judged'
    BY DEF IInv, Judged, Quits, ladder, Ran
  <1> QED
    BY <1>1, <1>2, <1>3, <1>4 DEF IInv

LEMMA MovingKeepsIInv ==
    ASSUME IInv, Moving
    PROVE  IInv'
  <1> USE DEF Moving, FirstCapture, ObserveFirst, Recapture, Plan, Proceed, Confirmed,
              GuardAllows, GuardCancels, keepLadder, Goto, ladder
  <1>1. UNCHANGED <<options, history, ladder, noChange, hid, reached>> /\ pc' # "done"
    BY Zenon
  <1>2. TypeOK'
    <2>1. CASE FirstCapture \/ ObserveFirst \/ Recapture \/ GuardCancels
      BY <2>1 DEF IInv, TypeOK, Labels
    <2>2. CASE Plan \/ Proceed \/ Confirmed \/ GuardAllows
      BY <2>2 DEF IInv, TypeOK, Labels
    <2> QED
      BY <2>1, <2>2
  <1>3. RoomForStep'
    BY <1>1 DEF IInv, RoomForStep
  <1>4. LastIsProposal'
    <2>1. pc' \in Deciding \cup {"settle"} =>
              pc \in Deciding \ {"sent"} /\ proposal' = proposal /\ pc' \in Deciding
      BY DEF Deciding
    <2> QED
      BY <2>1, <1>1 DEF IInv, LastIsProposal, Ran, Last
  <1>5. Judged'
    BY <1>1 DEF IInv, Judged, Ran, LastIsProposal, Deciding
  <1> QED
    BY <1>2, <1>3, <1>4, <1>5 DEF IInv

\* The four steps of the verification ladder that write a verdict.
LEMMA JudgingKeepsIInv ==
    ASSUME IInv, Reobserve \/ RecoveriesExhausted \/ Recover \/ Verified
    PROVE  IInv'
  <1>1. PICK v \in Verdicts : Stamp("verdict", v)
    BY DEF Reobserve, RecoveriesExhausted, Recover, Verified, Verdicts
  <1>2. pc = "loop" /\ previous /\ history # <<>> /\ history \in Seq(Steps)
    BY DEF Reobserve, RecoveriesExhausted, Recover, Verified, IInv, Judged, TypeOK
  <1>3. /\ history' \in Seq(Steps) /\ Len(history') = Len(history)
        /\ DOMAIN history' = DOMAIN history
        /\ \A i \in DOMAIN history :
              /\ i # Len(history) => history'[i] = history[i]
              /\ history'[i].run = history[i].run
        /\ history'[Len(history)].verdict = v
    BY <1>1, <1>2, StampVerdict
  <1>4. pc' \in {"reobserve", "observed", "done"} /\ (pc' # "done" => UNCHANGED result)
    BY DEF Reobserve, RecoveriesExhausted, Recover, Verified, Goto, Finish
  <1>5. \A i \in DOMAIN history' : ~(Ran(i)' /\ history'[i].verdict = None)
    BY <1>2, <1>3, ControllerAssumption DEF IInv, Judged, Ran
  <1>6. TypeOK'
    <2>1. CASE Reobserve
      BY <2>1, <1>2, <1>3 DEF IInv, TypeOK, Reobserve, Goto, MarkReobserved, Labels
    <2>2. CASE RecoveriesExhausted
      BY <2>2, <1>2, <1>3
      DEF IInv, TypeOK, RecoveriesExhausted, Finish, Statuses, keepLadder, ladder, Labels
    <2>3. CASE Recover
      <3>1. Last.action \in Actions
        <4>1. Len(history) \in DOMAIN history
          BY <1>2
        <4>2. Last \in Steps
          BY <4>1, <1>2 DEF Last
        <4> QED
          BY <4>2 DEF Steps
      <3>2. recoveries' \in 0..MaxRecoveries
        BY <2>3, ControllerAssumption DEF IInv, TypeOK, Recover, BudgetLeft, CountRecovery
      <3> QED
        BY <2>3, <3>1, <3>2, <1>2, <1>3 DEF IInv, TypeOK, Recover, Goto, Labels
    <2>4. CASE Verified
      BY <2>4, <1>2, <1>3 DEF IInv, TypeOK, Verified, Goto, Labels
    <2> QED
      BY <2>1, <2>2, <2>3, <2>4
  <1>7. RoomForStep'
    BY <1>3, <1>4 DEF IInv, RoomForStep
  <1>8. LastIsProposal'
    BY <1>4 DEF LastIsProposal, Deciding
  <1>9. Judged'
    <2>1. previous' => pc' \in {"reobserve", "done"} /\ history' # <<>>
      BY <1>2, <1>3, <1>4 DEF Reobserve, RecoveriesExhausted, Recover, Verified, Goto, Finish
    <2> QED
      BY <2>1, <1>5 DEF Judged
  <1> QED
    BY <1>6, <1>7, <1>8, <1>9 DEF IInv

LEMMA DecideKeepsIInv ==
    ASSUME IInv, Decide
    PROVE  IInv'
  <1>1. /\ history' \in Seq(Steps)
        /\ Len(history') = Len(history) + 1
        /\ DOMAIN history' = DOMAIN history \cup {Len(history) + 1}
        /\ \A i \in DOMAIN history : history'[i] = history[i]
        /\ history'[Len(history')].action = proposal
        /\ history'[Len(history')].run = None
        /\ history'[Len(history')].verdict = None
    BY DecideAppends
  <1>2. pc = "planned" /\ pc' = "decided" /\ Len(history) < MaxSteps /\ Len(history) \in Nat
    BY DEF IInv, TypeOK, RoomForStep, Decide, Goto
  <1>3. TypeOK'
    BY <1>1, <1>2 DEF IInv, TypeOK, Decide, Goto, keepLadder, ladder, Labels
  <1>4. RoomForStep'
    BY <1>1, <1>2, ControllerAssumption DEF RoomForStep
  <1>5. LastIsProposal'
    <2>1. Len(history') \notin reached'
      BY <1>1, <1>2 DEF IInv, TypeOK, Decide, keepLadder
    <2>2. history' # <<>>
      BY <1>1, <1>2
    <2> QED
      BY <2>1, <2>2, <1>1, <1>2 DEF LastIsProposal, Last, Ran, Decide
  <1>6. Judged'
    BY <1>1, <1>2 DEF IInv, Judged, Ran, Decide, keepLadder, ladder
  <1> QED
    BY <1>3, <1>4, <1>5, <1>6 DEF IInv

LEMMA ApprovedKeepsIInv ==
    ASSUME IInv, Approved
    PROVE  IInv'
  <1>1. pc = "approval" /\ pc' = "confirm" /\ history # <<>> /\ history \in Seq(Steps)
    BY DEF IInv, TypeOK, LastIsProposal, Deciding, Approved, Goto
  <1>2. /\ history' \in Seq(Steps) /\ Len(history') = Len(history)
        /\ DOMAIN history' = DOMAIN history
        /\ \A i \in DOMAIN history :
              /\ history'[i].action = history[i].action
              /\ history'[i].run = history[i].run
              /\ history'[i].verdict = history[i].verdict
    BY <1>1, StampApproved DEF Approved
  <1>3. TypeOK'
    BY <1>1, <1>2 DEF IInv, TypeOK, Approved, Goto, keepLadder, ladder, Labels
  <1>4. RoomForStep'
    BY <1>1, <1>2 DEF IInv, RoomForStep
  <1>5. LastIsProposal'
    <2>1. Len(history) \in DOMAIN history /\ history' # <<>>
      BY <1>1, <1>2
    <2> QED
      BY <2>1, <1>1, <1>2
      DEF IInv, LastIsProposal, Last, Ran, Deciding, Approved, keepLadder
  <1>6. Judged'
    BY <1>1, <1>2 DEF IInv, Judged, Ran, Approved, keepLadder, ladder
  <1> QED
    BY <1>3, <1>4, <1>5, <1>6 DEF IInv

LEMMA SendKeepsIInv ==
    ASSUME IInv, Send
    PROVE  IInv'
  <1>1. pc = "execute" /\ pc' = "sent" /\ history # <<>> /\ history \in Seq(Steps)
    BY DEF IInv, TypeOK, LastIsProposal, Deciding, Send, Goto
  <1>2. Len(history) \in DOMAIN history
    BY <1>1
  <1>3. TypeOK'
    BY <1>1, <1>2 DEF IInv, TypeOK, Send, Goto, ladder, Labels
  <1> QED
    BY <1>1, <1>3
    DEF IInv, RoomForStep, LastIsProposal, Last, Ran, Deciding, Judged, Send, ladder

\* The executor's report.
LEMMA ReportKeepsIInv ==
    ASSUME IInv, Executed \/ TransportFailed
    PROVE  IInv'
  <1>1. PICK t \in Transports : Stamp("run", t)
    BY DEF Executed, TransportFailed, Transports
  <1>2. /\ pc = "sent" /\ history # <<>> /\ history \in Seq(Steps)
        /\ Last.verdict = None /\ Last.action = proposal /\ ~previous
    BY DEF IInv, TypeOK, LastIsProposal, Judged, Deciding, Executed, TransportFailed
  <1>3. /\ history' \in Seq(Steps) /\ Len(history') = Len(history)
        /\ DOMAIN history' = DOMAIN history
        /\ \A i \in DOMAIN history :
              /\ i # Len(history) => history'[i] = history[i]
              /\ history'[i].action = history[i].action
              /\ history'[i].verdict = history[i].verdict
        /\ history'[Len(history)].run = t
    BY <1>1, <1>2, StampRun
  <1>4. pc' \in {"settle", "done"} /\ UNCHANGED <<options, current, proposal, ladder, reached>>
    BY DEF Executed, TransportFailed, Goto, Finish
  <1>5. TypeOK'
    BY <1>2, <1>3, <1>4
    DEF IInv, TypeOK, Executed, TransportFailed, Goto, Finish, Count, ladder, Labels, Statuses
  <1>6. RoomForStep'
    BY <1>3, <1>4 DEF IInv, RoomForStep
  <1>7. LastIsProposal'
    <2>1. Len(history) \in DOMAIN history /\ history' # <<>>
      BY <1>2, <1>3
    <2> QED
      BY <2>1, <1>2, <1>3, <1>4 DEF LastIsProposal, Last, Deciding
  <1>8. Judged'
    BY <1>2, <1>3, <1>4 DEF IInv, Judged, Ran, ladder
  <1> QED
    BY <1>5, <1>6, <1>7, <1>8 DEF IInv

LEMMA SettledKeepsIInv ==
    ASSUME IInv, Settled
    PROVE  IInv'
  <1>1. pc = "settle" /\ pc' = "loop" /\ history # <<>> /\ previous' = TRUE
    BY DEF IInv, LastIsProposal, Settled, Goto, AwaitVerification
  <1>2. TypeOK'
    BY <1>1 DEF IInv, TypeOK, Settled, Goto, Labels
  <1> QED
    BY <1>1, <1>2 DEF IInv, RoomForStep, LastIsProposal, Deciding, Judged, Ran, Settled

LEMMA InitIInv == Init => IInv
  <1> SUFFICES ASSUME Init PROVE IInv
    OBVIOUS
  <1> USE DEF Init
  <1>1. TypeOK
    <2>1. recoveries \in 0..MaxRecoveries
      BY ControllerAssumption
    <2>2. history \in Seq(Steps) /\ reached \subseteq DOMAIN history
      OBVIOUS
    <2> QED
      BY <2>1, <2>2 DEF TypeOK, Labels
  <1>2. RoomForStep /\ LastIsProposal /\ Judged
    BY ControllerAssumption DEF RoomForStep, LastIsProposal, Judged, Deciding
  <1> QED
    BY <1>1, <1>2 DEF IInv

LEMMA StepIInv == IInv /\ [Next]_vars => IInv'
  <1> SUFFICES ASSUME IInv, [Next]_vars PROVE IInv'
    OBVIOUS
  <1>1. CASE Quitting
    BY <1>1, QuittingQuits, QuitsKeepsIInv
  <1>2. CASE Moving
    BY <1>2, MovingKeepsIInv
  <1>3. CASE Writing
    BY <1>3, JudgingKeepsIInv, DecideKeepsIInv, ApprovedKeepsIInv, SendKeepsIInv,
       ReportKeepsIInv, SettledKeepsIInv DEF Writing
  <1>4. CASE UNCHANGED vars
    BY <1>4 DEF vars, ladder, IInv, TypeOK, RoomForStep, LastIsProposal, Judged, Last, Ran
  <1> QED
    BY <1>1, <1>2, <1>3, <1>4, NextCases

\* The inductive invariant of the session.
THEOREM SessionInvariant == Spec => []IInv
  BY InitIInv, StepIInv, PTL DEF Spec

\* The variables of AgentController.run keep their types in every session.
THEOREM TypeCorrect == Spec => []TypeOK
  <1>1. IInv => TypeOK
    BY DEF IInv
  <1> QED
    BY <1>1, SessionInvariant, PTL

-----------------------------------------------------------------------------
\* The refinement of the act-and-judge loop.

\* At most as many steps as the history has can have reached the computer.
LEMMA AtMostAsMany ==
    ASSUME NEW n \in Nat, NEW R \in SUBSET (1..n)
    PROVE  IsFiniteSet(R) /\ Cardinality(R) \in Nat /\ Cardinality(R) <= n
  <1>1. IsFiniteSet(1..n) /\ Cardinality(1..n) = n
    BY FS_Interval
  <1>2. IsFiniteSet(R) /\ Cardinality(R) <= Cardinality(1..n)
    BY <1>1, FS_Subset
  <1> QED
    BY <1>1, <1>2, FS_CardinalityType

LEMMA InitIsLoopInit == Init => Loop!Init
  <1> SUFFICES ASSUME Init PROVE Loop!Init
    OBVIOUS
  <1>1. Cardinality(reached) = 0
    BY FS_EmptySet DEF Init
  <1>2. Stage = "free"
    BY DEF Init, Stage, Pending, Ran
  <1> QED
    BY <1>1, <1>2 DEF Loop!Init

\* A step that leaves the history's outcomes alone leaves the stage alone.
LEMMA SameStage ==
    ASSUME pc # "done", pc' # "done", pc # "sent", pc' # "sent", UNCHANGED <<history, reached>>
    PROVE  UNCHANGED Loop!loopVars
  BY DEF Loop!loopVars, Stage, Pending, Ran

\* A step into "done" that sends nothing ends the loop.
LEMMA EndStops ==
    ASSUME pc # "done", pc' = "done", UNCHANGED reached
    PROVE  Loop!Stop
  BY DEF Loop!Stop, Stage

LEMMA JudgingJudges ==
    ASSUME IInv, Reobserve \/ Recover \/ Verified
    PROVE  [Loop!Next]_(Loop!loopVars)
  <1>1. PICK v \in Verdicts : Stamp("verdict", v)
    BY DEF Reobserve, Recover, Verified, Verdicts
  <1>2. pc = "loop" /\ previous /\ history # <<>> /\ history \in Seq(Steps)
    BY DEF Reobserve, Recover, Verified, IInv, Judged, TypeOK
  <1>3. /\ DOMAIN history' = DOMAIN history
        /\ \A i \in DOMAIN history :
              /\ i # Len(history) => history'[i] = history[i]
              /\ history'[i].run = history[i].run
        /\ history'[Len(history)].verdict = v
    BY <1>1, <1>2, StampVerdict
  <1>4. pc' \in {"reobserve", "observed"} /\ UNCHANGED reached
    BY DEF Reobserve, Recover, Verified, Goto
  <1>5. Stage' = "free"
    BY <1>2, <1>3, <1>4, ControllerAssumption DEF IInv, Judged, Ran, Stage, Pending
  <1>6. Stage \in {"free", "acted"}
    BY <1>2 DEF Stage
  <1> QED
    BY <1>4, <1>5, <1>6 DEF Loop!Next, Loop!Judge, Loop!loopVars

LEMMA SendActs ==
    ASSUME IInv, IInv', Send
    PROVE  Loop!Act
  <1>1. pc = "execute" /\ pc' = "sent"
    BY DEF Send, Goto
  <1>2. Stage = "free"
    BY <1>1 DEF IInv, Judged, Stage, Pending
  <1>3. Stage' = "acted"
    BY <1>1 DEF Stage, Pending
  <1>4. Cardinality(reached') <= MaxSteps
    <2>1. /\ Len(history') \in Nat /\ Len(history') <= MaxSteps
          /\ reached' \in SUBSET (1..Len(history'))
      BY DEF IInv, TypeOK, RoomForStep
    <2> QED
      BY <2>1, AtMostAsMany, ControllerAssumption
  <1>5. Cardinality(reached') \in {Cardinality(reached), Cardinality(reached) + 1}
    <2>1. Len(history) \in Nat /\ reached \in SUBSET (1..Len(history))
      BY DEF IInv, TypeOK
    <2>2. IsFiniteSet(reached)
      BY <2>1, AtMostAsMany
    <2> QED
      BY <2>2, FS_AddElement DEF Send
  <1> QED
    BY <1>2, <1>3, <1>4, <1>5 DEF Loop!Act

LEMMA ReportKeepsStage ==
    ASSUME IInv, Executed
    PROVE  UNCHANGED Loop!loopVars
  <1>1. PICK t \in Transports : Stamp("run", t)
    BY DEF Executed, Transports
  <1>2. pc = "sent" /\ pc' = "settle" /\ UNCHANGED reached
    BY DEF Executed, Goto
  <1>3. history # <<>> /\ history \in Seq(Steps) /\ Last.verdict = None
    BY <1>2 DEF IInv, TypeOK, LastIsProposal, Deciding
  <1>4. /\ DOMAIN history' = DOMAIN history
        /\ Len(history) \in DOMAIN history
        /\ history'[Len(history)].verdict = None
        /\ history'[Len(history)].run = t
    BY <1>1, <1>3, StampRun DEF Last
  <1>5. Stage = "acted" /\ Stage' = "acted"
    BY <1>2, <1>4, ControllerAssumption DEF Stage, Pending, Ran
  <1> QED
    BY <1>2, <1>5 DEF Loop!loopVars

LEMMA WritingKeepsStage ==
    ASSUME IInv, Decide \/ Approved
    PROVE  UNCHANGED Loop!loopVars
  <1>1. /\ pc \notin {"done", "sent"} /\ pc' \notin {"done", "sent"}
        /\ UNCHANGED reached
    BY DEF Decide, Approved, Goto, keepLadder
  <1>2. Pending' = Pending
    <2>1. CASE Decide
      BY <2>1, <1>1, DecideAppends DEF Pending, Ran
    <2>2. CASE Approved
      <3>1. history # <<>> /\ history \in Seq(Steps)
        BY <2>2 DEF IInv, TypeOK, LastIsProposal, Deciding, Approved
      <3> QED
        BY <3>1, <2>2, <1>1, StampApproved DEF Pending, Ran, Approved
    <2> QED
      BY <2>1, <2>2
  <1> QED
    BY <1>1, <1>2 DEF Stage, Loop!loopVars

LEMMA StepIsLoopStep == IInv /\ IInv' /\ [Next]_vars => [Loop!Next]_(Loop!loopVars)
  <1> SUFFICES ASSUME IInv, IInv', [Next]_vars PROVE [Loop!Next]_(Loop!loopVars)
    OBVIOUS
  <1>1. CASE Quitting
    BY <1>1, QuittingQuits, EndStops DEF Quits, Loop!Next
  <1>2. CASE Moving
    <2>1. /\ pc \notin {"done", "sent"} /\ pc' \notin {"done", "sent"}
          /\ UNCHANGED <<history, reached>>
      BY <1>2
      DEF Moving, FirstCapture, ObserveFirst, Recapture, Plan, Proceed, Confirmed, GuardAllows,
          GuardCancels, Goto, keepLadder
    <2> QED
      BY <2>1, SameStage
  <1>3. CASE Writing
    <2>1. CASE Reobserve \/ Recover \/ Verified
      BY <2>1, JudgingJudges
    <2>2. CASE RecoveriesExhausted \/ TransportFailed
      <3>1. pc # "done" /\ pc' = "done" /\ UNCHANGED reached
        BY <2>2 DEF RecoveriesExhausted, TransportFailed, Finish, keepLadder
      <3> QED
        BY <3>1, EndStops DEF Loop!Next
    <2>3. CASE Decide \/ Approved
      BY <2>3, WritingKeepsStage
    <2>4. CASE Send
      BY <2>4, SendActs DEF Loop!Next
    <2>5. CASE Executed
      BY <2>5, ReportKeepsStage
    <2>6. CASE Settled
      <3>1. pc = "settle" /\ pc' = "loop" /\ UNCHANGED <<history, reached>>
        BY <2>6 DEF Settled, Goto
      <3> QED
        BY <3>1, SameStage
    <2> QED
      BY <1>3, <2>1, <2>2, <2>3, <2>4, <2>5, <2>6 DEF Writing
  <1>4. CASE UNCHANGED vars
    BY <1>4 DEF vars, Stage, Pending, Ran, Loop!loopVars
  <1> QED
    BY <1>1, <1>2, <1>3, <1>4, NextCases

\* Every session implements the act-and-judge loop of ActVerifyLoop: at most
\* max_steps inputs, none before the outcome of the last one is judged.
THEOREM SessionImplementsLoop == Spec => ImplementsLoop
  BY InitIsLoopInit, StepIsLoopStep, SessionInvariant, PTL DEF Spec, ImplementsLoop, Loop!Spec

-----------------------------------------------------------------------------
\* The bound on repeated actions.

RanOn(s, a) == {i \in DOMAIN history : Ran(i) /\ history[i].screen = s /\ history[i].action = a}

\* The stuck check, passed once, holds until the proposal has run: nothing in
\* between adds a step or changes one's screen or action.
CheckedForRepeats == pc \in Deciding \ {"decided"} => ~Repeated

RInv == CheckedForRepeats /\ RepeatsAreBounded

\* What a step may do to the history without letting another action run.
NothingRan ==
    /\ DOMAIN history \subseteq DOMAIN history'
    /\ \A i \in DOMAIN history' : Ran(i)' =>
          /\ i \in DOMAIN history /\ Ran(i)
          /\ history'[i].screen = history[i].screen
          /\ history'[i].action = history[i].action
    /\ \A i \in DOMAIN history : Ran(i) =>
          Ran(i)' /\ history'[i].screen = history[i].screen /\ history'[i].action = history[i].action

LEMMA NothingRanKeepsBound ==
    ASSUME RepeatsAreBounded, NothingRan
    PROVE  RepeatsAreBounded'
  <1> SUFFICES ASSUME NEW s \in Screens, NEW a \in Actions
               PROVE  Cardinality(RanOn(s, a)') <= MaxRepeated
    BY DEF RepeatsAreBounded, RanOn, Ran
  <1>1. RanOn(s, a)' = RanOn(s, a)
    BY DEF NothingRan, RanOn
  <1>2. Cardinality(RanOn(s, a)) <= MaxRepeated
    BY DEF RepeatsAreBounded, RanOn
  <1> QED
    BY <1>1, <1>2

\* A step that keeps every step's screen and action keeps the outcome of the check.
LEMMA SameRepeats ==
    ASSUME history # <<>>, history \in Seq(Steps), Len(history') = Len(history),
           DOMAIN history' = DOMAIN history,
           \A i \in DOMAIN history : history'[i].screen = history[i].screen
                                     /\ history'[i].action = history[i].action
    PROVE  Repeated' = Repeated
  <1>1. Len(history) \in DOMAIN history
    OBVIOUS
  <1>2. \A i \in DOMAIN history : SameStep(i)' = SameStep(i)
    BY <1>1 DEF SameStep, Last
  <1>3. {i \in DOMAIN history' : SameStep(i)'} = {i \in DOMAIN history : SameStep(i)}
    BY <1>2
  <1> QED
    BY <1>3 DEF Repeated

\* The one step that lets an action run: the check has counted it already.
LEMMA ReportKeepsBound ==
    ASSUME IInv, RInv, Executed \/ TransportFailed
    PROVE  RepeatsAreBounded'
  <1>1. PICK t \in Transports : Stamp("run", t)
    BY DEF Executed, TransportFailed, Transports
  <1>2. pc = "sent" /\ history # <<>> /\ history \in Seq(Steps)
    BY DEF IInv, TypeOK, LastIsProposal, Deciding, Executed, TransportFailed
  <1>3. /\ DOMAIN history' = DOMAIN history
        /\ \A i \in DOMAIN history :
              /\ i # Len(history) => history'[i] = history[i]
              /\ history'[i].screen = history[i].screen
              /\ history'[i].action = history[i].action
    BY <1>1, <1>2, StampRun
  <1> SUFFICES ASSUME NEW s \in Screens, NEW a \in Actions
               PROVE  Cardinality(RanOn(s, a)') <= MaxRepeated
    BY DEF RepeatsAreBounded, RanOn, Ran
  <1>4. CASE Last.screen = s /\ Last.action = a
    <2> DEFINE same == {i \in DOMAIN history : SameStep(i)}
    <2>1. RanOn(s, a)' \in SUBSET same
      BY <1>3, <1>4 DEF RanOn, SameStep
    <2>2. same \in SUBSET (1..Len(history)) /\ Len(history) \in Nat
      BY <1>2
    <2>3. IsFiniteSet(same) /\ Cardinality(same) \in Nat
      BY <2>2, AtMostAsMany
    <2>4. ~(Cardinality(same) > MaxRepeated)
      BY <1>2 DEF RInv, CheckedForRepeats, Deciding, Repeated
    <2>5. Cardinality(RanOn(s, a)') <= Cardinality(same) /\ Cardinality(RanOn(s, a)') \in Nat
      BY <2>1, <2>3, FS_Subset, FS_CardinalityType
    <2> QED
      BY <2>3, <2>4, <2>5, ControllerAssumption
  <1>5. CASE ~(Last.screen = s /\ Last.action = a)
    <2>1. RanOn(s, a)' = RanOn(s, a)
      BY <1>2, <1>3, <1>5 DEF RanOn, Last, Ran
    <2>2. Cardinality(RanOn(s, a)) <= MaxRepeated
      BY DEF RInv, RepeatsAreBounded, RanOn
    <2> QED
      BY <2>1, <2>2
  <1> QED
    BY <1>4, <1>5

\* Every other step leaves what ran as it was.
LEMMA OthersLetNothingRun ==
    ASSUME IInv, [Next]_vars, ~(Executed \/ TransportFailed)
    PROVE  NothingRan
  <1>1. CASE UNCHANGED history
    BY <1>1 DEF NothingRan, Ran
  <1>2. CASE Reobserve \/ RecoveriesExhausted \/ Recover \/ Verified
    <2>1. PICK v \in Verdicts : Stamp("verdict", v)
      BY <1>2 DEF Reobserve, RecoveriesExhausted, Recover, Verified, Verdicts
    <2>2. history # <<>> /\ history \in Seq(Steps)
      BY <1>2 DEF Reobserve, RecoveriesExhausted, Recover, Verified, IInv, Judged, TypeOK
    <2> QED
      BY <2>1, <2>2, StampVerdict DEF NothingRan, Ran
  <1>3. CASE Decide
    <2>1. history \in Seq(Steps) /\ Len(history) \in Nat
      BY DEF IInv, TypeOK
    <2> QED
      BY <2>1, <1>3, DecideAppends DEF NothingRan, Ran
  <1>4. CASE Approved
    <2>1. history # <<>> /\ history \in Seq(Steps)
      BY <1>4 DEF IInv, TypeOK, LastIsProposal, Deciding, Approved
    <2> QED
      BY <2>1, <1>4, StampApproved DEF NothingRan, Ran, Approved
  <1>5. CASE Quitting \/ Moving \/ Send \/ Settled \/ UNCHANGED vars
    <2>1. CASE Quitting
      BY <2>1, <1>1, QuittingQuits DEF Quits
    <2>2. CASE Moving
      BY <2>2, <1>1
      DEF Moving, FirstCapture, ObserveFirst, Recapture, Plan, Proceed, Confirmed, GuardAllows,
          GuardCancels
    <2>3. CASE Send \/ Settled \/ UNCHANGED vars
      BY <2>3, <1>1 DEF Send, Settled, vars
    <2> QED
      BY <1>5, <2>1, <2>2, <2>3
  <1> QED
    BY <1>2, <1>3, <1>4, <1>5, NextCases DEF Writing

LEMMA StepKeepsCheck ==
    ASSUME IInv, RInv, [Next]_vars
    PROVE  CheckedForRepeats'
  <1> SUFFICES ASSUME pc' \in Deciding \ {"decided"} PROVE ~Repeated'
    BY DEF CheckedForRepeats
  <1>1. CASE Quitting
    BY <1>1, QuittingQuits DEF Quits, Deciding
  <1>2. CASE Proceed
    BY <1>2 DEF Proceed, AppearsStuck, Repeated, SameStep, Last
  <1>3. CASE Confirmed \/ GuardAllows \/ Send \/ UNCHANGED vars
    <2>1. pc \in Deciding \ {"decided"} /\ UNCHANGED history
      BY <1>3 DEF Confirmed, GuardAllows, Send, vars, Deciding
    <2> QED
      BY <2>1 DEF RInv, CheckedForRepeats, Repeated, SameStep, Last
  <1>4. CASE Approved
    <2>1. /\ pc \in Deciding \ {"decided"} /\ history # <<>> /\ history \in Seq(Steps)
          /\ Stamp("approved", TRUE)
      BY <1>4 DEF IInv, TypeOK, LastIsProposal, Deciding, Approved
    <2>2. Repeated' = Repeated
      BY <2>1, StampApproved, SameRepeats
    <2> QED
      BY <2>1, <2>2 DEF RInv, CheckedForRepeats
  <1>5. CASE FirstCapture \/ ObserveFirst \/ Recapture \/ Plan \/ GuardCancels
    BY <1>5 DEF FirstCapture, ObserveFirst, Recapture, Plan, GuardCancels, Goto, Deciding
  <1>6. CASE Writing /\ ~Approved /\ ~Send
    BY <1>6
    DEF Writing, Reobserve, RecoveriesExhausted, Recover, Verified, Decide, Executed,
        TransportFailed, Settled, Goto, Finish, Deciding
  <1> QED
    BY <1>1, <1>2, <1>3, <1>4, <1>5, <1>6, NextCases DEF Moving

LEMMA InitRInv == Init => RInv
  <1> SUFFICES ASSUME Init PROVE RInv
    OBVIOUS
  <1>1. CheckedForRepeats
    BY DEF Init, CheckedForRepeats, Deciding
  <1>2. ASSUME NEW s \in Screens, NEW a \in Actions
        PROVE  Cardinality(RanOn(s, a)) <= MaxRepeated
    <2>1. RanOn(s, a) = {}
      BY DEF Init, RanOn
    <2> QED
      BY <2>1, FS_EmptySet, ControllerAssumption
  <1> QED
    BY <1>1, <1>2 DEF RInv, RepeatsAreBounded, RanOn

LEMMA StepRInv == IInv /\ RInv /\ [Next]_vars => RInv'
  <1> SUFFICES ASSUME IInv, RInv, [Next]_vars PROVE RInv'
    OBVIOUS
  <1>1. CheckedForRepeats'
    BY StepKeepsCheck
  <1>2. RepeatsAreBounded'
    <2>1. CASE Executed \/ TransportFailed
      BY <2>1, ReportKeepsBound
    <2>2. CASE ~(Executed \/ TransportFailed)
      BY <2>2, OthersLetNothingRun, NothingRanKeepsBound DEF RInv
    <2> QED
      BY <2>1, <2>2
  <1> QED
    BY <1>1, <1>2 DEF RInv

\* On one screen no action runs more often than max_repeated_actions, however
\* the session recovers, re-plans, waits or drops plans in between.
THEOREM RepeatsBounded == Spec => []RepeatsAreBounded
  <1>1. RInv => RepeatsAreBounded
    BY DEF RInv
  <1> QED
    BY <1>1, InitRInv, StepRInv, SessionInvariant, PTL DEF Spec

-----------------------------------------------------------------------------
\* What the session may run, and what its history says of it.

\* A step that may be sent: not in a dry run, allowed or approved, and approved
\* by the user where --approval-mode every asks for it.
Authorised(i) ==
    /\ ~options.dryRun
    /\ history[i].decision = "allow" \/ history[i].approved
    /\ (options.every /\ history[i].action \in HidActions) => history[i].approved

\* From the confirmation on the proposal is authorised; before it, --approval-mode
\* every has turned each "allow" of a HID action into "approval".
AuthorisedInTime ==
    /\ pc \in {"approval", "confirm", "guard", "execute", "sent", "settle"} => ~options.dryRun
    /\ pc \in {"decided", "approval"} /\ options.every /\ Last.action \in HidActions
          => Last.decision # "allow"
    /\ pc \in {"confirm", "guard", "execute", "sent", "settle"} => Authorised(Len(history))

\* Only a step that ran is ever judged.
OnlyRunsAreJudged ==
    /\ previous \/ pc = "settle" => Ran(Len(history))
    /\ \A i \in DOMAIN history : history[i].verdict # None => Ran(i)

SInv ==
    /\ AuthorisedInTime
    /\ OnlyRunsAreJudged
    /\ RunsAreAuthorised
    /\ HistoryTellsWhatWasSent
    /\ DeliberateEndsAreJudged

LEMMA InitSInv == Init => SInv
  BY ControllerAssumption
  DEF Init, SInv, AuthorisedInTime, OnlyRunsAreJudged, RunsAreAuthorised,
      HistoryTellsWhatWasSent, DeliberateEndsAreJudged

\* Only the user ends a session while input is on its way, and no end the
\* session decides on comes where an action may still be unjudged.
LEMMA QuittingInTime ==
    ASSUME Quitting
    PROVE  /\ pc = "sent" => result'.status = "interrupted"
           /\ result'.code \in Deliberate => pc \notin {"loop", "reobserve", "settle", "done"}
  <1> USE DEF Finish, Deliberate
  <1>1. CASE RuntimeLimit \/ VerificationMissing \/ StepLimit \/ UnsafeScreen
    BY <1>1 DEF RuntimeLimit, VerificationMissing, StepLimit, UnsafeScreen
  <1>2. CASE RepeatRefused \/ LowConfidence \/ Completed \/ AssistanceRequested
    BY <1>2 DEF RepeatRefused, LowConfidence, Completed, AssistanceRequested
  <1>3. CASE Denied \/ Stuck \/ DryRun \/ ApprovalDenied \/ StepCancelled
    BY <1>3 DEF Denied, Stuck, DryRun, ApprovalDenied, StepCancelled
  <1>4. CASE NoScreenChange \/ Raises \/ Interrupted
    BY <1>4 DEF NoScreenChange, Raises, Raising, Interrupted
  <1> QED
    BY <1>1, <1>2, <1>3, <1>4 DEF Quitting

LEMMA QuittingKeepsSInv ==
    ASSUME IInv, SInv, Quitting
    PROVE  SInv'
  <1>1. /\ pc # "done" /\ pc' = "done"
        /\ UNCHANGED <<options, history, previous, reached>>
    BY QuittingQuits DEF Quits, ladder
  <1>2. AuthorisedInTime'
    BY <1>1 DEF AuthorisedInTime
  <1>3. OnlyRunsAreJudged'
    BY <1>1 DEF SInv, OnlyRunsAreJudged, Ran
  <1>4. RunsAreAuthorised'
    BY <1>1 DEF SInv, RunsAreAuthorised, Ran
  <1>5. HistoryTellsWhatWasSent'
    BY <1>1, QuittingInTime DEF SInv, HistoryTellsWhatWasSent, Ran
  <1>6. DeliberateEndsAreJudged'
    BY <1>1, QuittingInTime DEF IInv, Judged, DeliberateEndsAreJudged, Ran
  <1> QED
    BY <1>2, <1>3, <1>4, <1>5, <1>6 DEF SInv

LEMMA MovingKeepsSInv ==
    ASSUME IInv, SInv, Moving
    PROVE  SInv'
  <1>1. /\ UNCHANGED <<options, history, previous, reached>>
        /\ pc \notin {"sent", "settle", "done"} /\ pc' \notin {"sent", "settle", "done"}
    BY DEF Moving, FirstCapture, ObserveFirst, Recapture, Plan, Proceed, Confirmed,
           GuardAllows, GuardCancels, keepLadder, Goto, ladder
  <1>2. AuthorisedInTime'
    <2>1. CASE Proceed
      <3>1. Last.decision \in Decisions /\ history # <<>>
        <4>1. history \in Seq(Steps) /\ history # <<>>
          BY <2>1 DEF IInv, TypeOK, LastIsProposal, Deciding, Proceed
        <4>2. Len(history) \in DOMAIN history
          BY <4>1
        <4>3. history[Len(history)] \in Steps
          BY <4>1, <4>2
        <4> QED
          BY <4>1, <4>3 DEF Last, Steps
      <3>2. ~options.dryRun /\ Last.decision \in {"allow", "approval"}
        BY <2>1, <3>1 DEF Proceed, Decisions
      <3>3. CASE Last.decision = "approval"
        <4>1. pc' = "approval"
          BY <2>1, <3>3 DEF Proceed, Goto
        <4> QED
          BY <4>1, <3>2, <3>3, <1>1 DEF AuthorisedInTime, Last
      <3>4. CASE Last.decision = "allow"
        <4>1. pc = "decided" /\ pc' = "confirm"
          BY <2>1, <3>4 DEF Proceed, Goto
        <4>2. Authorised(Len(history))
          BY <4>1, <3>2, <3>4 DEF SInv, AuthorisedInTime, Authorised, Last
        <4> QED
          BY <4>1, <4>2, <3>2, <1>1 DEF AuthorisedInTime, Authorised
      <3> QED
        BY <3>2, <3>3, <3>4
    <2>2. CASE Confirmed \/ GuardAllows
      <3>1. pc \in {"confirm", "guard"} /\ pc' \in {"guard", "execute"}
        BY <2>2 DEF Confirmed, GuardAllows, Goto
      <3> QED
        BY <3>1, <1>1 DEF SInv, AuthorisedInTime, Authorised
    <2>3. CASE FirstCapture \/ ObserveFirst \/ Recapture \/ Plan \/ GuardCancels
      BY <2>3
      DEF FirstCapture, ObserveFirst, Recapture, Plan, GuardCancels, Goto, AuthorisedInTime
    <2> QED
      BY <2>1, <2>2, <2>3 DEF Moving
  <1>3. OnlyRunsAreJudged' /\ RunsAreAuthorised'
    BY <1>1 DEF SInv, OnlyRunsAreJudged, RunsAreAuthorised, Ran
  <1>4. HistoryTellsWhatWasSent' /\ DeliberateEndsAreJudged'
    BY <1>1 DEF SInv, HistoryTellsWhatWasSent, DeliberateEndsAreJudged, Ran
  <1> QED
    BY <1>2, <1>3, <1>4 DEF SInv

\* A verdict is written on a step that ran.
LEMMA JudgingKeepsSInv ==
    ASSUME IInv, SInv, Reobserve \/ RecoveriesExhausted \/ Recover \/ Verified
    PROVE  SInv'
  <1>1. PICK v \in Verdicts : Stamp("verdict", v)
    BY DEF Reobserve, RecoveriesExhausted, Recover, Verified, Verdicts
  <1>2. pc = "loop" /\ previous /\ history # <<>> /\ history \in Seq(Steps)
    BY DEF Reobserve, RecoveriesExhausted, Recover, Verified, IInv, Judged, TypeOK
  <1>3. /\ Len(history') = Len(history) /\ DOMAIN history' = DOMAIN history
        /\ \A i \in DOMAIN history :
              /\ i # Len(history) => history'[i] = history[i]
              /\ history'[i].action = history[i].action
              /\ history'[i].run = history[i].run
              /\ history'[i].decision = history[i].decision
              /\ history'[i].approved = history[i].approved
        /\ history'[Len(history)].verdict = v
    BY <1>1, <1>2, StampVerdict
  <1>4. /\ pc' \in {"reobserve", "observed", "done"} /\ UNCHANGED <<options, reached>>
        /\ previous' => previous
    BY <1>2 DEF Reobserve, RecoveriesExhausted, Recover, Verified, Goto, Finish, keepLadder,
                ladder
  <1>5. Ran(Len(history)) /\ Len(history) \in DOMAIN history
    BY <1>2 DEF SInv, OnlyRunsAreJudged
  <1>6. AuthorisedInTime'
    BY <1>4 DEF AuthorisedInTime
  <1>7. OnlyRunsAreJudged'
    BY <1>2, <1>3, <1>4, <1>5 DEF SInv, OnlyRunsAreJudged, Ran
  <1>8. RunsAreAuthorised'
    BY <1>3, <1>4 DEF SInv, RunsAreAuthorised, Ran
  <1>9. HistoryTellsWhatWasSent'
    <2>1. \A i \in reached : Ran(i) /\ i \in DOMAIN history
      BY <1>2 DEF IInv, TypeOK, SInv, HistoryTellsWhatWasSent
    <2>2. \A i \in reached' : Ran(i)'
      BY <2>1, <1>3, <1>4 DEF Ran
    <2> QED
      BY <2>2 DEF HistoryTellsWhatWasSent
  <1>10. DeliberateEndsAreJudged'
    <2>1. \A i \in DOMAIN history' : Ran(i)' => history'[i].verdict # None
      BY <1>2, <1>3, ControllerAssumption DEF IInv, Judged, Ran
    <2> QED
      BY <2>1 DEF DeliberateEndsAreJudged
  <1> QED
    BY <1>6, <1>7, <1>8, <1>9, <1>10 DEF SInv

\* The fields a decision gives the new step.
LEMMA DecideDecides ==
    ASSUME IInv, Decide
    PROVE  options.every /\ history'[Len(history')].action \in HidActions
              => history'[Len(history')].decision # "allow"
  <1>1. PICK d \in Decisions : history' = Append(history, Step(current, proposal, Decision(d)))
    BY DEF Decide, Decisions
  <1>2. history \in Seq(Steps)
    BY DEF IInv, TypeOK
  <1> DEFINE e == Step(current, proposal, Decision(d))
  <1>3. e.action = proposal /\ e.decision = Decision(d)
    BY DEF Step
  <1>4. history' = Append(history, e)
    BY <1>1
  <1> HIDE DEF e
  <1>5. history'[Len(history')] = e
    BY <1>2, <1>4
  <1> QED
    BY <1>3, <1>5 DEF Decision

LEMMA DecideKeepsSInv ==
    ASSUME IInv, SInv, Decide
    PROVE  SInv'
  <1>1. /\ Len(history') = Len(history) + 1
        /\ DOMAIN history' = DOMAIN history \cup {Len(history) + 1}
        /\ \A i \in DOMAIN history : history'[i] = history[i]
        /\ history'[Len(history')].run = None
        /\ history'[Len(history')].verdict = None
    BY DecideAppends
  <1>2. /\ pc = "planned" /\ pc' = "decided" /\ Len(history) \in Nat
        /\ UNCHANGED <<options, reached, previous>> /\ ~previous
        /\ reached \subseteq DOMAIN history
    BY DEF IInv, TypeOK, Judged, Decide, Goto, keepLadder, ladder
  <1>3. AuthorisedInTime'
    BY <1>2, DecideDecides DEF AuthorisedInTime, Last
  <1>4. OnlyRunsAreJudged'
    BY <1>1, <1>2 DEF SInv, OnlyRunsAreJudged, Ran
  <1>5. RunsAreAuthorised'
    BY <1>1, <1>2 DEF SInv, RunsAreAuthorised, Ran
  <1>6. HistoryTellsWhatWasSent' /\ DeliberateEndsAreJudged'
    BY <1>1, <1>2 DEF SInv, HistoryTellsWhatWasSent, DeliberateEndsAreJudged, Ran
  <1> QED
    BY <1>3, <1>4, <1>5, <1>6 DEF SInv

LEMMA ApprovedKeepsSInv ==
    ASSUME IInv, SInv, Approved
    PROVE  SInv'
  <1>1. /\ pc = "approval" /\ pc' = "confirm" /\ history # <<>> /\ history \in Seq(Steps)
        /\ UNCHANGED <<options, reached, previous>> /\ ~previous
        /\ ~Ran(Len(history)) /\ Len(history) \notin reached
    BY DEF IInv, TypeOK, Judged, LastIsProposal, Deciding, Approved, Goto, keepLadder, ladder
  <1>2. /\ Len(history') = Len(history) /\ DOMAIN history' = DOMAIN history
        /\ \A i \in DOMAIN history :
              /\ i # Len(history) => history'[i] = history[i]
              /\ history'[i].run = history[i].run
              /\ history'[i].verdict = history[i].verdict
        /\ history'[Len(history)].approved = TRUE
    BY <1>1, StampApproved DEF Approved
  <1>3. AuthorisedInTime'
    BY <1>1, <1>2 DEF SInv, AuthorisedInTime, Authorised
  <1>4. OnlyRunsAreJudged'
    BY <1>1, <1>2 DEF SInv, OnlyRunsAreJudged, Ran
  <1>5. RunsAreAuthorised'
    BY <1>1, <1>2 DEF SInv, RunsAreAuthorised, Ran
  <1>6. HistoryTellsWhatWasSent'
    <2>1. \A i \in reached : Ran(i) /\ i \in DOMAIN history
      BY <1>1 DEF IInv, TypeOK, SInv, HistoryTellsWhatWasSent
    <2> QED
      BY <2>1, <1>1, <1>2 DEF HistoryTellsWhatWasSent, Ran
  <1>7. DeliberateEndsAreJudged'
    BY <1>1 DEF DeliberateEndsAreJudged
  <1> QED
    BY <1>3, <1>4, <1>5, <1>6, <1>7 DEF SInv

\* The input is sent for an authorised step only.
LEMMA SendKeepsSInv ==
    ASSUME IInv, SInv, Send
    PROVE  SInv'
  <1>1. /\ pc = "execute" /\ pc' = "sent" /\ UNCHANGED <<options, history, previous>>
        /\ reached' \subseteq reached \cup {Len(history)} /\ ~previous
    BY DEF IInv, Judged, Send, Goto, ladder
  <1>2. Authorised(Len(history))
    BY <1>1 DEF SInv, AuthorisedInTime
  <1>3. AuthorisedInTime'
    BY <1>1, <1>2 DEF AuthorisedInTime, Authorised
  <1>4. OnlyRunsAreJudged'
    BY <1>1 DEF SInv, OnlyRunsAreJudged, Ran
  <1>5. RunsAreAuthorised'
    BY <1>1, <1>2 DEF SInv, RunsAreAuthorised, Authorised, Ran
  <1>6. HistoryTellsWhatWasSent' /\ DeliberateEndsAreJudged'
    BY <1>1 DEF SInv, HistoryTellsWhatWasSent, DeliberateEndsAreJudged, Ran
  <1> QED
    BY <1>3, <1>4, <1>5, <1>6 DEF SInv

\* The report marks the step whose input was on its way as run.
LEMMA ReportKeepsSInv ==
    ASSUME IInv, SInv, Executed \/ TransportFailed
    PROVE  SInv'
  <1>1. PICK t \in Transports : Stamp("run", t)
    BY DEF Executed, TransportFailed, Transports
  <1>2. pc = "sent" /\ history # <<>> /\ history \in Seq(Steps) /\ ~previous
    BY DEF IInv, TypeOK, LastIsProposal, Judged, Deciding, Executed, TransportFailed
  <1>3. /\ Len(history') = Len(history) /\ DOMAIN history' = DOMAIN history
        /\ \A i \in DOMAIN history :
              /\ i # Len(history) => history'[i] = history[i]
              /\ history'[i].action = history[i].action
              /\ history'[i].verdict = history[i].verdict
              /\ history'[i].decision = history[i].decision
              /\ history'[i].approved = history[i].approved
        /\ history'[Len(history)].run = t
    BY <1>1, <1>2, StampRun
  <1>4. /\ UNCHANGED <<options, previous, reached>> /\ Len(history) \in DOMAIN history
        /\ pc' \in {"settle", "done"}
        /\ pc' = "done" => result'.code = "transport_failed"
    BY <1>2 DEF Executed, TransportFailed, Goto, Finish, ladder
  <1>5. ~options.dryRun /\ Authorised(Len(history))
    BY <1>2 DEF SInv, AuthorisedInTime
  <1>6. AuthorisedInTime'
    BY <1>3, <1>4, <1>5 DEF AuthorisedInTime, Authorised
  <1>7. OnlyRunsAreJudged'
    BY <1>2, <1>3, <1>4, ControllerAssumption DEF SInv, OnlyRunsAreJudged, Ran
  <1>8. RunsAreAuthorised'
    BY <1>3, <1>4, <1>5 DEF SInv, RunsAreAuthorised, Authorised, Ran
  <1>9. HistoryTellsWhatWasSent'
    <2>1. reached \subseteq DOMAIN history
      BY DEF IInv, TypeOK
    <2> QED
      BY <2>1, <1>2, <1>3, <1>4, ControllerAssumption DEF SInv, HistoryTellsWhatWasSent, Ran
  <1>10. DeliberateEndsAreJudged'
    BY <1>4 DEF DeliberateEndsAreJudged, Deliberate
  <1> QED
    BY <1>6, <1>7, <1>8, <1>9, <1>10 DEF SInv

LEMMA SettledKeepsSInv ==
    ASSUME IInv, SInv, Settled
    PROVE  SInv'
  <1>1. pc = "settle" /\ pc' = "loop" /\ UNCHANGED <<options, history, reached>>
    BY DEF Settled, Goto
  <1>2. AuthorisedInTime' /\ DeliberateEndsAreJudged'
    BY <1>1 DEF AuthorisedInTime, DeliberateEndsAreJudged
  <1>3. OnlyRunsAreJudged' /\ RunsAreAuthorised' /\ HistoryTellsWhatWasSent'
    BY <1>1 DEF SInv, OnlyRunsAreJudged, RunsAreAuthorised, HistoryTellsWhatWasSent, Ran
  <1> QED
    BY <1>2, <1>3 DEF SInv

LEMMA StepSInv == IInv /\ SInv /\ [Next]_vars => SInv'
  <1> SUFFICES ASSUME IInv, SInv, [Next]_vars PROVE SInv'
    OBVIOUS
  <1>1. CASE Quitting
    BY <1>1, QuittingKeepsSInv
  <1>2. CASE Moving
    BY <1>2, MovingKeepsSInv
  <1>3. CASE Writing
    BY <1>3, JudgingKeepsSInv, DecideKeepsSInv, ApprovedKeepsSInv, SendKeepsSInv,
       ReportKeepsSInv, SettledKeepsSInv DEF Writing
  <1>4. CASE UNCHANGED vars
    BY <1>4 DEF vars, ladder, SInv, AuthorisedInTime, Authorised, OnlyRunsAreJudged,
                RunsAreAuthorised, HistoryTellsWhatWasSent, DeliberateEndsAreJudged, Last, Ran
  <1> QED
    BY <1>1, <1>2, <1>3, <1>4, NextCases

LEMMA SessionIsSound == Spec => []SInv
  BY InitSInv, StepSInv, SessionInvariant, PTL DEF Spec

\* Whatever ran, or may have reached the remote computer, was allowed or
\* approved by the user, never in a dry run, and approved in mode "every".
THEOREM RunsAreAuthorisedHolds == Spec => []RunsAreAuthorised
  <1>1. SInv => RunsAreAuthorised
    BY DEF SInv
  <1> QED
    BY <1>1, SessionIsSound, PTL

\* The session's history reports every input that may have been sent.
THEOREM HistoryTellsWhatWasSentHolds == Spec => []HistoryTellsWhatWasSent
  <1>1. SInv => HistoryTellsWhatWasSent
    BY DEF SInv
  <1> QED
    BY <1>1, SessionIsSound, PTL

\* A session that ends by its own decision leaves no action unjudged.
THEOREM DeliberateEndsAreJudgedHolds == Spec => []DeliberateEndsAreJudged
  <1>1. SInv => DeliberateEndsAreJudged
    BY DEF SInv
  <1> QED
    BY <1>1, SessionIsSound, PTL

-----------------------------------------------------------------------------
\* A judged step that was not confirmed is the one the session remembers, or
\* another action has been judged since.
Remembered ==
    \A i \in DOMAIN history :
        (NotConfirmed(i) /\ ~(previous /\ i = Len(history)))
            => (unverified = history[i].action \/ AnotherTried(i, Len(history) + 1))

BInv == Remembered /\ UnverifiedNotRepeatedBlindly

\* What a step may do to the history without undoing a run or its verdict.
KeepsRuns ==
    /\ DOMAIN history \subseteq DOMAIN history'
    /\ \A i \in DOMAIN history :
          /\ history'[i].action = history[i].action
          /\ Ran(i) => Ran(i)'
          /\ history[i].verdict # None => history'[i].verdict # None

LEMMA TriedStaysTried ==
    ASSUME KeepsRuns, NEW i \in DOMAIN history, NEW j, NEW m,
           AnotherTried(i, j), \A k \in DOMAIN history : k < j => k < m
    PROVE  AnotherTried(i, m)'
  <1>1. PICK k \in DOMAIN history :
            /\ i < k /\ k < j /\ Ran(k) /\ history[k].verdict # None
            /\ history[k].action # history[i].action
    BY DEF AnotherTried
  <1>2. /\ k \in DOMAIN history' /\ i < k /\ k < m /\ Ran(k)' /\ history'[k].verdict # None
        /\ history'[k].action # history'[i].action
    BY <1>1 DEF KeepsRuns
  <1> QED
    BY <1>2 DEF AnotherTried

\* A step that adds nothing to the history and finds no new step unconfirmed.
LEMMA NothingNewUnconfirmed ==
    ASSUME BInv, KeepsRuns, DOMAIN history' = DOMAIN history, Len(history') = Len(history),
           \A i \in DOMAIN history : NotConfirmed(i)' => NotConfirmed(i),
           unverified' = unverified, previous => previous'
    PROVE  BInv'
  <1>1. ASSUME NEW i \in DOMAIN history, NEW j, AnotherTried(i, j)
        PROVE  AnotherTried(i, j)'
    <2>1. \A k \in DOMAIN history : k < j => k < j
      OBVIOUS
    <2> QED
      BY <1>1, <2>1, TriedStaysTried
  <1>2. UnverifiedNotRepeatedBlindly'
    BY <1>1 DEF BInv, UnverifiedNotRepeatedBlindly, KeepsRuns
  <1>3. Remembered'
    <2> SUFFICES ASSUME NEW i \in DOMAIN history, NotConfirmed(i)',
                        ~(previous' /\ i = Len(history))
                 PROVE  unverified' = history'[i].action \/ AnotherTried(i, Len(history) + 1)'
      BY DEF Remembered
    <2>1. unverified = history[i].action \/ AnotherTried(i, Len(history) + 1)
      BY DEF BInv, Remembered
    <2> QED
      BY <2>1, <1>1 DEF KeepsRuns
  <1> QED
    BY <1>2, <1>3 DEF BInv

\* A verdict is only written on the last step: what the session remembered of
\* the steps before it, it remembers or has tried another action since.
LEMMA JudgingKeepsBInv ==
    ASSUME IInv, SInv, BInv, Reobserve \/ RecoveriesExhausted \/ Recover \/ Verified
    PROVE  BInv'
  <1>0. PICK n : n = Len(history)
    OBVIOUS
  <1>1. PICK v \in Verdicts :
            /\ Stamp("verdict", v)
            /\ Verified => v = "success"
    BY DEF Reobserve, RecoveriesExhausted, Recover, Verified, Verdicts
  <1>2. pc = "loop" /\ previous /\ history # <<>> /\ history \in Seq(Steps)
    BY DEF Reobserve, RecoveriesExhausted, Recover, Verified, IInv, Judged, TypeOK
  <1>3. /\ Len(history') = n /\ DOMAIN history' = DOMAIN history
        /\ \A i \in DOMAIN history :
              /\ i # n => history'[i] = history[i]
              /\ history'[i].action = history[i].action
              /\ history'[i].run = history[i].run
        /\ history'[n].verdict = v
    BY <1>0, <1>1, <1>2, StampVerdict
  <1>4. Ran(n) /\ n \in DOMAIN history /\ n \in Nat /\ DOMAIN history = 1..n
    BY <1>0, <1>2 DEF SInv, OnlyRunsAreJudged
  <1>5. v # None
    BY <1>1, ControllerAssumption
  <1>6. KeepsRuns
    BY <1>3, <1>4, <1>5 DEF KeepsRuns, Ran
  <1>7. ASSUME NEW i \in DOMAIN history, NEW j, AnotherTried(i, j)
        PROVE  AnotherTried(i, j)'
    <2>1. \A k \in DOMAIN history : k < j => k < j
      OBVIOUS
    <2> QED
      BY <1>6, <1>7, <2>1, TriedStaysTried
  <1>8. UnverifiedNotRepeatedBlindly'
    <2> SUFFICES ASSUME NEW i \in DOMAIN history, NEW j \in DOMAIN history, i < j,
                        NotConfirmed(i)', history'[j].action = history'[i].action
                 PROVE  AnotherTried(i, j)'
      BY <1>3 DEF UnverifiedNotRepeatedBlindly
    <2>1. i # n
      BY <1>4
    <2>2. NotConfirmed(i) /\ history[j].action = history[i].action
      BY <1>3, <2>1 DEF NotConfirmed
    <2> QED
      BY <1>7, <2>2 DEF BInv, UnverifiedNotRepeatedBlindly
  <1>9. ASSUME NEW i \in DOMAIN history, i # n, NotConfirmed(i)'
        PROVE  AnotherTried(i, n + 1)' \/ (unverified = history[i].action
                                          /\ history[n].action = history[i].action)
    <2>1. NotConfirmed(i)
      BY <1>3, <1>9 DEF NotConfirmed
    <2>2. CASE history[n].action = history[i].action
      <3>1. AnotherTried(i, n)
        BY <1>4, <1>9, <2>1, <2>2 DEF BInv, UnverifiedNotRepeatedBlindly
      <3>2. \A k \in DOMAIN history : k < n => k < n + 1
        BY <1>4
      <3> QED
        BY <1>6, <3>1, <3>2, <1>9, TriedStaysTried
    <2>3. CASE history[n].action # history[i].action
      <3>1. i < n /\ n < n + 1 /\ n \in DOMAIN history'
        BY <1>3, <1>4, <1>9
      <3>2. Ran(n)' /\ history'[n].verdict # None /\ history'[n].action # history'[i].action
        BY <1>3, <1>4, <1>5, <2>3 DEF Ran
      <3> QED
        BY <3>1, <3>2 DEF AnotherTried
    <2> QED
      BY <2>2, <2>3
  <1>10. Remembered'
    <2> SUFFICES ASSUME NEW i \in DOMAIN history, NotConfirmed(i)', ~(previous' /\ i = n)
                 PROVE  unverified' = history'[i].action \/ AnotherTried(i, n + 1)'
      BY <1>3, <1>0 DEF Remembered
    <2>1. CASE i # n
      <3>1. AnotherTried(i, n + 1)' \/ (unverified = history[i].action
                                       /\ history[n].action = history[i].action)
        BY <1>9, <2>1
      <3>2. CASE AnotherTried(i, n + 1)'
        BY <3>2
      <3>3. CASE history[n].action = history[i].action
        <4>1. NotConfirmed(i)
          BY <1>3, <2>1 DEF NotConfirmed
        <4>2. AnotherTried(i, n)
          BY <1>4, <2>1, <3>3, <4>1 DEF BInv, UnverifiedNotRepeatedBlindly
        <4>3. \A k \in DOMAIN history : k < n => k < n + 1
          BY <1>4
        <4> QED
          BY <1>6, <4>2, <4>3, TriedStaysTried
      <3> QED
        BY <3>1, <3>2, <3>3
    <2>2. CASE i = n
      <3>1. v # "success"
        BY <2>2, <1>3 DEF NotConfirmed
      <3>2. ~Verified /\ previous' = FALSE
        BY <1>1, <1>2, <2>2, <3>1
        DEF Reobserve, RecoveriesExhausted, Recover, Verified, keepLadder, ladder, IInv, TypeOK
      <3>3. Recover
        BY <1>2, <3>2 DEF Reobserve, RecoveriesExhausted, keepLadder, ladder
      <3> QED
        BY <1>0, <1>3, <2>2, <3>3 DEF Recover, Last
    <2> QED
      BY <2>1, <2>2
  <1> QED
    BY <1>8, <1>10 DEF BInv

\* The check before the decision refuses the remembered action.
LEMMA DecideKeepsBInv ==
    ASSUME IInv, SInv, BInv, Decide
    PROVE  BInv'
  <1>0. PICK n : n = Len(history)
    OBVIOUS
  <1>1. /\ Len(history') = n + 1 /\ n \in Nat
        /\ DOMAIN history' = DOMAIN history \cup {n + 1} /\ DOMAIN history = 1..n
        /\ \A i \in DOMAIN history : history'[i] = history[i]
        /\ history'[n + 1].action = proposal
        /\ history'[n + 1].verdict = None
    BY <1>0, DecideAppends DEF IInv, TypeOK
  <1>2. /\ ~previous /\ previous' = previous /\ unverified' = unverified
        /\ ~RepeatsUnverified
    BY DEF IInv, TypeOK, Judged, Decide, Goto, keepLadder, ladder
  <1>3. KeepsRuns
    BY <1>1 DEF KeepsRuns, Ran
  <1>4. ~NotConfirmed(n + 1)'
    BY <1>1, ControllerAssumption DEF NotConfirmed, Verdicts
  <1>5. ASSUME NEW i \in DOMAIN history, NEW j, NEW m, AnotherTried(i, j),
               \A k \in DOMAIN history : k < j => k < m
        PROVE  AnotherTried(i, m)'
    BY <1>3, <1>5, TriedStaysTried
  <1>6. ASSUME NEW i \in DOMAIN history, NotConfirmed(i)'
        PROVE  NotConfirmed(i) /\ (unverified = history[i].action \/ AnotherTried(i, n + 1))
    <2>1. NotConfirmed(i)
      BY <1>1, <1>6 DEF NotConfirmed
    <2> QED
      BY <1>0, <1>2, <2>1 DEF BInv, Remembered
  <1>7. UnverifiedNotRepeatedBlindly'
    <2> SUFFICES ASSUME NEW i \in DOMAIN history', NEW j \in DOMAIN history', i < j,
                        NotConfirmed(i)', history'[j].action = history'[i].action
                 PROVE  AnotherTried(i, j)'
      BY DEF UnverifiedNotRepeatedBlindly
    <2>1. i \in DOMAIN history
      BY <1>1, <1>4
    <2>2. CASE j \in DOMAIN history
      <3>1. AnotherTried(i, j)
        BY <1>1, <1>6, <2>1, <2>2 DEF BInv, UnverifiedNotRepeatedBlindly
      <3>2. \A k \in DOMAIN history : k < j => k < j
        OBVIOUS
      <3> QED
        BY <1>5, <2>1, <3>1, <3>2
    <2>3. CASE j = n + 1
      <3>1. history[i].action = proposal /\ proposal \in HidActions
        BY <1>1, <1>6, <2>1, <2>3 DEF NotConfirmed
      <3>2. AnotherTried(i, n + 1)
        BY <1>2, <1>6, <2>1, <3>1 DEF RepeatsUnverified
      <3>3. \A k \in DOMAIN history : k < n + 1 => k < n + 1
        OBVIOUS
      <3> QED
        BY <1>5, <2>1, <2>3, <3>2, <3>3
    <2> QED
      BY <1>1, <2>2, <2>3
  <1>8. Remembered'
    <2> SUFFICES ASSUME NEW i \in DOMAIN history', NotConfirmed(i)'
                 PROVE  unverified' = history'[i].action \/ AnotherTried(i, n + 1 + 1)'
      BY <1>1 DEF Remembered
    <2>1. i \in DOMAIN history
      BY <1>1, <1>4
    <2>2. \A k \in DOMAIN history : k < n + 1 => k < n + 1 + 1
      BY <1>1
    <2> QED
      BY <1>1, <1>2, <1>5, <1>6, <2>1, <2>2
  <1> QED
    BY <1>7, <1>8 DEF BInv

\* An approval and a report of the executor write on a step that has no verdict.
LEMMA WritingKeepsBInv ==
    ASSUME IInv, BInv, Approved \/ Executed \/ TransportFailed
    PROVE  BInv'
  <1>1. history # <<>> /\ history \in Seq(Steps)
    BY DEF IInv, TypeOK, LastIsProposal, Deciding, Approved, Executed, TransportFailed
  <1>2. UNCHANGED <<previous, unverified>>
    BY DEF Approved, Executed, TransportFailed, keepLadder, ladder
  <1>3. CASE Approved
    <2>1. Stamp("approved", TRUE)
      BY <1>3 DEF Approved
    <2>2. KeepsRuns /\ DOMAIN history' = DOMAIN history /\ Len(history') = Len(history)
          /\ \A i \in DOMAIN history : NotConfirmed(i)' => NotConfirmed(i)
      BY <1>1, <2>1, StampApproved DEF KeepsRuns, NotConfirmed, Ran
    <2> QED
      BY <1>2, <2>2, NothingNewUnconfirmed
  <1>4. CASE Executed \/ TransportFailed
    <2>1. PICK t \in Transports : Stamp("run", t)
      BY <1>4 DEF Executed, TransportFailed, Transports
    <2>2. t # None
      BY ControllerAssumption
    <2>3. KeepsRuns /\ DOMAIN history' = DOMAIN history /\ Len(history') = Len(history)
          /\ \A i \in DOMAIN history : NotConfirmed(i)' => NotConfirmed(i)
      BY <1>1, <2>1, <2>2, StampRun DEF KeepsRuns, NotConfirmed, Ran
    <2> QED
      BY <1>2, <2>3, NothingNewUnconfirmed
  <1> QED
    BY <1>3, <1>4

LEMMA InitBInv == Init => BInv
  BY DEF Init, BInv, Remembered, UnverifiedNotRepeatedBlindly

LEMMA StepBInv == IInv /\ SInv /\ BInv /\ [Next]_vars => BInv'
  <1> SUFFICES ASSUME IInv, SInv, BInv, [Next]_vars PROVE BInv'
    OBVIOUS
  <1>1. ASSUME UNCHANGED <<history, unverified>>, previous => previous'
        PROVE  BInv'
    <2>1. KeepsRuns /\ \A i \in DOMAIN history : NotConfirmed(i)' => NotConfirmed(i)
      BY <1>1 DEF KeepsRuns, NotConfirmed, Ran
    <2> QED
      BY <1>1, <2>1, NothingNewUnconfirmed
  <1>2. CASE Quitting \/ UNCHANGED vars
    BY <1>1, <1>2, QuittingQuits DEF Quits, vars, ladder
  <1>3. CASE Moving
    BY <1>1, <1>3
    DEF Moving, FirstCapture, ObserveFirst, Recapture, Plan, Proceed, Confirmed, GuardAllows,
        GuardCancels, keepLadder, ladder
  <1>4. CASE Send \/ Settled
    BY <1>1, <1>4 DEF Send, Settled, AwaitVerification, ladder
  <1>5. CASE Writing /\ ~Send /\ ~Settled
    BY <1>5, JudgingKeepsBInv, DecideKeepsBInv, WritingKeepsBInv DEF Writing
  <1> QED
    BY <1>2, <1>3, <1>4, <1>5, NextCases DEF Writing

\* An action whose outcome was not verified is not taken up again, on whatever
\* screen, before another action has run and been judged: for every repeat
\* limit, however many plans are dropped and sessions recovered in between.
THEOREM UnverifiedIsNotRepeatedBlindly == Spec => []UnverifiedNotRepeatedBlindly
  <1>1. BInv => UnverifiedNotRepeatedBlindly
    BY DEF BInv
  <1> QED
    BY <1>1, InitBInv, StepBInv, SessionInvariant, SessionIsSound, PTL DEF Spec
=============================================================================
