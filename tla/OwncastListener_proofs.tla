------------------------ MODULE OwncastListener_proofs -------------------------
(***************************************************************************)
(* Proofs about OwncastListener, for every failure budget and all delays:  *)
(* its types, that it always has exactly one attempt going and that stop() *)
(* is final, when it is dormant, that its backoff is patient, and that it  *)
(* implements the safety part of ListenerContract.                         *)
(***************************************************************************)
EXTENDS OwncastListener, TLAPS

\* The inductive invariant, in parts.
Unstarted == ~started => /\ dial = "none" /\ ws = "none" /\ reconnectTimer = 0
                         /\ ~stopped /\ ~healthyTimer /\ ~dormant
TimerOfOpenSocket == healthyTimer => ws = "open"
CountsAgree == ~stopped => failures = misses
WaitsGrow ==
    ~stopped => /\ ~dormant => reconnectTimer <= reconnectDelay /\ lastWait <= reconnectDelay
                /\ reconnectTimer <= DormantInterval /\ lastWait <= DormantInterval
ListenerInv ==
    /\ Unstarted /\ OneAttempt /\ StopIsFinal /\ TimerOfOpenSocket
    /\ CountsAgree /\ DormancyExact /\ PatientBackoff /\ WaitsGrow

-----------------------------------------------------------------------------
(* Lemmas on the operators the actions are built from *)

\* Capped counting stays within the cap.
LEMMA CappedType ==
  \A n \in 0..MaxFailures : AtMost(n + 1, MaxFailures) \in 0..MaxFailures
  BY ListenerAssumption DEF AtMost

\* The backed-off delay grows and respects the cap.
LEMMA DoubledGrows ==
  \A d \in FirstDelay..MaxDelay : Doubled(d) \in FirstDelay..MaxDelay /\ d <= Doubled(d)
  BY ListenerAssumption DEF Doubled, AtMost

\* While the listener is not stopped and no timer is armed, scheduling counts
\* the failure, arms a wait no shorter than the last one, and keeps the types.
LEMMA Scheduled ==
  ASSUME TypeOK, NEW count \in BOOLEAN, ScheduleReconnect(count),
         ~stopped, reconnectTimer = 0, CountsAgree, DormancyExact, WaitsGrow
  PROVE  /\ failures' = IF count THEN AtMost(failures + 1, MaxFailures) ELSE failures
         /\ failures' \in 0..MaxFailures
         /\ dormant' \in BOOLEAN /\ (dormant' <=> dormant \/ failures' >= MaxFailures)
         /\ reconnectDelay' \in FirstDelay..MaxDelay
         /\ reconnectTimer' \in Nat \ {0} /\ reconnectTimer' >= lastWait
         /\ reconnectTimer' <= DormantInterval
         /\ ~dormant' => reconnectTimer' <= reconnectDelay' /\ lastWait <= reconnectDelay'
<1>1. failures' = IF count THEN AtMost(failures + 1, MaxFailures) ELSE failures
  BY DEF ScheduleReconnect
<1>2. failures' \in 0..MaxFailures
  BY <1>1, CappedType DEF TypeOK
<1>3. dormant' = (dormant \/ failures' >= MaxFailures)
  BY DEF ScheduleReconnect
<1>4. dormant' \in BOOLEAN /\ (dormant' <=> dormant \/ failures' >= MaxFailures)
  BY <1>3 DEF TypeOK
<1>5. reconnectDelay' = IF dormant' THEN reconnectDelay ELSE Doubled(reconnectDelay)
  BY DEF ScheduleReconnect
<1>6. reconnectTimer' = IF dormant' THEN DormantInterval ELSE reconnectDelay
  BY DEF ScheduleReconnect, Arm
<1>7. reconnectDelay \in FirstDelay..MaxDelay /\ lastWait \in Nat
  BY DEF TypeOK
<1>8. reconnectDelay' \in FirstDelay..MaxDelay
  BY <1>5, <1>7, DoubledGrows
<1>9. reconnectTimer' \in Nat \ {0} /\ reconnectTimer' <= DormantInterval
  BY <1>6, <1>7, ListenerAssumption
<1>10. lastWait <= DormantInterval /\ (~dormant => lastWait <= reconnectDelay)
  BY DEF WaitsGrow
<1>11. ~dormant' => ~dormant
  BY <1>4
<1>12. reconnectTimer' >= lastWait
  BY <1>6, <1>7, <1>10, <1>11, ListenerAssumption
<1>13. ~dormant' => reconnectTimer' <= reconnectDelay' /\ lastWait <= reconnectDelay'
  <2> SUFFICES ASSUME ~dormant'
               PROVE  reconnectTimer' <= reconnectDelay' /\ lastWait <= reconnectDelay'
    OBVIOUS
  <2>1. reconnectDelay' = Doubled(reconnectDelay) /\ reconnectTimer' = reconnectDelay
    BY <1>5, <1>6
  <2>2. reconnectDelay <= reconnectDelay'
    BY <1>7, <2>1, DoubledGrows
  <2> QED
    BY <1>7, <1>8, <1>10, <1>11, <2>1, <2>2, ListenerAssumption
<1> QED
  BY <1>1, <1>2, <1>4, <1>8, <1>9, <1>12, <1>13

-----------------------------------------------------------------------------
(* The invariant *)

\* The types and the invariant hold initially and are kept by every step.
LEMMA InvariantHolds == Spec => [](TypeOK /\ ListenerInv)
<1> USE DEF pace, history
<1>1. Init => TypeOK /\ ListenerInv
  <2> SUFFICES ASSUME Init PROVE TypeOK /\ ListenerInv
    OBVIOUS
  <2>1. 0 \in 0..MaxFailures /\ ~(0 >= MaxFailures) /\ FirstDelay \in FirstDelay..MaxDelay
    BY ListenerAssumption
  <2>2. TypeOK
    BY <2>1 DEF Init, TypeOK
  <2>3. Unstarted /\ OneAttempt /\ StopIsFinal /\ TimerOfOpenSocket /\ CountsAgree
    BY DEF Init, Unstarted, OneAttempt, StopIsFinal, TimerOfOpenSocket, CountsAgree
  <2>4. ~dormant /\ ~disabledSeen /\ misses = 0
    BY DEF Init
  <2>5. DormancyExact
    BY <2>1, <2>4 DEF DormancyExact
  <2>6. PatientBackoff /\ WaitsGrow
    BY ListenerAssumption DEF Init, PatientBackoff, WaitsGrow
  <2> QED
    BY <2>2, <2>3, <2>5, <2>6 DEF ListenerInv
<1>2. TypeOK /\ ListenerInv /\ [Next]_vars => TypeOK' /\ ListenerInv'
  <2> SUFFICES ASSUME TypeOK, ListenerInv, [Next]_vars PROVE TypeOK' /\ ListenerInv'
    OBVIOUS
  <2> USE DEF ListenerInv
  <2>1. CASE Start
    <3>1. TypeOK'
      BY <2>1 DEF Start, TypeOK
    <3> QED
      BY <2>1, <3>1 DEF Start, Unstarted, OneAttempt, StopIsFinal, TimerOfOpenSocket,
         CountsAgree, DormancyExact, PatientBackoff, WaitsGrow
  <2>2. CASE ConfigAnswers
    <3> PICK disabled \in BOOLEAN :
          IF disabled
          THEN /\ dial' = "none" /\ dormant' = TRUE
               /\ Arm(DormantInterval)
               /\ disabledSeen' = TRUE
               /\ UNCHANGED <<reconnectDelay, failures>>
          ELSE /\ dial' = IF stopped THEN "none" ELSE "register"
               /\ UNCHANGED <<pace, disabledSeen>>
      BY <2>2 DEF ConfigAnswers
    <3>1. /\ dial = "config"
          /\ UNCHANGED <<started, stopped, ws, provenHealthy, healthyTimer, reachable,
                         misses, lastWait>>
      BY <2>2 DEF ConfigAnswers
    <3>2. started /\ (~stopped => ws = "none" /\ reconnectTimer = 0)
      BY <3>1 DEF Unstarted, OneAttempt
    <3>3. CASE disabled
      <4>1. reconnectTimer' = IF stopped THEN reconnectTimer ELSE DormantInterval
        BY <3>2, <3>3 DEF Arm
      <4>2. TypeOK'
        BY <3>1, <3>3, <4>1, ListenerAssumption DEF TypeOK
      <4>3. ListenerInv'
        BY <3>1, <3>2, <3>3, <4>1, ListenerAssumption
           DEF TypeOK, Unstarted, OneAttempt, StopIsFinal, TimerOfOpenSocket,
               CountsAgree, DormancyExact, PatientBackoff, WaitsGrow
      <4> QED
        BY <4>2, <4>3
    <3>4. CASE ~disabled
      <4>1. TypeOK'
        BY <3>1, <3>4 DEF TypeOK
      <4>2. ListenerInv'
        BY <3>1, <3>2, <3>4 DEF Unstarted, OneAttempt, StopIsFinal, TimerOfOpenSocket,
           CountsAgree, DormancyExact, PatientBackoff, WaitsGrow
      <4> QED
        BY <4>1, <4>2
    <3> QED
      BY <3>3, <3>4
  <2>3. CASE Registered
    <3>1. TypeOK'
      BY <2>3 DEF Registered, TypeOK
    <3>2. ListenerInv'
      BY <2>3 DEF Registered, Unstarted, OneAttempt, StopIsFinal, TimerOfOpenSocket,
         CountsAgree, DormancyExact, PatientBackoff, WaitsGrow
    <3> QED
      BY <3>1, <3>2
  <2>4. CASE RegisterFails
    <3>1. /\ dial = "register" /\ dial' = "none" /\ ScheduleReconnect(TRUE) /\ CountMiss
          /\ UNCHANGED <<started, stopped, ws, provenHealthy, healthyTimer, reachable,
                         disabledSeen, lastWait>>
      BY <2>4 DEF RegisterFails
    <3>2. misses' = AtMost(misses + 1, MaxFailures) /\ misses' \in 0..MaxFailures
      BY <3>1, CappedType DEF CountMiss, TypeOK
    <3>3. CASE stopped
      <4>1. UNCHANGED pace
        BY <3>1, <3>3 DEF ScheduleReconnect
      <4>2. TypeOK'
        BY <3>1, <3>2, <4>1 DEF TypeOK
      <4> QED
        BY <3>1, <3>3, <4>1, <4>2 DEF Unstarted, OneAttempt, StopIsFinal, TimerOfOpenSocket,
           CountsAgree, DormancyExact, PatientBackoff, WaitsGrow
    <3>4. CASE ~stopped
      <4>1. started /\ ws = "none" /\ reconnectTimer = 0
        BY <3>1, <3>4 DEF Unstarted, OneAttempt
      <4>2. /\ failures' = AtMost(failures + 1, MaxFailures) /\ failures' \in 0..MaxFailures
            /\ dormant' \in BOOLEAN /\ (dormant' <=> dormant \/ failures' >= MaxFailures)
            /\ reconnectDelay' \in FirstDelay..MaxDelay
            /\ reconnectTimer' \in Nat \ {0} /\ reconnectTimer' >= lastWait
            /\ reconnectTimer' <= DormantInterval
            /\ ~dormant' => reconnectTimer' <= reconnectDelay' /\ lastWait <= reconnectDelay'
        BY <3>1, <3>4, <4>1, Scheduled
      <4>3. TypeOK'
        BY <3>1, <3>2, <4>2 DEF TypeOK
      <4>4. failures' = misses'
        BY <3>2, <3>4, <4>2 DEF CountsAgree
      <4>5. failures >= MaxFailures => failures' >= MaxFailures
        BY <4>2, ListenerAssumption DEF TypeOK, AtMost
      <4>6. DormancyExact'
        BY <3>1, <3>4, <4>2, <4>4, <4>5 DEF DormancyExact, CountsAgree
      <4> QED
        BY <3>1, <3>4, <4>1, <4>2, <4>3, <4>4, <4>6 DEF Unstarted, OneAttempt, StopIsFinal,
           TimerOfOpenSocket, CountsAgree, PatientBackoff, WaitsGrow
    <3> QED
      BY <3>3, <3>4
  <2>5. CASE Opens
    <3>1. ~stopped
      BY <2>5 DEF Opens, StopIsFinal
    <3>2. TypeOK'
      BY <2>5 DEF Opens, TypeOK
    <3> QED
      BY <2>5, <3>1, <3>2 DEF Opens, Unstarted, OneAttempt, StopIsFinal, TimerOfOpenSocket,
         CountsAgree, DormancyExact, PatientBackoff, WaitsGrow
  <2>6. CASE MarkHealthy
    <3>1. started /\ ~stopped /\ ws = "open" /\ reconnectTimer = 0
      BY <2>6 DEF MarkHealthy, TimerOfOpenSocket, StopIsFinal, OneAttempt, Unstarted
    <3>2. TypeOK'
      <4>1. 0 \in 0..MaxFailures /\ FirstDelay \in FirstDelay..MaxDelay /\ 0 \in Nat
        BY ListenerAssumption
      <4> QED
        BY <2>6, <4>1 DEF MarkHealthy, TypeOK
    <3>3. ListenerInv'
      BY <2>6, <3>1, ListenerAssumption DEF MarkHealthy, Unstarted, OneAttempt, StopIsFinal,
         TimerOfOpenSocket, CountsAgree, DormancyExact, PatientBackoff, WaitsGrow
    <3> QED
      BY <3>2, <3>3
  <2>7. CASE Closes
    <3>1. /\ ws # "none" /\ ws' = "none" /\ healthyTimer' = FALSE
          /\ ScheduleReconnect(~provenHealthy)
          /\ IF provenHealthy \/ stopped THEN UNCHANGED misses ELSE CountMiss
          /\ UNCHANGED <<started, stopped, dial, provenHealthy, reachable, disabledSeen, lastWait>>
      BY <2>7 DEF Closes
    <3>2. misses' \in 0..MaxFailures
      BY <3>1, CappedType DEF CountMiss, TypeOK
    <3>3. CASE stopped
      <4>1. UNCHANGED pace
        BY <3>1, <3>3 DEF ScheduleReconnect
      <4>2. TypeOK'
        BY <3>1, <3>2, <4>1 DEF TypeOK
      <4> QED
        BY <3>1, <3>3, <4>1, <4>2 DEF Unstarted, OneAttempt, StopIsFinal, TimerOfOpenSocket,
           CountsAgree, DormancyExact, PatientBackoff, WaitsGrow
    <3>4. CASE ~stopped
      <4>1. started /\ dial = "none" /\ reconnectTimer = 0
        BY <3>1, <3>4 DEF Unstarted, OneAttempt
      <4>2. provenHealthy \in BOOLEAN /\ (~provenHealthy) \in BOOLEAN
        BY DEF TypeOK
      <4>3. /\ failures' = IF ~provenHealthy THEN AtMost(failures + 1, MaxFailures) ELSE failures
            /\ failures' \in 0..MaxFailures
            /\ dormant' \in BOOLEAN /\ (dormant' <=> dormant \/ failures' >= MaxFailures)
            /\ reconnectDelay' \in FirstDelay..MaxDelay
            /\ reconnectTimer' \in Nat \ {0} /\ reconnectTimer' >= lastWait
            /\ reconnectTimer' <= DormantInterval
            /\ ~dormant' => reconnectTimer' <= reconnectDelay' /\ lastWait <= reconnectDelay'
        BY <3>1, <3>4, <4>1, <4>2, Scheduled
      <4>4. TypeOK'
        BY <3>1, <3>2, <4>3 DEF TypeOK
      <4>5. failures' = misses'
        BY <3>1, <3>4, <4>2, <4>3 DEF CountsAgree, CountMiss
      <4>6. failures >= MaxFailures => failures' >= MaxFailures
        BY <4>3, ListenerAssumption DEF TypeOK, AtMost
      <4>7. DormancyExact'
        BY <3>1, <3>4, <4>3, <4>5, <4>6 DEF DormancyExact, CountsAgree
      <4> QED
        BY <3>1, <3>4, <4>1, <4>3, <4>4, <4>5, <4>7 DEF Unstarted, OneAttempt, StopIsFinal,
           TimerOfOpenSocket, CountsAgree, PatientBackoff, WaitsGrow
    <3> QED
      BY <3>3, <3>4
  <2>8. CASE TimerFires
    <3>1. started /\ ~stopped /\ dial = "none" /\ ws = "none"
      BY <2>8 DEF TimerFires, Unstarted, StopIsFinal, OneAttempt
    <3>2. TypeOK'
      BY <2>8 DEF TimerFires, TypeOK
    <3>3. ListenerInv'
      BY <2>8, <3>1, ListenerAssumption DEF TimerFires, TypeOK, Unstarted, OneAttempt, StopIsFinal,
         TimerOfOpenSocket, CountsAgree, DormancyExact, PatientBackoff, WaitsGrow
    <3> QED
      BY <3>2, <3>3
  <2>9. CASE Stop
    <3>1. TypeOK'
      BY <2>9 DEF Stop, TypeOK
    <3> QED
      BY <2>9, <3>1 DEF Stop, Unstarted, OneAttempt, StopIsFinal, TimerOfOpenSocket,
         CountsAgree, DormancyExact, PatientBackoff, WaitsGrow
  <2>10. CASE ReachabilityTurns
    <3>1. TypeOK'
      BY <2>10 DEF ReachabilityTurns, TypeOK
    <3> QED
      BY <2>10, <3>1 DEF ReachabilityTurns, Unstarted, OneAttempt, StopIsFinal,
         TimerOfOpenSocket, CountsAgree, DormancyExact, PatientBackoff, WaitsGrow
  <2>11. CASE UNCHANGED vars
    <3>1. TypeOK'
      BY <2>11 DEF vars, TypeOK
    <3> QED
      BY <2>11, <3>1 DEF vars, Unstarted, OneAttempt, StopIsFinal, TimerOfOpenSocket,
         CountsAgree, DormancyExact, PatientBackoff, WaitsGrow
  <2> QED
    BY <2>1, <2>2, <2>3, <2>4, <2>5, <2>6, <2>7, <2>8, <2>9, <2>10, <2>11 DEF Next
<1> QED
  BY <1>1, <1>2, PTL DEF Spec

\* Every variable of the listener keeps its type.
THEOREM ListenerTypeCorrect == Spec => []TypeOK
  BY InvariantHolds, PTL

\* From start() to stop() there is exactly one request, socket or armed timer,
\* and after stop() none that could bring the listener back, for every failure
\* budget and all delays.
THEOREM ListenerAlive == Spec => [](OneAttempt /\ StopIsFinal)
<1>1. ListenerInv => OneAttempt /\ StopIsFinal
  BY DEF ListenerInv
<1> QED
  BY <1>1, InvariantHolds, PTL

\* The listener is dormant exactly when its budget is spent or chat is off, and
\* its waits never shrink before a connection holds.
THEOREM ListenerPatient == Spec => [](DormancyExact /\ PatientBackoff)
<1>1. ListenerInv => DormancyExact /\ PatientBackoff
  BY DEF ListenerInv
<1> QED
  BY <1>1, InvariantHolds, PTL

-----------------------------------------------------------------------------
(* Refinement *)

\* Each step of the listener is a step of the contract or changes nothing the
\* contract speaks of: the safety part of ImplementsContract.
THEOREM ListenerRefinesContract ==
  Spec => Contract!Init /\ [][Contract!Next]_(Contract!contractVars)
<1>1. Init => Contract!Init
  BY DEF Init, Contract!Init, Link, Slow
<1>2. TypeOK /\ ListenerInv /\ [Next]_vars => [Contract!Next]_(Contract!contractVars)
  <2> SUFFICES ASSUME TypeOK, ListenerInv, [Next]_vars
               PROVE  Contract!Next \/ (Link' = Link /\ Slow' = Slow)
    BY DEF Contract!contractVars
  <2> USE DEF pace, history, ListenerInv
  \* Scheduling a wait backs off; after stop() it changes nothing.
  <2>s. ASSUME NEW count \in BOOLEAN, ScheduleReconnect(count), UNCHANGED <<started, stopped>>,
               dial # "none" \/ ws # "none"
        PROVE  Contract!Next \/ (Link' = Link /\ Slow' = Slow)
    <3>1. started
      BY <2>s DEF Unstarted
    <3>2. CASE stopped
      <4>1. UNCHANGED pace
        BY <2>s, <3>2 DEF ScheduleReconnect
      <4> QED
        BY <2>s, <3>2, <4>1 DEF Link, Slow
    <3>3. CASE ~stopped
      <4>1. reconnectTimer = 0
        BY <2>s, <3>1, <3>3 DEF OneAttempt
      <4>2. reconnectTimer' # 0 /\ dormant' \in BOOLEAN /\ (dormant => dormant')
        BY <2>s, <3>3, <4>1, Scheduled
      <4>3. Link = "busy" /\ Link' = "waiting"
        BY <2>s, <3>1, <3>3, <4>1, <4>2 DEF Link
      <4>4. Slow' = dormant' /\ Slow = dormant
        BY <2>s, <3>3, <4>2 DEF Slow, TypeOK
      <4>5. Slow' \in {Slow, TRUE}
        BY <4>2, <4>4 DEF TypeOK
      <4> QED
        BY <4>3, <4>5 DEF Contract!Next, Contract!BackOff
    <3> QED
      BY <3>2, <3>3
  <2>1. CASE Start
    <3>1. Link = "idle" /\ Link' = "busy"
      BY <2>1 DEF Start, Unstarted, Link
    <3>2. Slow' = FALSE
      BY <2>1 DEF Start, Unstarted, Slow
    <3> QED
      BY <3>1, <3>2 DEF Contract!Next, Contract!Start
  <2>2. CASE ConfigAnswers
    <3> PICK disabled \in BOOLEAN :
          IF disabled
          THEN /\ dial' = "none" /\ dormant' = TRUE
               /\ Arm(DormantInterval)
               /\ disabledSeen' = TRUE
               /\ UNCHANGED <<reconnectDelay, failures>>
          ELSE /\ dial' = IF stopped THEN "none" ELSE "register"
               /\ UNCHANGED <<pace, disabledSeen>>
      BY <2>2 DEF ConfigAnswers
    <3>1. dial = "config" /\ UNCHANGED <<started, stopped>>
      BY <2>2 DEF ConfigAnswers
    <3>2. started /\ (~stopped => reconnectTimer = 0)
      BY <3>1 DEF Unstarted, OneAttempt
    <3>3. CASE disabled /\ ~stopped
      <4>1. reconnectTimer' = DormantInterval
        BY <3>2, <3>3 DEF Arm
      <4>2. Link = "busy" /\ Link' = "waiting"
        BY <3>1, <3>2, <3>3, <4>1, ListenerAssumption DEF Link
      <4>3. Slow' = TRUE
        BY <3>1, <3>3 DEF Slow
      <4> QED
        BY <4>2, <4>3 DEF Contract!Next, Contract!BackOff
    <3>4. CASE disabled /\ stopped
      BY <3>1, <3>2, <3>4 DEF Link, Slow
    <3>5. CASE ~disabled
      BY <3>1, <3>5 DEF Link, Slow
    <3> QED
      BY <3>3, <3>4, <3>5
  <2>3. CASE Registered \/ Opens \/ ReachabilityTurns
    BY <2>3 DEF Registered, Opens, ReachabilityTurns, Link, Slow
  <2>4. CASE RegisterFails
    <3>1. ScheduleReconnect(TRUE) /\ dial # "none" /\ UNCHANGED <<started, stopped>>
      BY <2>4 DEF RegisterFails
    <3> QED
      BY <3>1, <2>s
  <2>5. CASE Closes
    <3>1. ScheduleReconnect(~provenHealthy) /\ ws # "none" /\ UNCHANGED <<started, stopped>>
      BY <2>5 DEF Closes
    <3>2. (~provenHealthy) \in BOOLEAN
      BY DEF TypeOK
    <3> QED
      BY <3>1, <3>2, <2>s
  <2>6. CASE MarkHealthy
    <3>1. started /\ ~stopped /\ reconnectTimer = 0
      BY <2>6 DEF MarkHealthy, TimerOfOpenSocket, StopIsFinal, OneAttempt, Unstarted
    <3>2. Link = "busy" /\ Link' = Link /\ ~Slow' /\ Slow' = FALSE
      BY <2>6, <3>1 DEF MarkHealthy, Link, Slow
    <3>3. CASE Slow
      BY <3>2, <3>3 DEF Contract!Next, Contract!SpeedUp
    <3>4. CASE ~Slow
      BY <3>2, <3>4 DEF Slow, TypeOK
    <3> QED
      BY <3>3, <3>4
  <2>7. CASE TimerFires
    <3>1. started /\ ~stopped
      BY <2>7 DEF TimerFires, Unstarted, StopIsFinal
    <3>2. Link = "waiting" /\ Link' = "busy" /\ Slow' = Slow
      BY <2>7, <3>1 DEF TimerFires, Link, Slow
    <3> QED
      BY <3>2 DEF Contract!Next, Contract!Retry
  <2>8. CASE Stop
    <3>1. Link \in {"busy", "waiting"} /\ Link' = "stopped" /\ Slow' = FALSE
      BY <2>8 DEF Stop, Link, Slow
    <3> QED
      BY <3>1 DEF Contract!Next, Contract!Stop
  <2>9. CASE UNCHANGED vars
    BY <2>9 DEF vars, Link, Slow
  <2> QED
    BY <2>1, <2>2, <2>3, <2>4, <2>5, <2>6, <2>7, <2>8, <2>9 DEF Next
<1> QED
  BY <1>1, <1>2, InvariantHolds, PTL DEF Spec

=============================================================================
