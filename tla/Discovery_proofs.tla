--------------------------- MODULE Discovery_proofs ---------------------------
(***************************************************************************)
(* Proofs about Discovery, for every set of instances and every bound:     *)
(* its types, the failure budget a teardown needs, the silence of the      *)
(* engine about instances that opted out, the agreement of rows and relay, *)
(* of hashes and profiles, and the retractions that stand.                 *)
(***************************************************************************)
EXTENDS Discovery, TLAPS

-----------------------------------------------------------------------------
(* Lemmas on the operators the actions are built from *)

\* The filler instance is an instance.
LEMMA AnyoneType == Anyone \in Instances
  BY ConstantsAssumption DEF Anyone

\* The history's tally never leaves its range.
LEMMA TallyType == \A n \in 0..MaxFailures : Tally(n) \in 0..MaxFailures
  BY ConstantsAssumption DEF Tally

\* The empty row is a row.
LEMMA NoRowType == NoRow \in Row
  BY ConstantsAssumption DEF NoRow, Row, Statuses, Starts

\* A row stays a row when one of its columns is given a value of its type.
LEMMA RowUpdate ==
  ASSUME NEW r \in Row
  PROVE  /\ \A b \in BOOLEAN : [r EXCEPT !.enabled = b] \in Row
         /\ \A v \in {"never", "fresh", "stale"} : [r EXCEPT !.pub = v] \in Row
         /\ \A h \in Profiles \cup {"none"} : [r EXCEPT !.hash = h] \in Row
         /\ \A s \in Starts : [r EXCEPT !.starts = s] \in Row
  BY DEF Row

\* What the UPDATE of retract-instance leaves is a row.
LEMMA RetractedRow ==
  ASSUME NEW r \in Row
  PROVE  [r EXCEPT !.pub = "never", !.hash = "none", !.status = "ended"] \in Row
  BY DEF Row, Statuses

\* The columns of a row have their types.
LEMMA RowColumns ==
  ASSUME NEW r \in Row
  PROVE  /\ r.enabled \in BOOLEAN /\ r.status \in Statuses
         /\ r.fails \in Nat /\ r.pub \in {"never", "fresh", "stale"}
         /\ r.hash \in Profiles \cup {"none"} /\ r.starts \in Starts
  BY DEF Row

\* The row upsertSeen leaves is a row.
LEMMA SeenRowType ==
  ASSUME TypeOK, NEW i \in Instances
  PROVE  SeenRow(i) \in Row
<1>1. row[i] \in Row /\ since[i] \in Starts
  BY DEF TypeOK, RowsOK, SourcesOK
<1>2. NewRow(i) \in Row
  BY <1>1, NoRowType, ConstantsAssumption DEF NewRow, Row
<1> QED
  BY <1>1, <1>2, RowUpdate DEF SeenRow

\* A reset start time exists: two values cannot exhaust three.
LEMMA FreshStartType ==
  ASSUME NEW i \in Instances
  PROVE  FreshStart(i) \in Starts
<1>1. \E s \in 1..3 : s \notin {copy[i].starts, event[i].starts}
  BY 1 \in 1..3, 2 \in 1..3, 3 \in 1..3
<1>2. FreshStart(i) \in 1..3
  BY <1>1 DEF FreshStart
<1> QED
  BY <1>2 DEF Starts

\* The row the final store.update of each loop leaves is a row.
LEMMA SavedRowType ==
  ASSUME TypeOK, NEW r \in Row
  PROVE  /\ SaveSeen(r) \in Row
         /\ SaveManual(r) \in Row
         /\ SaveGone(r) \in Row
<1>1. copy[cur] \in Row
  BY DEF TypeOK, RowsOK, CycleOK
<1>2. StatusNow \in Statuses
  BY DEF StatusNow, Statuses
<1>3. copy[cur].fails + 1 \in Nat
  BY <1>1, RowColumns
<1>4. SaveSeen(r) \in Row
  BY <1>1, <1>2 DEF SaveSeen, Row
<1>5. SaveManual(r) \in Row
  BY <1>1 DEF SaveManual, Row, Statuses
<1>6. SaveGone(r) \in Row
  BY <1>1, <1>3 DEF SaveGone, Row, Statuses
<1> QED
  BY <1>4, <1>5, <1>6

\* Counting an answer keeps the history of misses typed.
LEMMA CountAnswerType ==
  ASSUME HistoryOK, NEW i \in Instances, NEW answer, CountAnswer(i, answer)
  PROVE  misses' \in [Instances -> 0..MaxFailures]
  BY TallyType DEF HistoryOK, CountAnswer

\* The probe gives one of its three answers.
LEMMA AnswerType == \A i \in Instances : CheckLiveness(i) \subseteq Answers
  BY DEF CheckLiveness, Answers

-----------------------------------------------------------------------------
(* Types *)

\* Every variable keeps its type, whatever the engine, the operators and the
\* source do and in whatever order.
THEOREM TypeCorrect == Spec => []TypeOK
<1> USE DEF relayVars, sourceVars, engineVars, boundVars, histVars
<1>1. Init => TypeOK
  <2> SUFFICES ASSUME Init PROVE TypeOK
    OBVIOUS
  <2>1. SeededRow \in Row
    BY NoRowType, ConstantsAssumption DEF SeededRow, Row
  <2>2. RowsOK
    BY <2>1, NoRowType DEF Init, RowsOK
  <2>3. NoEvent \in Event
    BY DEF NoEvent, Event, Starts
  <2>4. RelaysOK
    BY <2>3 DEF Init, RelaysOK
  <2>5. SourcesOK
    BY DEF Init, SourcesOK, Starts
  <2>6. CycleOK
    BY AnyoneType DEF Init, CycleOK, Answers
  <2>7. OpOK
    BY AnyoneType DEF Init, OpOK, NoOp
  <2>8. BoundsOK
    BY ConstantsAssumption DEF Init, BoundsOK
  <2>9. HistoryOK
    BY ConstantsAssumption DEF Init, HistoryOK
  <2> QED
    BY <2>2, <2>4, <2>5, <2>6, <2>7, <2>8, <2>9 DEF TypeOK
<1>2. TypeOK /\ [Next]_vars => TypeOK'
  <2> SUFFICES ASSUME TypeOK, [Next]_vars PROVE TypeOK'
    OBVIOUS
  <2> USE DEF TypeOK
  <2>1. CASE FetchLive
    BY <2>1 DEF FetchLive, LiveSet, RowsOK, RelaysOK, SourcesOK, CycleOK, OpOK, BoundsOK, HistoryOK
  <2>2. ASSUME NEW i \in Instances, UpsertSeen(i) PROVE TypeOK'
    <3>1. RowsOK'
      BY <2>2, SeenRowType DEF UpsertSeen, RowsOK, TakeUp
    <3>2. CycleOK'
      BY <2>2 DEF UpsertSeen, CycleOK, TakeUp, Answers
    <3>3. RelaysOK' /\ SourcesOK' /\ OpOK' /\ BoundsOK' /\ HistoryOK'
      BY <2>2 DEF UpsertSeen, RelaysOK, SourcesOK, OpOK, BoundsOK, HistoryOK
    <3> QED
      BY <3>1, <3>2, <3>3
  <2>3. CASE ProbeSeen
    <3> PICK answer \in CheckLiveness(cur) :
            probe' = answer /\ CountAnswer(cur, answer)
      BY <2>3 DEF ProbeSeen
    <3>1. CycleOK'
      BY <2>3, AnswerType DEF ProbeSeen, CycleOK
    <3>2. HistoryOK'
      BY <2>3, CountAnswerType DEF ProbeSeen, HistoryOK, CycleOK
    <3>3. RowsOK' /\ RelaysOK' /\ SourcesOK' /\ OpOK' /\ BoundsOK'
      BY <2>3 DEF ProbeSeen, RowsOK, RelaysOK, SourcesOK, OpOK, BoundsOK
    <3> QED
      BY <3>1, <3>2, <3>3
  <2>4. CASE ListManual
    <3>1. RowsOK'
      BY <2>4, NoRowType DEF ListManual, RowsOK
    <3>2. RelaysOK' /\ SourcesOK' /\ CycleOK' /\ OpOK' /\ BoundsOK' /\ HistoryOK'
      BY <2>4 DEF ListManual, RelaysOK, SourcesOK, CycleOK, OpOK, BoundsOK, HistoryOK
    <3> QED
      BY <3>1, <3>2
  <2>5. ASSUME NEW i \in Instances, ProbeManual(i) PROVE TypeOK'
    <3> PICK answer \in CheckLiveness(i) :
          /\ CountAnswer(i, answer)
          /\ IF answer = "live"
             THEN TakeUp(i, copy[i], answer) /\ pc' = "profile" /\ live' = live \cup {i}
             ELSE copy' = [copy EXCEPT ![i] = NoRow] /\ UNCHANGED <<cur, probe, sent, pc, live>>
      BY <2>5 DEF ProbeManual
    <3>1. RowsOK'
      BY <2>5, NoRowType DEF ProbeManual, RowsOK, TakeUp
    <3>2. CycleOK'
      BY <2>5, AnswerType DEF ProbeManual, CycleOK, TakeUp
    <3>3. HistoryOK'
      BY <2>5, CountAnswerType DEF ProbeManual, HistoryOK
    <3>4. RelaysOK' /\ SourcesOK' /\ OpOK' /\ BoundsOK'
      BY <2>5 DEF ProbeManual, RelaysOK, SourcesOK, OpOK, BoundsOK
    <3> QED
      BY <3>1, <3>2, <3>3, <3>4
  <2>6. CASE PublishProfile
    <3> content[cur] \in Profiles
      BY DEF SourcesOK, CycleOK
    <3> [copy[cur] EXCEPT !.hash = content[cur]] \in Row
      BY RowUpdate DEF RowsOK, CycleOK
    <3>1. RowsOK'
      BY <2>6 DEF PublishProfile, RowsOK
    <3>2. RelaysOK'
      BY <2>6 DEF PublishProfile, RelaysOK, SendProfile
    <3>3. BoundsOK'
      BY <2>6, ConstantsAssumption DEF PublishProfile, BoundsOK, SendProfile
    <3>4. SourcesOK' /\ CycleOK' /\ OpOK' /\ HistoryOK'
      BY <2>6 DEF PublishProfile, SourcesOK, CycleOK, OpOK, HistoryOK
    <3> QED
      BY <3>1, <3>2, <3>3, <3>4
  <2>7. CASE SaveHash
    <3>1. RowsOK'
      BY <2>7, RowUpdate, RowColumns DEF SaveHash, RowsOK, CycleOK
    <3>2. RelaysOK' /\ SourcesOK' /\ CycleOK' /\ OpOK' /\ BoundsOK' /\ HistoryOK'
      BY <2>7 DEF SaveHash, RelaysOK, SourcesOK, CycleOK, OpOK, BoundsOK, HistoryOK
    <3> QED
      BY <3>1, <3>2
  <2>8. CASE PublishLiveEvent
    <3> StartNow \in Starts /\ StatusNow \in Statuses
      BY FreshStartType, RowColumns DEF StartNow, StatusNow, Statuses, RowsOK, CycleOK
    <3> [status |-> StatusNow, starts |-> StartNow] \in Event
      BY DEF Event
    <3> [copy[cur] EXCEPT !.starts = StartNow] \in Row
      BY RowUpdate DEF RowsOK, CycleOK
    <3>1. RowsOK'
      BY <2>8 DEF PublishLiveEvent, RowsOK
    <3>2. RelaysOK'
      BY <2>8 DEF PublishLiveEvent, RelaysOK, SendEvent
    <3>3. BoundsOK'
      BY <2>8, ConstantsAssumption DEF PublishLiveEvent, BoundsOK, SendEvent
    <3>4. SourcesOK' /\ CycleOK' /\ OpOK' /\ HistoryOK'
      BY <2>8 DEF PublishLiveEvent, SourcesOK, CycleOK, OpOK, HistoryOK
    <3> QED
      BY <3>1, <3>2, <3>3, <3>4
  <2>9. CASE ListActive
    <3>1. RowsOK'
      BY <2>9, NoRowType DEF ListActive, ActiveRow, RowsOK
    <3>2. RelaysOK' /\ SourcesOK' /\ CycleOK' /\ OpOK' /\ BoundsOK' /\ HistoryOK'
      BY <2>9 DEF ListActive, ActiveRow, RelaysOK, SourcesOK, CycleOK, OpOK, BoundsOK, HistoryOK
    <3> QED
      BY <3>1, <3>2
  <2>10. ASSUME NEW i \in Instances, ProbeGone(i) PROVE TypeOK'
    <3> PICK answer \in CheckLiveness(i) :
          /\ CountAnswer(i, answer)
          /\ TakeUp(i, copy[i], answer)
          /\ pc' = IF answer # "live" /\ LastFailure(i) THEN "publish" ELSE "save"
      BY <2>10 DEF ProbeGone
    <3>1. RowsOK'
      BY <2>10 DEF ProbeGone, RowsOK, TakeUp
    <3>2. CycleOK'
      BY <2>10, AnswerType DEF ProbeGone, CycleOK, TakeUp
    <3>3. HistoryOK'
      BY <2>10, CountAnswerType DEF ProbeGone, HistoryOK
    <3>4. RelaysOK' /\ SourcesOK' /\ OpOK' /\ BoundsOK'
      BY <2>10 DEF ProbeGone, RelaysOK, SourcesOK, OpOK, BoundsOK
    <3> QED
      BY <3>1, <3>2, <3>3, <3>4
  <2>11. CASE PublishEnded
    <3> [status |-> "ended", starts |-> copy[cur].starts] \in Event
      BY RowColumns DEF Event, Statuses, RowsOK, CycleOK
    <3>1. RelaysOK'
      BY <2>11 DEF PublishEnded, RelaysOK, SendEvent
    <3>2. BoundsOK'
      BY <2>11, ConstantsAssumption DEF PublishEnded, BoundsOK, SendEvent
    <3>3. RowsOK' /\ SourcesOK' /\ CycleOK' /\ OpOK' /\ HistoryOK'
      BY <2>11 DEF PublishEnded, RowsOK, SourcesOK, CycleOK, OpOK, HistoryOK
    <3> QED
      BY <3>1, <3>2, <3>3
  <2>12. CASE Save
    <3> 0 \in 0..MaxFailures
      BY ConstantsAssumption
    <3>1. RowsOK'
      BY <2>12, SavedRowType, NoRowType DEF Save, RowsOK, DropCurrent, CycleOK
    <3>2. CycleOK'
      BY <2>12, AnyoneType DEF Save, CycleOK, DropCurrent, Answers
    <3>3. HistoryOK'
      BY <2>12 DEF Save, HistoryOK
    <3>4. RelaysOK' /\ SourcesOK' /\ OpOK' /\ BoundsOK'
      BY <2>12 DEF Save, RelaysOK, SourcesOK, OpOK, BoundsOK
    <3> QED
      BY <3>1, <3>2, <3>3, <3>4
  <2>13. CASE EndCycle
    BY <2>13 DEF EndCycle, RowsOK, RelaysOK, SourcesOK, CycleOK, OpOK, BoundsOK, HistoryOK
  <2>14. CASE AbortCycle
    <3>1. RowsOK'
      BY <2>14, NoRowType DEF AbortCycle, RowsOK
    <3>2. CycleOK'
      BY <2>14, AnyoneType DEF AbortCycle, CycleOK, Answers
    <3>3. BoundsOK'
      BY <2>14, ConstantsAssumption DEF AbortCycle, BoundsOK
    <3>4. RelaysOK' /\ SourcesOK' /\ OpOK' /\ HistoryOK'
      BY <2>14 DEF AbortCycle, RelaysOK, SourcesOK, OpOK, HistoryOK
    <3> QED
      BY <3>1, <3>2, <3>3, <3>4
  <2>15. ASSUME NEW i \in Instances, HeartbeatElapses(i) PROVE TypeOK'
    <3>1. RowsOK'
      BY <2>15, RowUpdate, RowColumns DEF HeartbeatElapses, RowsOK
    <3>2. RelaysOK' /\ SourcesOK' /\ CycleOK' /\ OpOK' /\ BoundsOK' /\ HistoryOK'
      BY <2>15 DEF HeartbeatElapses, RelaysOK, SourcesOK, CycleOK, OpOK, BoundsOK, HistoryOK
    <3> QED
      BY <3>1, <3>2
  <2>16. ASSUME NEW i \in Instances, SetDiscovery(i) PROVE TypeOK'
    <3>1. RowsOK'
      BY <2>16, RowUpdate, RowColumns DEF SetDiscovery, RowsOK
    <3>2. RelaysOK' /\ SourcesOK' /\ CycleOK' /\ OpOK' /\ BoundsOK' /\ HistoryOK'
      BY <2>16 DEF SetDiscovery, RelaysOK, SourcesOK, CycleOK, OpOK, BoundsOK, HistoryOK
    <3> QED
      BY <3>1, <3>2
  <2>17. ASSUME NEW i \in Instances, RetractCheck(i) PROVE TypeOK'
    <3>1. OpOK'
      BY <2>17, copy[i].known \in BOOLEAN DEF RetractCheck, OpOK, RowsOK, Row
    <3>2. BoundsOK'
      BY <2>17, ConstantsAssumption DEF RetractCheck, BoundsOK
    <3>3. RowsOK' /\ RelaysOK' /\ SourcesOK' /\ CycleOK' /\ HistoryOK'
      BY <2>17 DEF RetractCheck, RowsOK, RelaysOK, SourcesOK, CycleOK, HistoryOK
    <3> QED
      BY <3>1, <3>2, <3>3
  <2>18. CASE RetractDelete \/ RetractBlank
    <3> NoEvent \in Event
      BY DEF NoEvent, Event, Starts
    <3> op.url \in Instances
      BY DEF OpOK
    <3>1. OpOK'
      <4>1. CASE RetractDelete
        <5> DEFINE t == IF rejects' = rejects THEN "deleted" ELSE "refused"
        <5>1. op' = [op EXCEPT !.step = t]
          BY <4>1 DEF RetractDelete
        <5>2. t \in {"deleted", "refused"}
          OBVIOUS
        <5> HIDE DEF t
        <5> QED
          BY <5>1, <5>2 DEF OpOK
      <4>2. CASE RetractBlank
        <5>1. op' = [op EXCEPT !.step = "wiped"] \/ op' = NoOp
          BY <4>2 DEF RetractBlank
        <5>2. CASE op' = NoOp
          BY <5>2, AnyoneType DEF OpOK, NoOp
        <5>3. CASE op' = [op EXCEPT !.step = "wiped"]
          BY <5>3 DEF OpOK
        <5> QED
          BY <5>1, <5>2, <5>3
      <4> QED
        BY <2>18, <4>1, <4>2
    <3>2. BoundsOK'
      BY <2>18, ConstantsAssumption DEF RetractDelete, RetractBlank, BoundsOK, SendEvent, SendProfile
    <3>3. RelaysOK'
      BY <2>18 DEF RetractDelete, RetractBlank, RelaysOK, SendEvent, SendProfile
    <3>4. RowsOK' /\ SourcesOK' /\ CycleOK' /\ HistoryOK'
      BY <2>18 DEF RetractDelete, RetractBlank, RowsOK, SourcesOK, CycleOK, HistoryOK
    <3> QED
      BY <3>1, <3>2, <3>3, <3>4
  <2>19. CASE RetractSave
    <3> op.url \in Instances
      BY DEF OpOK
    <3> [row[op.url] EXCEPT !.pub = "never", !.hash = "none", !.status = "ended"] \in Row
      BY RetractedRow DEF RowsOK
    <3>1. RowsOK'
      BY <2>19 DEF RetractSave, RowsOK
    <3>2. OpOK'
      BY <2>19, AnyoneType DEF RetractSave, OpOK, NoOp
    <3>3. RelaysOK' /\ SourcesOK' /\ CycleOK' /\ BoundsOK' /\ HistoryOK'
      BY <2>19 DEF RetractSave, RelaysOK, SourcesOK, CycleOK, BoundsOK, HistoryOK
    <3> QED
      BY <3>1, <3>2, <3>3
  <2>20. ASSUME NEW i \in Instances, RepublishProfile(i) PROVE TypeOK'
    <3>1. RowsOK'
      BY <2>20, RowUpdate DEF RepublishProfile, RowsOK
    <3>2. RelaysOK' /\ SourcesOK' /\ CycleOK' /\ OpOK' /\ BoundsOK' /\ HistoryOK'
      BY <2>20 DEF RepublishProfile, RelaysOK, SourcesOK, CycleOK, OpOK, BoundsOK, HistoryOK
    <3> QED
      BY <3>1, <3>2
  <2>21. ASSUME NEW i \in Instances, StreamTurns(i) PROVE TypeOK'
    <3>1. SourcesOK'
      BY <2>21, ConstantsAssumption DEF StreamTurns, SourcesOK, Starts
    <3>2. RowsOK' /\ RelaysOK' /\ CycleOK' /\ OpOK' /\ BoundsOK' /\ HistoryOK'
      BY <2>21 DEF StreamTurns, RowsOK, RelaysOK, CycleOK, OpOK, BoundsOK, HistoryOK
    <3> QED
      BY <3>1, <3>2
  <2>22. ASSUME NEW i \in Instances, DirectoryTurns(i) PROVE TypeOK'
    BY <2>22 DEF DirectoryTurns, RowsOK, RelaysOK, SourcesOK, CycleOK, OpOK, BoundsOK, HistoryOK
  <2>23. ASSUME NEW i \in Instances, MetadataTurns(i) PROVE TypeOK'
    BY <2>23 DEF MetadataTurns, RowsOK, RelaysOK, SourcesOK, CycleOK, OpOK, BoundsOK, HistoryOK
  <2>24. CASE UNCHANGED vars
    BY <2>24 DEF vars, RowsOK, RelaysOK, SourcesOK, CycleOK, OpOK, BoundsOK, HistoryOK
  <2> QED
    BY <2>1, <2>2, <2>3, <2>4, <2>5, <2>6, <2>7, <2>8, <2>9, <2>10, <2>11, <2>12, <2>13, <2>14, <2>15, <2>16, <2>17, <2>18, <2>19, <2>20, <2>21, <2>22, <2>23, <2>24,
       ConstantsAssumption DEF Next, Engine, Operator, Source
<1> QED
  BY <1>1, <1>2, PTL DEF Spec

-----------------------------------------------------------------------------
(* The failure budget *)

\* Inductive form of FailureBudget: no counter, persisted or copied, runs ahead
\* of the probes that failed, and what reconcileDisappeared is about to publish
\* or save is backed by them too.
Backed(f, m) == f <= m \/ m = MaxFailures
CopyBacked == \A i \in Instances : Backed(copy[i].fails, misses[i])
TeardownBacked == pc = "publish" /\ pass = "gone" => misses[cur] = MaxFailures
SaveBacked == pc = "save" /\ pass = "gone" /\ probe # "live" =>
                  Backed(copy[cur].fails + 1, misses[cur])
GonePhases == pc \in {"probe", "profile", "hash"} => pass # "gone"
BudgetInv == CounterBacked /\ CopyBacked /\ TeardownBacked /\ SaveBacked /\ GonePhases

\* A counter that is backed stays so as the tally grows, and one more failure is
\* backed by one more on the tally; the last one fills it.
LEMMA BackedFacts ==
  ASSUME NEW f \in Nat, NEW m \in 0..MaxFailures, Backed(f, m)
  PROVE  /\ \A n \in 0..MaxFailures : m <= n => Backed(f, n)
         /\ Backed(f + 1, Tally(m))
         /\ f + 1 >= MaxFailures => Tally(m) = MaxFailures
  BY ConstantsAssumption DEF Backed, Tally

\* CounterBacked, said with Backed.
LEMMA CounterBackedForm ==
  CounterBacked <=> \A i \in Instances : Backed(row[i].fails, misses[i])
  BY DEF CounterBacked, Backed

\* Counting an answer lowers no instance's history, and a failure counts.
LEMMA CountAnswerFacts ==
  ASSUME TypeOK, NEW i \in Instances, NEW answer, CountAnswer(i, answer)
  PROVE  /\ \A j \in Instances : misses[j] <= misses'[j]
         /\ answer # "live" => misses'[i] = Tally(misses[i])
<1>1. misses \in [Instances -> 0..MaxFailures]
  BY DEF TypeOK, HistoryOK
<1>2. \A j \in Instances : misses[j] <= Tally(misses[j])
  BY <1>1, ConstantsAssumption DEF Tally
<1> QED
  BY <1>1, <1>2 DEF CountAnswer

\* The counters are naturals, the history's up to the budget.
LEMMA CounterTypes ==
  ASSUME TypeOK
  PROVE  \A i \in Instances : /\ row[i].fails \in Nat
                              /\ copy[i].fails \in Nat
                              /\ misses[i] \in 0..MaxFailures
  BY RowColumns DEF TypeOK, RowsOK, HistoryOK

\* Every instance's counter is that of the row upsertSeen leaves.
LEMMA SeenRowFails ==
  ASSUME TypeOK, NEW i \in Instances
  PROVE  SeenRow(i).fails = row[i].fails \/ SeenRow(i).fails = 0
<1>1. row[i] \in Row
  BY DEF TypeOK, RowsOK
<1> QED
  BY <1>1 DEF SeenRow, NewRow, NoRow, Row

\* An update that names none of the counter's columns keeps the counter.
LEMMA FailsKept ==
  ASSUME NEW r \in Row
  PROVE  /\ \A b : [r EXCEPT !.enabled = b].fails = r.fails
         /\ \A v : [r EXCEPT !.pub = v].fails = r.fails
         /\ \A h : [r EXCEPT !.hash = h].fails = r.fails
         /\ \A s : [r EXCEPT !.starts = s].fails = r.fails
         /\ [r EXCEPT !.pub = "never", !.hash = "none", !.status = "ended"].fails = r.fails
  BY DEF Row

\* A terminal event is published only after MaxFailures failed probes, and no
\* persisted counter runs ahead of the probes, for every number of instances
\* and whatever interleaves with the cycle.
THEOREM BudgetCorrect == Spec => [](FailureBudget /\ CounterBacked)
<1> USE DEF relayVars, sourceVars, engineVars, boundVars, histVars
<1>1. Init => BudgetInv
  <2> SUFFICES ASSUME Init PROVE BudgetInv
    OBVIOUS
  <2>1. \A i \in Instances : row[i].fails = 0 /\ copy[i].fails = 0 /\ misses[i] = 0
    <3>1. SeededRow.fails = 0 /\ NoRow.fails = 0
      BY DEF SeededRow, NoRow
    <3>2. \A i \in Instances : row[i] \in {SeededRow, NoRow}
      BY DEF Init
    <3>3. \A i \in Instances : copy[i] = NoRow /\ misses[i] = 0
      BY DEF Init
    <3> QED
      BY <3>1, <3>2, <3>3
  <2> QED
    <3>1. CounterBacked /\ CopyBacked
      BY <2>1 DEF CounterBacked, CopyBacked, Backed
    <3> QED
      BY <3>1 DEF Init, BudgetInv, TeardownBacked, SaveBacked, GonePhases
<1>2. TypeOK /\ TypeOK' /\ BudgetInv /\ [Next]_vars => BudgetInv'
  <2> SUFFICES ASSUME TypeOK, TypeOK', BudgetInv, [Next]_vars PROVE BudgetInv'
    OBVIOUS
  <2> USE DEF BudgetInv
  <2> NoRow.fails = 0
    BY DEF NoRow
  <2>t1. /\ row \in [Instances -> Row] /\ copy \in [Instances -> Row]
         /\ misses \in [Instances -> 0..MaxFailures] /\ cur \in Instances
    BY DEF TypeOK, RowsOK, HistoryOK, CycleOK
  <2>t2. /\ row' \in [Instances -> Row] /\ copy' \in [Instances -> Row]
         /\ misses' \in [Instances -> 0..MaxFailures] /\ cur' \in Instances
    BY DEF TypeOK, RowsOK, HistoryOK, CycleOK
  <2>t3. \A i \in Instances : /\ row[i].fails \in Nat
                              /\ copy[i].fails \in Nat
                              /\ misses[i] \in 0..MaxFailures
    BY CounterTypes
  <2>b. /\ \A i \in Instances : Backed(row[i].fails, misses[i])
        /\ \A i \in Instances : Backed(copy[i].fails, misses[i])
        /\ \A m \in 0..MaxFailures : Backed(0, m)
    BY CounterBackedForm DEF CopyBacked, Backed
  \* Where the tallies only grow, counters that are kept stay backed.
  <2>g. ASSUME \A j \in Instances : misses[j] <= misses'[j],
               NEW r \in [Instances -> Row],
               \A j \in Instances : Backed(r[j].fails, misses[j])
        PROVE  \A j \in Instances : Backed(r[j].fails, misses'[j])
    <3> TAKE j \in Instances
    <3>1. r[j].fails \in Nat /\ misses[j] \in 0..MaxFailures /\ misses'[j] \in 0..MaxFailures
      BY <2>t1, <2>t2, RowColumns
    <3> QED
      BY <2>g, <3>1, BackedFacts
  <2>1. CASE FetchLive \/ EndCycle
    BY <2>1 DEF FetchLive, EndCycle, CounterBacked, CopyBacked, TeardownBacked, SaveBacked, GonePhases
  <2>2. ASSUME NEW i \in Instances, UpsertSeen(i) PROVE BudgetInv'
    <3>1. Backed(SeenRow(i).fails, misses[i])
      BY <2>t3, <2>b, SeenRowFails
    <3>2. CounterBacked'
      BY <2>2, <2>t1, <2>b, <3>1 DEF UpsertSeen, CounterBacked, Backed
    <3>3. CopyBacked'
      BY <2>2, <2>t1, <3>1 DEF UpsertSeen, CopyBacked, TakeUp
    <3>4. TeardownBacked' /\ SaveBacked' /\ GonePhases'
      BY <2>2 DEF UpsertSeen, TakeUp, TeardownBacked, SaveBacked, GonePhases
    <3> QED
      BY <3>2, <3>3, <3>4
  <2>3. CASE ProbeSeen
    <3> PICK answer \in CheckLiveness(cur) :
            probe' = answer /\ CountAnswer(cur, answer)
      BY <2>3 DEF ProbeSeen
    <3>1. \A j \in Instances : misses[j] <= misses'[j]
      BY <2>t1, CountAnswerFacts
    <3>2. row' = row /\ copy' = copy
      BY <2>3 DEF ProbeSeen
    <3>3. CounterBacked' /\ CopyBacked'
      BY <3>1, <3>2, <2>b, <2>g, <2>t1 DEF CounterBacked, CopyBacked, Backed
    <3>4. TeardownBacked' /\ SaveBacked' /\ GonePhases'
      BY <2>3 DEF ProbeSeen, TeardownBacked, SaveBacked, GonePhases
    <3> QED
      BY <3>3, <3>4
  <2>4. CASE ListManual \/ ListActive
    <3>1. CounterBacked'
      BY <2>4 DEF ListManual, ListActive, ActiveRow, CounterBacked
    <3>2. CopyBacked'
      BY <2>4, <2>b, <2>t3 DEF ListManual, ListActive, ActiveRow, CopyBacked
    <3>3. TeardownBacked' /\ SaveBacked' /\ GonePhases'
      BY <2>4 DEF ListManual, ListActive, ActiveRow, TeardownBacked, SaveBacked, GonePhases
    <3> QED
      BY <3>1, <3>2, <3>3
  <2>5. ASSUME NEW i \in Instances, ProbeManual(i) PROVE BudgetInv'
    <3> PICK answer \in CheckLiveness(i) :
          /\ CountAnswer(i, answer)
          /\ IF answer = "live"
             THEN TakeUp(i, copy[i], answer) /\ pc' = "profile" /\ live' = live \cup {i}
             ELSE copy' = [copy EXCEPT ![i] = NoRow] /\ UNCHANGED <<cur, probe, sent, pc, live>>
      BY <2>5 DEF ProbeManual
    <3>1. \A j \in Instances : misses[j] <= misses'[j]
      BY CountAnswerFacts
    <3>2. row' = row
      BY <2>5 DEF ProbeManual
    <3>3. \A j \in Instances : copy'[j].fails = copy[j].fails \/ copy'[j].fails = 0
      BY <2>t1 DEF TakeUp
    <3>4. CounterBacked'
      BY <3>1, <3>2, <2>b, <2>g, <2>t1 DEF CounterBacked, Backed
    <3>5. CopyBacked'
      <4>1. \A j \in Instances : Backed(copy[j].fails, misses'[j])
        BY <3>1, <2>b, <2>g, <2>t1
      <4> QED
        BY <3>3, <4>1, <2>b, <2>t2 DEF CopyBacked
    <3>6. TeardownBacked' /\ SaveBacked' /\ GonePhases'
      BY <2>5 DEF ProbeManual, TakeUp, TeardownBacked, SaveBacked, GonePhases
    <3> QED
      BY <3>4, <3>5, <3>6
  <2>6. CASE PublishProfile \/ PublishLiveEvent
    <3>1. \A j \in Instances : copy'[j].fails = copy[j].fails
      <4>1. CASE PublishProfile
        <5>1. [copy[cur] EXCEPT !.hash = content[cur]].fails = copy[cur].fails
          BY <2>t1, FailsKept
        <5> QED
          BY <4>1, <5>1, <2>t1 DEF PublishProfile
      <4>2. CASE PublishLiveEvent
        <5>1. [copy[cur] EXCEPT !.starts = StartNow].fails = copy[cur].fails
          BY <2>t1, FailsKept
        <5>2. copy' = copy \/ copy' = [copy EXCEPT ![cur].starts = StartNow]
          BY <4>2 DEF PublishLiveEvent
        <5> QED
          BY <5>1, <5>2, <2>t1
      <4> QED
        BY <2>6, <4>1, <4>2
    <3>2. CounterBacked' /\ CopyBacked'
      BY <2>6, <3>1 DEF PublishProfile, PublishLiveEvent, CounterBacked, CopyBacked
    <3>3. TeardownBacked' /\ SaveBacked' /\ GonePhases'
      BY <2>6 DEF PublishProfile, PublishLiveEvent, TeardownBacked, SaveBacked, GonePhases
    <3> QED
      BY <3>2, <3>3
  <2>7. CASE SaveHash
    <3>1. \A j \in Instances : row'[j].fails = row[j].fails
      BY <2>7, <2>t1, FailsKept DEF SaveHash
    <3> QED
      BY <2>7, <3>1 DEF SaveHash, CounterBacked, CopyBacked, TeardownBacked, SaveBacked, GonePhases
  <2>8. ASSUME NEW i \in Instances, ProbeGone(i) PROVE BudgetInv'
    <3> PICK answer \in CheckLiveness(i) :
          /\ CountAnswer(i, answer)
          /\ TakeUp(i, copy[i], answer)
          /\ pc' = IF answer # "live" /\ LastFailure(i) THEN "publish" ELSE "save"
      BY <2>8 DEF ProbeGone
    <3>1. \A j \in Instances : misses[j] <= misses'[j]
      BY CountAnswerFacts
    <3>2. row' = row
      BY <2>8 DEF ProbeGone
    <3>3. copy' = copy /\ cur' = i /\ probe' = answer
      BY <2>t1 DEF TakeUp
    <3>4. Backed(copy[i].fails, misses[i])
      BY <2>b
    <3>5. /\ Backed(copy[i].fails + 1, Tally(misses[i]))
          /\ LastFailure(i) => Tally(misses[i]) = MaxFailures
      BY <3>4, <2>t3, BackedFacts DEF LastFailure
    <3>6. answer # "live" => misses'[i] = Tally(misses[i])
      BY CountAnswerFacts
    <3>7. CounterBacked'
      BY <3>1, <3>2, <2>b, <2>g, <2>t1 DEF CounterBacked, Backed
    <3>8. CopyBacked'
      BY <3>1, <3>3, <2>b, <2>g, <2>t1 DEF CopyBacked
    <3>9. TeardownBacked'
      BY <3>3, <3>5, <3>6 DEF TeardownBacked
    <3>10. SaveBacked'
      BY <3>3, <3>5, <3>6 DEF SaveBacked
    <3>11. GonePhases'
      BY DEF GonePhases
    <3> QED
      BY <3>7, <3>8, <3>9, <3>10, <3>11
  <2>9. CASE PublishEnded
    <3>1. CounterBacked' /\ CopyBacked' /\ GonePhases' /\ TeardownBacked'
      BY <2>9 DEF PublishEnded, CounterBacked, CopyBacked, GonePhases, TeardownBacked
    <3>2. misses[cur] = MaxFailures
      BY <2>9 DEF PublishEnded, TeardownBacked
    <3>3. SaveBacked'
      BY <2>9, <3>2 DEF PublishEnded, SaveBacked, Backed
    <3> QED
      BY <3>1, <3>3
  <2>10. CASE Save
    <3>1. copy' = [copy EXCEPT ![cur] = NoRow] /\ pc' = "next"
      BY <2>10 DEF Save, DropCurrent
    <3>2. \A j \in Instances \ {cur} : row'[j] = row[j] /\ misses'[j] = misses[j]
      BY <2>10, <2>t1 DEF Save
    <3>3. Backed(row'[cur].fails, misses'[cur])
      <4>1. \A r \in Row :
              /\ SaveSeen(r).fails = IF probe = "error" THEN copy[cur].fails ELSE 0
              /\ SaveManual(r).fails = 0
              /\ SaveGone(r).fails = IF probe = "live" THEN 0 ELSE copy[cur].fails + 1
        BY DEF SaveSeen, SaveManual, SaveGone, Row
      <4>2. misses'[cur] = IF probe = "live" THEN 0 ELSE misses[cur]
        BY <2>10, <2>t1 DEF Save
      <4>3. /\ pass = "live" => row'[cur] = SaveSeen(row[cur])
            /\ pass = "manual" => row'[cur] = SaveManual(row[cur])
            /\ pass = "gone" => row'[cur] = SaveGone(row[cur])
        BY <2>10, <2>t1 DEF Save
      <4>4. pass \in {"live", "manual", "gone"}
        BY DEF TypeOK, CycleOK
      <4>5. /\ Backed(copy[cur].fails, misses[cur]) /\ Backed(0, misses[cur])
            /\ Backed(0, 0)
        BY <2>b, <2>t1, <2>t3 DEF Backed
      <4>6. pass = "gone" /\ probe # "live" => Backed(copy[cur].fails + 1, misses[cur])
        BY <2>10 DEF Save, SaveBacked
      <4> QED
        BY <4>1, <4>2, <4>3, <4>4, <4>5, <4>6, <2>t1
    <3>4. CounterBacked'
      BY <3>2, <3>3, <2>b DEF CounterBacked, Backed
    <3>5. CopyBacked'
      <4>1. copy'[cur].fails = 0 /\ Backed(0, misses'[cur])
        BY <3>1, <2>b, <2>t1, <2>t2
      <4>2. \A j \in Instances \ {cur} : copy'[j] = copy[j] /\ misses'[j] = misses[j]
        BY <3>1, <3>2, <2>t1
      <4> QED
        BY <4>1, <4>2, <2>b DEF CopyBacked
    <3> QED
      BY <3>1, <3>4, <3>5 DEF TeardownBacked, SaveBacked, GonePhases
  <2>11. CASE AbortCycle
    BY <2>11, <2>b, <2>t3 DEF AbortCycle, CounterBacked, CopyBacked, TeardownBacked, SaveBacked, GonePhases
  <2>12. ASSUME NEW i \in Instances, HeartbeatElapses(i) PROVE BudgetInv'
    <3>1. \A j \in Instances : row'[j].fails = row[j].fails /\ copy'[j].fails = copy[j].fails
      BY <2>12, <2>t1, FailsKept DEF HeartbeatElapses
    <3>2. CounterBacked' /\ CopyBacked'
      BY <2>12, <3>1 DEF HeartbeatElapses, CounterBacked, CopyBacked
    <3> QED
      BY <2>12, <3>1, <3>2, <2>t1 DEF HeartbeatElapses, TeardownBacked, SaveBacked, GonePhases
  <2>13. ASSUME NEW i \in Instances, SetDiscovery(i) \/ RepublishProfile(i) PROVE BudgetInv'
    <3>1. \A j \in Instances : row'[j].fails = row[j].fails
      <4>1. CASE SetDiscovery(i)
        BY <4>1, <2>t1, FailsKept DEF SetDiscovery
      <4>2. CASE RepublishProfile(i)
        BY <4>2, <2>t1, FailsKept DEF RepublishProfile
      <4> QED
        BY <2>13, <4>1, <4>2
    <3> QED
      BY <2>13, <3>1 DEF SetDiscovery, RepublishProfile, CounterBacked, CopyBacked, TeardownBacked, SaveBacked, GonePhases
  <2>14. ASSUME NEW i \in Instances, RetractCheck(i) PROVE BudgetInv'
    BY <2>14 DEF RetractCheck, CounterBacked, CopyBacked, TeardownBacked, SaveBacked, GonePhases
  <2>15. CASE RetractDelete \/ RetractBlank
    BY <2>15 DEF RetractDelete, RetractBlank, CounterBacked, CopyBacked, TeardownBacked, SaveBacked, GonePhases
  <2>16. CASE RetractSave
    <3>1. \A j \in Instances : row'[j].fails = row[j].fails
      BY <2>16, <2>t1, FailsKept DEF RetractSave
    <3> QED
      BY <2>16, <3>1 DEF RetractSave, CounterBacked, CopyBacked, TeardownBacked, SaveBacked, GonePhases
  <2>17. ASSUME NEW i \in Instances, StreamTurns(i) \/ DirectoryTurns(i) \/ MetadataTurns(i)
         PROVE  BudgetInv'
    BY <2>17 DEF StreamTurns, DirectoryTurns, MetadataTurns, CounterBacked, CopyBacked, TeardownBacked, SaveBacked, GonePhases
  <2>18. CASE UNCHANGED vars
    BY <2>18 DEF vars, CounterBacked, CopyBacked, TeardownBacked, SaveBacked, GonePhases
  <2>19. CASE Engine
    BY <2>1, <2>2, <2>3, <2>4, <2>5, <2>6, <2>7, <2>8, <2>9, <2>10, <2>19 DEF Engine
  <2>20. CASE Operator
    BY <2>13, <2>14, <2>15, <2>16, <2>20, ConstantsAssumption DEF Operator
  <2>21. CASE Source
    BY <2>17, <2>21 DEF Source
  <2> QED
    BY <2>11, <2>12, <2>18, <2>19, <2>20, <2>21 DEF Next
<1>3. BudgetInv => FailureBudget /\ CounterBacked
  BY DEF BudgetInv, FailureBudget, TeardownBacked
<1> QED
  BY <1>1, <1>2, <1>3, TypeCorrect, PTL DEF Spec

-----------------------------------------------------------------------------
(* The silence about instances that opted out *)

\* Inductive form of QuietWhenOff: the engine holds a copy with discovery on
\* only of what is in hand or still to come up in the running loop, and of
\* nothing that was off when the cycle began.
QuietRows == \A i \in Instances : quiet[i] => row[i].known /\ ~row[i].enabled
QuietCopies == \A i \in Instances : copy[i].enabled => ~quiet[i]
CopyInUse == \A i \in Instances : copy[i].enabled =>
    \/ i \in todo /\ pass # "live"
    \/ i = cur /\ pc \notin {"idle", "next"}
InHandEnabled == pc \notin {"idle", "next"} => copy[cur].enabled /\ cur \notin todo
TodoEnabled == pass # "live" => \A i \in todo : copy[i].enabled
IdlePass == pc = "idle" => pass = "live"
QuietInv == /\ QuietRows /\ QuietCopies /\ CopyInUse
            /\ InHandEnabled /\ TodoEnabled /\ IdlePass

\* An update that does not name the flag keeps it, and no update of these
\* makes a row unknown.
LEMMA FlagKept ==
  ASSUME NEW r \in Row
  PROVE  /\ \A b \in BOOLEAN : [r EXCEPT !.enabled = b].known = r.known
         /\ \A v : /\ [r EXCEPT !.pub = v].enabled = r.enabled
                   /\ [r EXCEPT !.pub = v].known = r.known
         /\ \A h : /\ [r EXCEPT !.hash = h].enabled = r.enabled
                   /\ [r EXCEPT !.hash = h].known = r.known
         /\ \A s : /\ [r EXCEPT !.starts = s].enabled = r.enabled
                   /\ [r EXCEPT !.starts = s].known = r.known
         /\ [r EXCEPT !.pub = "never", !.hash = "none", !.status = "ended"].enabled = r.enabled
         /\ [r EXCEPT !.pub = "never", !.hash = "none", !.status = "ended"].known = r.known
  BY DEF Row

\* upsertSeen leaves a known row, and the flag of a row that was known.
LEMMA SeenRowFlag ==
  ASSUME TypeOK, NEW i \in Instances
  PROVE  SeenRow(i).known /\ (row[i].known => SeenRow(i).enabled = row[i].enabled)
<1>1. row[i] \in Row
  BY DEF TypeOK, RowsOK
<1>2. NewRow(i).known
  BY DEF NewRow, NoRow
<1> QED
  BY <1>1, <1>2, FlagKept DEF SeenRow, Row

\* The final updates of the three loops leave the flag alone.
LEMMA SavedRowFlag ==
  ASSUME NEW r \in Row
  PROVE  /\ SaveSeen(r).enabled = r.enabled /\ SaveSeen(r).known = r.known
         /\ SaveManual(r).enabled = r.enabled /\ SaveManual(r).known = r.known
         /\ SaveGone(r).enabled = r.enabled /\ SaveGone(r).known = r.known
  BY DEF SaveSeen, SaveManual, SaveGone, Row

\* An instance that was opted out before a cycle began is neither probed nor
\* published by that cycle, whatever operators write to the rows meanwhile.
THEOREM QuietCorrect == Spec => []QuietWhenOff
<1> USE DEF relayVars, sourceVars, engineVars, boundVars, histVars
<1>1. Init => QuietInv
  <2> SUFFICES ASSUME Init PROVE QuietInv
    OBVIOUS
  <2>1. NoRow.enabled = FALSE
    BY DEF NoRow
  <2>2. \A i \in Instances : ~copy[i].enabled /\ ~quiet[i]
    BY <2>1 DEF Init
  <2>3. pc = "idle" /\ pass = "live"
    BY DEF Init
  <2> QED
    BY <2>2, <2>3 DEF QuietInv, QuietRows, QuietCopies, CopyInUse, InHandEnabled, TodoEnabled, IdlePass
<1>2. TypeOK /\ TypeOK' /\ QuietInv /\ [Next]_vars => QuietInv'
  <2> SUFFICES ASSUME TypeOK, TypeOK', QuietInv, [Next]_vars PROVE QuietInv'
    OBVIOUS
  <2> USE DEF QuietInv
  <2> NoRow.enabled = FALSE
    BY DEF NoRow
  <2>t1. /\ row \in [Instances -> Row] /\ copy \in [Instances -> Row]
         /\ quiet \in [Instances -> BOOLEAN] /\ cur \in Instances
    BY DEF TypeOK, RowsOK, HistoryOK, CycleOK
  <2>t2. todo \subseteq Instances /\ todo' \subseteq Instances
    BY DEF TypeOK, CycleOK
  <2>t3. cur' \in Instances /\ copy' \in [Instances -> Row] /\ row' \in [Instances -> Row]
    BY DEF TypeOK, RowsOK, CycleOK
  \* A step that keeps the flags of the rows and of the copies, the loop and what
  \* is in hand, and moves within the middle of an instance, keeps all of it.
  <2>s. ASSUME /\ \A j \in Instances : /\ row'[j].known = row[j].known
                                       /\ row'[j].enabled = row[j].enabled
                                       /\ copy'[j].enabled = copy[j].enabled,
               UNCHANGED <<pass, todo, cur, quiet>>,
               pc' = pc \/ (pc \notin {"idle", "next"} /\ pc' \notin {"idle", "next"})
        PROVE  QuietInv'
    BY <2>s, <2>t1, <2>t2 DEF QuietRows, QuietCopies, CopyInUse, InHandEnabled, TodoEnabled, IdlePass
  <2>1. CASE FetchLive
    <3>1. \A j \in Instances : ~copy[j].enabled
      BY <2>1 DEF FetchLive, CopyInUse, IdlePass
    <3> QED
      BY <2>1, <3>1 DEF FetchLive, QuietRows, QuietCopies, CopyInUse, InHandEnabled, TodoEnabled, IdlePass
  <2>2. ASSUME NEW i \in Instances, UpsertSeen(i) PROVE QuietInv'
    <3>1. SeenRow(i).known /\ (row[i].known => SeenRow(i).enabled = row[i].enabled)
      BY SeenRowFlag
    <3>2. QuietRows'
      BY <2>2, <2>t1, <3>1 DEF UpsertSeen, QuietRows
    <3>3. \A j \in Instances : ~copy[j].enabled
      BY <2>2 DEF UpsertSeen, CopyInUse
    <3>4. SeenRow(i).enabled => ~quiet[i]
      BY <3>1 DEF QuietRows
    <3>5. CASE SeenRow(i).enabled
      <4>1. /\ cur' = i /\ copy' = [copy EXCEPT ![i] = SeenRow(i)] /\ pc' = "probe"
            /\ todo' = todo \ {i} /\ UNCHANGED <<pass, quiet>>
        BY <2>2, <3>5 DEF UpsertSeen, TakeUp
      <4>2. QuietCopies' /\ CopyInUse' /\ InHandEnabled'
        BY <4>1, <3>3, <3>4, <3>5, <2>t1 DEF QuietCopies, CopyInUse, InHandEnabled
      <4>3. TodoEnabled' /\ IdlePass'
        BY <2>2, <4>1 DEF UpsertSeen, TodoEnabled, IdlePass
      <4> QED
        BY <3>2, <4>2, <4>3
    <3>6. CASE ~SeenRow(i).enabled
      BY <2>2, <3>2, <3>3, <3>6 DEF UpsertSeen, QuietCopies, CopyInUse, InHandEnabled, TodoEnabled, IdlePass
    <3> QED
      BY <3>5, <3>6
  <2>3. CASE ProbeSeen
    BY <2>3, <2>s DEF ProbeSeen
  <2>4. CASE ListManual \/ ListActive
    <3>1. \A j \in todo' : row[j].enabled
      BY <2>4 DEF ListManual, ListActive, ActiveRow
    <3>2. copy' = [j \in Instances |-> IF j \in todo' THEN row[j] ELSE NoRow]
      BY <2>4 DEF ListManual, ListActive, ActiveRow
    <3>3. \A j \in Instances : copy'[j].enabled <=> j \in todo'
      BY <3>1, <3>2, <2>t1
    <3>4. pc = "next" /\ pc' = "next" /\ pass' # "live" /\ UNCHANGED <<row, quiet>>
      BY <2>4 DEF ListManual, ListActive, ActiveRow
    <3>5. QuietRows' /\ QuietCopies'
      BY <3>1, <3>3, <3>4 DEF QuietRows, QuietCopies
    <3> QED
      BY <3>3, <3>4, <3>5, <2>t2 DEF CopyInUse, InHandEnabled, TodoEnabled, IdlePass
  <2>5. ASSUME NEW i \in Instances, ProbeManual(i) PROVE QuietInv'
    <3> PICK answer \in CheckLiveness(i) :
          /\ CountAnswer(i, answer)
          /\ IF answer = "live"
             THEN TakeUp(i, copy[i], answer) /\ pc' = "profile" /\ live' = live \cup {i}
             ELSE copy' = [copy EXCEPT ![i] = NoRow] /\ UNCHANGED <<cur, probe, sent, pc, live>>
      BY <2>5 DEF ProbeManual
    <3>1. /\ pc = "next" /\ pass = "manual" /\ i \in todo /\ todo' = todo \ {i}
          /\ UNCHANGED <<row, pass, quiet>>
      BY <2>5 DEF ProbeManual
    <3>2. CASE answer = "live"
      <4>1. copy' = copy /\ cur' = i /\ pc' = "profile"
        BY <3>2, <2>t1 DEF TakeUp
      <4> QED
        BY <3>1, <4>1, <2>t2 DEF QuietRows, QuietCopies, CopyInUse, InHandEnabled, TodoEnabled, IdlePass
    <3>3. CASE answer # "live"
      <4>1. copy' = [copy EXCEPT ![i] = NoRow] /\ UNCHANGED <<cur, pc>>
        BY <3>3
      <4> QED
        BY <3>1, <4>1, <2>t1, <2>t2 DEF QuietRows, QuietCopies, CopyInUse, InHandEnabled, TodoEnabled, IdlePass
    <3> QED
      BY <3>2, <3>3
  <2>6. CASE PublishProfile
    <3>1. [copy[cur] EXCEPT !.hash = content[cur]].enabled = copy[cur].enabled
      BY <2>t1, FlagKept
    <3>2. copy' = copy \/ copy' = [copy EXCEPT ![cur].hash = content[cur]]
      BY <2>6 DEF PublishProfile
    <3>3. \A j \in Instances : copy'[j].enabled = copy[j].enabled
      BY <3>1, <3>2, <2>t1
    <3> QED
      BY <2>6, <3>3, <2>s DEF PublishProfile
  <2>7. CASE SaveHash
    <3>1. \A j \in Instances : row'[j].known = row[j].known /\ row'[j].enabled = row[j].enabled
      BY <2>7, <2>t1, FlagKept DEF SaveHash
    <3> QED
      BY <2>7, <3>1, <2>s DEF SaveHash
  <2>8. CASE PublishLiveEvent
    <3>1. [copy[cur] EXCEPT !.starts = StartNow].enabled = copy[cur].enabled
      BY <2>t1, FlagKept
    <3>2. copy' = copy \/ copy' = [copy EXCEPT ![cur].starts = StartNow]
      BY <2>8 DEF PublishLiveEvent
    <3>3. \A j \in Instances : copy'[j].enabled = copy[j].enabled
      BY <3>1, <3>2, <2>t1
    <3> QED
      BY <2>8, <3>3, <2>s DEF PublishLiveEvent
  <2>9. ASSUME NEW i \in Instances, ProbeGone(i) PROVE QuietInv'
    <3>1. /\ pc = "next" /\ pass = "gone" /\ i \in todo /\ todo' = todo \ {i}
          /\ UNCHANGED <<row, pass, quiet>>
      BY <2>9 DEF ProbeGone
    <3>2. copy' = copy /\ cur' = i /\ pc' \in {"publish", "save"}
      BY <2>9, <2>t1 DEF ProbeGone, TakeUp
    <3> QED
      BY <3>1, <3>2, <2>t2 DEF QuietRows, QuietCopies, CopyInUse, InHandEnabled, TodoEnabled, IdlePass
  <2>10. CASE PublishEnded
    BY <2>10, <2>s DEF PublishEnded
  <2>11. CASE Save
    <3>1. /\ copy' = [copy EXCEPT ![cur] = NoRow] /\ pc' = "next" /\ pc = "save"
          /\ UNCHANGED <<pass, todo, quiet>>
      BY <2>11 DEF Save, DropCurrent
    <3>2. \A j \in Instances : row'[j].known = row[j].known /\ row'[j].enabled = row[j].enabled
      <4>1. pass \in {"live", "manual", "gone"}
        BY DEF TypeOK, CycleOK
      <4>2. row'[cur] \in {SaveSeen(row[cur]), SaveManual(row[cur]), SaveGone(row[cur])}
        BY <2>11, <2>t1, <4>1 DEF Save
      <4>3. \A j \in Instances \ {cur} : row'[j] = row[j]
        BY <2>11, <2>t1 DEF Save
      <4> QED
        BY <4>2, <4>3, <2>t1, SavedRowFlag
    <3>3. QuietRows' /\ QuietCopies'
      BY <3>1, <3>2, <2>t1 DEF QuietRows, QuietCopies
    <3>4. cur \notin todo
      BY <3>1 DEF InHandEnabled
    <3> QED
      BY <3>1, <3>3, <3>4, <2>t1, <2>t2 DEF CopyInUse, InHandEnabled, TodoEnabled, IdlePass
  <2>12. CASE EndCycle
    <3>1. \A j \in Instances : ~copy[j].enabled
      BY <2>12 DEF EndCycle, CopyInUse
    <3> QED
      BY <2>12, <3>1 DEF EndCycle, QuietRows, QuietCopies, CopyInUse, InHandEnabled, TodoEnabled, IdlePass
  <2>13. CASE AbortCycle
    BY <2>13 DEF AbortCycle, QuietRows, QuietCopies, CopyInUse, InHandEnabled, TodoEnabled, IdlePass
  <2>14. ASSUME NEW i \in Instances, HeartbeatElapses(i) PROVE QuietInv'
    <3>1. \A j \in Instances : row'[j].known = row[j].known /\ row'[j].enabled = row[j].enabled
      BY <2>14, <2>t1, FlagKept DEF HeartbeatElapses
    <3>2. \A j \in Instances : copy'[j].enabled = copy[j].enabled
      BY <2>14, <2>t1, FlagKept DEF HeartbeatElapses
    <3> QED
      BY <2>14, <3>1, <3>2, <2>s DEF HeartbeatElapses
  <2>15. ASSUME NEW i \in Instances, SetDiscovery(i) PROVE QuietInv'
    <3>1. /\ row' = [row EXCEPT ![i].enabled = ~@] /\ quiet' = [quiet EXCEPT ![i] = FALSE]
          /\ UNCHANGED <<copy, todo, pass, cur, pc>>
      BY <2>15 DEF SetDiscovery
    <3>2. QuietRows' /\ QuietCopies'
      BY <3>1, <2>t1 DEF QuietRows, QuietCopies
    <3> QED
      BY <3>1, <3>2 DEF CopyInUse, InHandEnabled, TodoEnabled, IdlePass
  <2>16. ASSUME NEW i \in Instances, RepublishProfile(i) PROVE QuietInv'
    <3>1. \A j \in Instances : row'[j].known = row[j].known /\ row'[j].enabled = row[j].enabled
      BY <2>16, <2>t1, FlagKept DEF RepublishProfile
    <3> QED
      BY <2>16, <3>1, <2>s DEF RepublishProfile
  <2>17. ASSUME NEW i \in Instances, RetractCheck(i) PROVE QuietInv'
    BY <2>17, <2>s DEF RetractCheck
  <2>18. CASE RetractDelete \/ RetractBlank
    BY <2>18, <2>s DEF RetractDelete, RetractBlank
  <2>19. CASE RetractSave
    <3>1. \A j \in Instances : row'[j].known = row[j].known /\ row'[j].enabled = row[j].enabled
      BY <2>19, <2>t1, FlagKept DEF RetractSave
    <3> QED
      BY <2>19, <3>1, <2>s DEF RetractSave
  <2>20. ASSUME NEW i \in Instances, StreamTurns(i) \/ DirectoryTurns(i) \/ MetadataTurns(i)
         PROVE  QuietInv'
    BY <2>20, <2>s DEF StreamTurns, DirectoryTurns, MetadataTurns
  <2>21. CASE UNCHANGED vars
    BY <2>21, <2>s DEF vars
  <2>22. CASE Engine
    BY <2>1, <2>2, <2>3, <2>4, <2>5, <2>6, <2>7, <2>8, <2>9, <2>10, <2>11, <2>12, <2>22 DEF Engine
  <2>23. CASE Operator
    BY <2>15, <2>16, <2>17, <2>18, <2>19, <2>23, ConstantsAssumption DEF Operator
  <2>24. CASE Source
    BY <2>20, <2>24 DEF Source
  <2> QED
    BY <2>13, <2>14, <2>21, <2>22, <2>23, <2>24 DEF Next
<1>3. QuietInv /\ TypeOK => QuietWhenOff
  BY DEF QuietInv, QuietWhenOff, QuietCopies, InHandEnabled, TodoEnabled, TypeOK, CycleOK
<1> QED
  BY <1>1, <1>2, <1>3, TypeCorrect, PTL DEF Spec

-----------------------------------------------------------------------------
(* Rows and relays *)

\* Inductive form of RowMatchesRelay, while nothing was refused, cut short or
\* retracted: a copy in use has the status and the publish marker of its row, and
\* what the update of an instance is about to write is what the event relay holds.
Calm == rejects = 0 /\ aborts = 0 /\ retracts = 0
Busy == pc \notin {"idle", "next"}
InUse(i) == (i \in todo /\ pass # "live") \/ (i = cur /\ Busy)
Agrees(i) == row[i].pub # "never" => event[i].status = row[i].status

RowsAgree == \A i \in Instances : ~(pc = "save" /\ cur = i) => Agrees(i)
CopiesFaithful == \A i \in Instances : InUse(i) =>
    copy[i].status = row[i].status /\ copy[i].pub = row[i].pub
InHandOnce == Busy => cur \notin todo
ManualLive == pass = "manual" /\ Busy => probe = "live" /\ pc # "probe"
GoneSteps == /\ pass = "gone" /\ Busy => pc \in {"publish", "save"}
             /\ pass = "gone" /\ pc = "publish" => probe # "live"
SaveAgrees == pc = "save" =>
    IF pass # "gone" THEN event[cur].status = StatusNow
    ELSE IF sent THEN probe # "live" /\ event[cur].status = "ended"
    ELSE Agrees(cur)
Matched == /\ op.step = "none" /\ RowsAgree /\ CopiesFaithful
           /\ InHandOnce /\ ManualLive /\ GoneSteps /\ SaveAgrees
MatchInv == Calm => Matched

\* What an update does not name it keeps.
LEMMA MarkersKept ==
  ASSUME NEW r \in Row
  PROVE  \A v : /\ [r EXCEPT !.enabled = v].status = r.status
                /\ [r EXCEPT !.enabled = v].pub = r.pub
                /\ [r EXCEPT !.hash = v].status = r.status
                /\ [r EXCEPT !.hash = v].pub = r.pub
                /\ [r EXCEPT !.starts = v].status = r.status
                /\ [r EXCEPT !.starts = v].pub = r.pub
                /\ [r EXCEPT !.pub = v].status = r.status
                /\ [r EXCEPT !.pub = v].pub = v
  BY DEF Row

\* upsertSeen keeps both markers, or leaves a row that was never published.
LEMMA SeenRowMarkers ==
  ASSUME TypeOK, NEW i \in Instances
  PROVE  \/ SeenRow(i).pub = "never"
         \/ SeenRow(i).pub = row[i].pub /\ SeenRow(i).status = row[i].status
<1>1. row[i] \in Row
  BY DEF TypeOK, RowsOK
<1>2. NewRow(i).pub = "never"
  BY DEF NewRow, NoRow
<1> QED
  BY <1>1, <1>2, MarkersKept DEF SeenRow

\* The markers after the final updates.
LEMMA SavedMarkers ==
  ASSUME NEW r \in Row
  PROVE  /\ SaveSeen(r).status = StatusNow
         /\ SaveManual(r).status = "live"
         /\ probe = "live" => SaveGone(r).status = r.status /\ SaveGone(r).pub = r.pub
         /\ probe # "live" /\ sent => SaveGone(r).status = "ended"
         /\ probe # "live" /\ ~sent => SaveGone(r).status = r.status /\ SaveGone(r).pub = r.pub
  BY DEF SaveSeen, SaveManual, SaveGone, Row

\* What was refused, cut short or retracted stays counted.
LEMMA CalmBefore ==
  ASSUME TypeOK, [Next]_vars, Calm'
  PROVE  Calm
<1> USE DEF boundVars
<1>1. rejects \in Nat /\ aborts \in Nat /\ retracts \in Nat
  BY ConstantsAssumption DEF TypeOK, BoundsOK
<1>2. rejects' = rejects \/ rejects' = rejects + 1
  BY DEF Next, Engine, Operator, Source, vars, FetchLive, UpsertSeen, ProbeSeen, ListManual,
     ProbeManual, PublishProfile, SendProfile, SaveHash, PublishLiveEvent, SendEvent, ListActive, ActiveRow,
     ProbeGone, PublishEnded, Save, EndCycle, AbortCycle, HeartbeatElapses, SetDiscovery,
     RetractCheck, RetractDelete, RetractBlank, RetractSave, RepublishProfile, StreamTurns, DirectoryTurns,
     MetadataTurns
<1>3. aborts' = aborts \/ aborts' = aborts + 1
  BY DEF Next, Engine, Operator, Source, vars, FetchLive, UpsertSeen, ProbeSeen, ListManual,
     ProbeManual, PublishProfile, SendProfile, SaveHash, PublishLiveEvent, SendEvent, ListActive, ActiveRow,
     ProbeGone, PublishEnded, Save, EndCycle, AbortCycle, HeartbeatElapses, SetDiscovery,
     RetractCheck, RetractDelete, RetractBlank, RetractSave, RepublishProfile, StreamTurns, DirectoryTurns,
     MetadataTurns
<1>4. retracts' = retracts \/ retracts' = retracts + 1
  BY DEF Next, Engine, Operator, Source, vars, FetchLive, UpsertSeen, ProbeSeen, ListManual,
     ProbeManual, PublishProfile, SendProfile, SaveHash, PublishLiveEvent, SendEvent, ListActive, ActiveRow,
     ProbeGone, PublishEnded, Save, EndCycle, AbortCycle, HeartbeatElapses, SetDiscovery,
     RetractCheck, RetractDelete, RetractBlank, RetractSave, RepublishProfile, StreamTurns, DirectoryTurns,
     MetadataTurns
<1> QED
  BY <1>1, <1>2, <1>3, <1>4 DEF Calm

\* While nothing is refused, cut short or retracted, what a row says of the
\* stream is what the event relay says, but for the instance in hand between its
\* publish and its update, for every number of instances.
THEOREM MatchCorrect == Spec => []RowMatchesRelay
<1> USE DEF relayVars, sourceVars, engineVars, boundVars, histVars
<1>1. Init => MatchInv
  <2> SUFFICES ASSUME Init PROVE MatchInv
    OBVIOUS
  <2>0. NoRow.pub = "never" /\ SeededRow.pub = "never"
    BY DEF SeededRow, NoRow
  <2> PICK seeded \in SUBSET Seedable :
        row = [i \in Instances |-> IF i \in seeded THEN SeededRow ELSE NoRow]
    BY DEF Init
  <2>1. \A i \in Instances : row[i].pub = "never"
    BY <2>0
  <2>2. pc = "idle" /\ pass = "live" /\ op = NoOp
    BY DEF Init
  <2>3. op.step = "none"
    BY <2>2 DEF NoOp
  <2> QED
    BY <2>1, <2>2, <2>3 DEF MatchInv, Matched, RowsAgree, Agrees, CopiesFaithful, InUse, Busy,
       InHandOnce, ManualLive, GoneSteps, SaveAgrees
<1>2. TypeOK /\ TypeOK' /\ MatchInv /\ [Next]_vars => MatchInv'
  <2> SUFFICES ASSUME TypeOK, TypeOK', MatchInv, [Next]_vars, Calm' PROVE Matched'
    BY DEF MatchInv
  <2>m. Calm /\ Matched
    BY CalmBefore DEF MatchInv
  <2> USE <2>m DEF Matched
  <2>t1. /\ row \in [Instances -> Row] /\ copy \in [Instances -> Row]
         /\ row' \in [Instances -> Row] /\ copy' \in [Instances -> Row]
         /\ event \in [Instances -> Event]
         /\ cur \in Instances /\ todo \subseteq Instances /\ todo' \subseteq Instances
         /\ pass \in {"live", "manual", "gone"} /\ sent \in BOOLEAN
    BY DEF TypeOK, RowsOK, RelaysOK, CycleOK
  <2>t2. rejects \in Nat /\ aborts \in Nat /\ retracts \in Nat
    BY ConstantsAssumption DEF TypeOK, BoundsOK
  \* A step that keeps the markers of rows and copies, the events, the loop, what
  \* is in hand and where the cycle is.
  <2>s. ASSUME \A j \in Instances :
                  /\ row'[j].status = row[j].status /\ copy'[j].status = copy[j].status
                  /\ row'[j].pub = row[j].pub /\ copy'[j].pub = copy[j].pub,
               UNCHANGED <<event, pass, todo, cur, sent, op, pc, probe>>
        PROVE  Matched'
    BY <2>s, <2>t1 DEF RowsAgree, Agrees, CopiesFaithful, InUse, Busy, InHandOnce, ManualLive,
       GoneSteps, SaveAgrees, StatusNow
  \* A step within the first two loops that keeps the markers and is neither the
  \* publish nor the update of a 30311.
  <2>w. ASSUME \A j \in Instances :
                  /\ row'[j].status = row[j].status /\ copy'[j].status = copy[j].status
                  /\ row'[j].pub = row[j].pub /\ copy'[j].pub = copy[j].pub,
               UNCHANGED <<event, pass, todo, cur, sent, op>>,
               pc \in {"probe", "profile", "hash"}, pc' \in {"profile", "hash", "publish"},
               probe' = probe \/ pc = "probe"
        PROVE  Matched'
    <3>1. pass # "gone"
      BY <2>w DEF GoneSteps, Busy
    <3>2. RowsAgree' /\ CopiesFaithful' /\ InHandOnce'
      BY <2>w, <2>t1 DEF RowsAgree, Agrees, CopiesFaithful, InUse, Busy, InHandOnce
    <3> QED
      BY <2>w, <3>1, <3>2 DEF ManualLive, GoneSteps, SaveAgrees, Busy
  \* A step between two instances of a loop, or between two loops.
  <2>b. ASSUME UNCHANGED <<event, op>>, ~Busy, ~Busy',
               \A j \in Instances : \/ row'[j].pub = "never"
                                    \/ row'[j].pub = row[j].pub /\ row'[j].status = row[j].status,
               pass' # "live" => \A j \in todo' :
                  copy'[j].status = row'[j].status /\ copy'[j].pub = row'[j].pub
        PROVE  Matched'
    <3>1. pc # "save" /\ pc' \in {"idle", "next"}
      BY <2>b DEF Busy
    <3>2. RowsAgree'
      BY <2>b, <3>1 DEF RowsAgree, Agrees
    <3>3. CopiesFaithful'
      BY <2>b DEF CopiesFaithful, InUse
    <3> QED
      BY <2>b, <3>1, <3>2, <3>3 DEF InHandOnce, ManualLive, GoneSteps, SaveAgrees
  <2>1. CASE FetchLive
    BY <2>1, <2>b DEF FetchLive, Busy
  <2>2. ASSUME NEW i \in Instances, UpsertSeen(i) PROVE Matched'
    <3>1. \A j \in Instances : \/ row'[j].pub = "never"
                               \/ row'[j].pub = row[j].pub /\ row'[j].status = row[j].status
      BY <2>2, <2>t1, SeenRowMarkers DEF UpsertSeen
    <3>2. /\ pc = "next" /\ pass = "live" /\ pass' = pass /\ todo' = todo \ {i}
          /\ UNCHANGED <<event, op>> /\ row'[i] = SeenRow(i)
      BY <2>2, <2>t1 DEF UpsertSeen
    <3>3. CASE SeenRow(i).enabled
      <4>1. cur' = i /\ copy'[i] = SeenRow(i) /\ pc' = "probe"
        BY <2>2, <3>3, <2>t1 DEF UpsertSeen, TakeUp
      <4>2. RowsAgree'
        BY <3>1, <3>2, <4>1 DEF RowsAgree, Agrees
      <4>3. CopiesFaithful' /\ InHandOnce'
        BY <3>2, <4>1 DEF CopiesFaithful, InUse, InHandOnce
      <4> QED
        BY <3>2, <4>1, <4>2, <4>3 DEF ManualLive, GoneSteps, SaveAgrees
    <3>4. CASE ~SeenRow(i).enabled
      <4>1. pc' = pc
        BY <2>2, <3>4 DEF UpsertSeen
      <4> QED
        BY <3>1, <3>2, <4>1, <2>b DEF Busy
    <3> QED
      BY <3>3, <3>4
  <2>3. CASE ProbeSeen
    <3>1. /\ pc = "probe" /\ pc' = "profile"
          /\ UNCHANGED <<row, copy, event, pass, todo, cur, sent, op>>
      BY <2>3 DEF ProbeSeen
    <3> QED
      BY <3>1, <2>w
  <2>4. CASE ListManual \/ ListActive
    <3>1. /\ pc = "next" /\ pc' = "next" /\ UNCHANGED <<row, event, op>>
          /\ copy' = [j \in Instances |-> IF j \in todo' THEN row[j] ELSE NoRow]
      BY <2>4 DEF ListManual, ListActive, ActiveRow
    <3>2. \A j \in todo' : copy'[j] = row'[j]
      BY <3>1, <2>t1
    <3> QED
      BY <3>1, <3>2, <2>b DEF Busy
  <2>5. ASSUME NEW i \in Instances, ProbeManual(i) PROVE Matched'
    <3> PICK answer \in CheckLiveness(i) :
          /\ CountAnswer(i, answer)
          /\ IF answer = "live"
             THEN TakeUp(i, copy[i], answer) /\ pc' = "profile" /\ live' = live \cup {i}
             ELSE copy' = [copy EXCEPT ![i] = NoRow] /\ UNCHANGED <<cur, probe, sent, pc, live>>
      BY <2>5 DEF ProbeManual
    <3>1. /\ pc = "next" /\ pass = "manual" /\ i \in todo /\ todo' = todo \ {i}
          /\ UNCHANGED <<row, event, pass, op>>
      BY <2>5 DEF ProbeManual
    <3>2. CASE answer = "live"
      <4>1. copy' = copy /\ cur' = i /\ pc' = "profile" /\ probe' = "live"
        BY <3>2, <2>t1 DEF TakeUp
      <4>2. RowsAgree'
        BY <3>1, <4>1 DEF RowsAgree, Agrees
      <4>3. CopiesFaithful' /\ InHandOnce'
        BY <3>1, <4>1 DEF CopiesFaithful, InUse, InHandOnce
      <4> QED
        BY <3>1, <4>1, <4>2, <4>3 DEF ManualLive, GoneSteps, SaveAgrees
    <3>3. CASE answer # "live"
      <4>1. copy' = [copy EXCEPT ![i] = NoRow] /\ pc' = pc
        BY <3>3
      <4>2. \A j \in todo' : copy'[j] = copy[j]
        BY <3>1, <4>1, <2>t1
      <4> QED
        BY <3>1, <4>1, <4>2, <2>b, <2>t1 DEF Busy, CopiesFaithful, InUse
    <3> QED
      BY <3>2, <3>3
  <2>6. CASE PublishProfile
    <3>0. /\ [copy[cur] EXCEPT !.hash = content[cur]].status = copy[cur].status
          /\ [copy[cur] EXCEPT !.hash = content[cur]].pub = copy[cur].pub
      BY <2>t1, MarkersKept
    <3>1. copy' = copy \/ copy' = [copy EXCEPT ![cur].hash = content[cur]]
      BY <2>6 DEF PublishProfile
    <3>2. \A j \in Instances : copy'[j].status = copy[j].status /\ copy'[j].pub = copy[j].pub
      BY <3>0, <3>1, <2>t1
    <3> QED
      BY <2>6, <3>2, <2>w DEF PublishProfile
  <2>7. CASE SaveHash
    <3>1. \A j \in Instances : row'[j].status = row[j].status /\ row'[j].pub = row[j].pub
      BY <2>7, <2>t1, MarkersKept DEF SaveHash
    <3> QED
      BY <2>7, <3>1, <2>w DEF SaveHash
  <2>8. CASE PublishLiveEvent
    <3>1. /\ pc = "publish" /\ pass # "gone" /\ pc' = "save"
          /\ UNCHANGED <<row, pass, todo, cur, probe, op>>
      BY <2>8 DEF PublishLiveEvent
    <3>2. \A j \in Instances : copy'[j].status = copy[j].status /\ copy'[j].pub = copy[j].pub
      <4>1. copy' = copy \/ copy' = [copy EXCEPT ![cur].starts = StartNow]
        BY <2>8 DEF PublishLiveEvent
      <4>2. /\ [copy[cur] EXCEPT !.starts = StartNow].status = copy[cur].status
            /\ [copy[cur] EXCEPT !.starts = StartNow].pub = copy[cur].pub
        BY <2>t1, MarkersKept
      <4> QED
        BY <4>1, <4>2, <2>t1
    <3>3. /\ \A j \in Instances \ {cur} : event'[j] = event[j]
          /\ event'[cur].status = StatusNow
      <4> PICK v \in BOOLEAN :
            IF Due(v)
            THEN /\ SendEvent(cur, [status |-> StatusNow, starts |-> StartNow])
                 /\ copy' = [copy EXCEPT ![cur].starts = StartNow]
                 /\ sent' = TRUE
            ELSE UNCHANGED <<event, rejects, copy, sent>>
        BY <2>8 DEF PublishLiveEvent
      <4>1. CASE Due(v)
        BY <4>1, <2>t1, <2>t2 DEF SendEvent, Calm
      <4>2. CASE ~Due(v)
        <5>1. event' = event /\ copy[cur].pub = "fresh" /\ copy[cur].status = StatusNow
          BY <4>2 DEF Due
        <5>2. row[cur].pub = "fresh" /\ row[cur].status = StatusNow
          BY <5>1, <3>1, <2>t1 DEF CopiesFaithful, InUse, Busy
        <5>3. Agrees(cur)
          BY <3>1, <2>t1 DEF RowsAgree
        <5> QED
          BY <5>1, <5>2, <5>3 DEF Agrees
      <4> QED
        BY <4>1, <4>2
    <3>4. StatusNow' = StatusNow
      BY <3>1 DEF StatusNow
    <3>5. RowsAgree'
      BY <3>1, <3>3 DEF RowsAgree, Agrees
    <3>6. CopiesFaithful' /\ InHandOnce'
      BY <3>1, <3>2, <2>t1 DEF CopiesFaithful, InUse, InHandOnce, Busy
    <3> QED
      BY <3>1, <3>3, <3>4, <3>5, <3>6 DEF ManualLive, GoneSteps, SaveAgrees, Busy
  <2>9. ASSUME NEW i \in Instances, ProbeGone(i) PROVE Matched'
    <3> PICK answer \in CheckLiveness(i) :
          /\ TakeUp(i, copy[i], answer)
          /\ pc' = IF answer # "live" /\ LastFailure(i) THEN "publish" ELSE "save"
      BY <2>9 DEF ProbeGone
    <3>1. /\ pc = "next" /\ pass = "gone" /\ i \in todo /\ todo' = todo \ {i}
          /\ UNCHANGED <<row, event, pass, op>>
      BY <2>9 DEF ProbeGone
    <3>2. /\ copy' = copy /\ cur' = i /\ ~sent' /\ pc' \in {"publish", "save"}
          /\ pc' = "publish" => probe' # "live"
      BY <2>t1 DEF TakeUp
    <3>3. \A j \in Instances : Agrees(j)
      BY <3>1 DEF RowsAgree
    <3>4. \A j \in Instances : Agrees(j)'
      BY <3>1, <3>3 DEF Agrees
    <3>5. CopiesFaithful' /\ InHandOnce'
      BY <3>1, <3>2 DEF CopiesFaithful, InUse, InHandOnce
    <3>6. RowsAgree'
      BY <3>4 DEF RowsAgree
    <3>7. SaveAgrees'
      BY <3>1, <3>2, <3>4 DEF SaveAgrees
    <3> QED
      BY <3>1, <3>2, <3>5, <3>6, <3>7 DEF ManualLive, GoneSteps, Busy
  <2>10. CASE PublishEnded
    <3>1. /\ pc = "publish" /\ pass = "gone" /\ pc' = "save" /\ sent' = TRUE
          /\ UNCHANGED <<row, copy, pass, todo, cur, probe, op>>
      BY <2>10 DEF PublishEnded
    <3>2. event' = [event EXCEPT ![cur] = [status |-> "ended", starts |-> copy[cur].starts]]
      BY <2>10, <2>t2 DEF PublishEnded, SendEvent, Calm
    <3>3. RowsAgree'
      BY <3>1, <3>2, <2>t1 DEF RowsAgree, Agrees
    <3>4. CopiesFaithful' /\ InHandOnce'
      BY <3>1 DEF CopiesFaithful, InUse, InHandOnce, Busy
    <3>5. SaveAgrees'
      BY <3>1, <3>2, <2>t1 DEF SaveAgrees, GoneSteps
    <3> QED
      BY <3>1, <3>3, <3>4, <3>5 DEF ManualLive, GoneSteps
  <2>11. CASE Save
    <3>1. /\ pc = "save" /\ pc' = "next" /\ UNCHANGED <<event, pass, todo, op>>
          /\ copy' = [copy EXCEPT ![cur] = NoRow]
      BY <2>11 DEF Save, DropCurrent
    <3>2. row'[cur] = CASE pass = "live" -> SaveSeen(row[cur])
                        [] pass = "manual" -> SaveManual(row[cur])
                        [] pass = "gone" -> SaveGone(row[cur])
      BY <2>11, <2>t1 DEF Save
    <3>3. \A j \in Instances \ {cur} : row'[j] = row[j]
      BY <2>11, <2>t1 DEF Save
    <3>4. row[cur] \in Row
      BY <2>t1
    <3>5. row'[cur].pub # "never" => event[cur].status = row'[cur].status
      <4>1. CASE pass = "live"
        BY <3>1, <3>2, <3>4, <4>1, SavedMarkers DEF SaveAgrees
      <4>2. CASE pass = "manual"
        <5>1. StatusNow = "live"
          BY <3>1, <4>2 DEF ManualLive, Busy, StatusNow
        <5> QED
          BY <3>1, <3>2, <3>4, <4>2, <5>1, SavedMarkers DEF SaveAgrees
      <4>3. CASE pass = "gone"
        <5>1. row'[cur] = SaveGone(row[cur])
          BY <3>2, <4>3
        <5> QED
          BY <3>1, <3>4, <4>3, <5>1, <2>t1, SavedMarkers DEF SaveAgrees, Agrees
      <4> QED
        BY <4>1, <4>2, <4>3, <2>t1
    <3>6. RowsAgree'
      BY <3>1, <3>3, <3>5 DEF RowsAgree, Agrees
    <3>7. \A j \in todo : copy'[j] = copy[j] /\ row'[j] = row[j]
      BY <3>1, <3>3, <2>t1 DEF InHandOnce, Busy
    <3>8. CopiesFaithful'
      BY <3>1, <3>7, <2>t1 DEF CopiesFaithful, InUse, Busy
    <3> QED
      BY <3>1, <3>6, <3>8 DEF InHandOnce, ManualLive, GoneSteps, SaveAgrees, Busy
  <2>12. CASE EndCycle
    BY <2>12, <2>b DEF EndCycle, Busy
  <2>13. CASE AbortCycle
    BY <2>13, <2>t2 DEF AbortCycle, Calm
  <2>14. ASSUME NEW i \in Instances, HeartbeatElapses(i) PROVE Matched'
    <3>1. /\ row' = [row EXCEPT ![i].pub = "stale"] /\ row[i].pub = "fresh"
          /\ copy' = [copy EXCEPT ![i].pub = IF copy[i].pub = "fresh" THEN "stale"
                                             ELSE copy[i].pub]
          /\ UNCHANGED <<event, pass, todo, cur, sent, op, pc, probe>>
      BY <2>14, <2>t1 DEF HeartbeatElapses
    <3>2. /\ \A j \in Instances \ {i} : row'[j] = row[j] /\ copy'[j] = copy[j]
          /\ row'[i].status = row[i].status /\ copy'[i].status = copy[i].status
          /\ row'[i].pub = "stale"
          /\ copy[i].pub = "fresh" => copy'[i].pub = "stale"
      BY <3>1, <2>t1, MarkersKept
    <3>3. \A j \in Instances : Agrees(j)' <=> Agrees(j)
      BY <3>1, <3>2 DEF Agrees
    <3>4. RowsAgree'
      BY <3>1, <3>3 DEF RowsAgree
    <3>5. CopiesFaithful'
      BY <3>1, <3>2 DEF CopiesFaithful, InUse, Busy
    <3>6. SaveAgrees'
      BY <3>1, <3>3, <2>t1 DEF SaveAgrees, StatusNow
    <3> QED
      BY <3>1, <3>4, <3>5, <3>6 DEF InHandOnce, ManualLive, GoneSteps, Busy
  <2>15. ASSUME NEW i \in Instances, SetDiscovery(i) PROVE Matched'
    <3>1. \A j \in Instances : row'[j].status = row[j].status /\ row'[j].pub = row[j].pub
      BY <2>15, <2>t1, MarkersKept DEF SetDiscovery
    <3>2. op'.step = op.step
      BY <2>15 DEF SetDiscovery, TypeOK, OpOK
    <3> QED
      BY <2>15, <3>1, <3>2, <2>t1 DEF SetDiscovery, RowsAgree, Agrees, CopiesFaithful, InUse,
         Busy, InHandOnce, ManualLive, GoneSteps, SaveAgrees, StatusNow
  <2>16. ASSUME NEW i \in Instances, RepublishProfile(i) PROVE Matched'
    <3>1. \A j \in Instances : row'[j].status = row[j].status /\ row'[j].pub = row[j].pub
      BY <2>16, <2>t1, MarkersKept DEF RepublishProfile
    <3> QED
      BY <2>16, <3>1, <2>s DEF RepublishProfile
  <2>17. ASSUME NEW i \in Instances, RetractCheck(i) PROVE Matched'
    BY <2>17, <2>t2 DEF RetractCheck, Calm
  <2>18. CASE RetractDelete \/ RetractBlank \/ RetractSave
    BY <2>18 DEF RetractDelete, RetractBlank, RetractSave
  <2>19. ASSUME NEW i \in Instances, StreamTurns(i) \/ DirectoryTurns(i) \/ MetadataTurns(i)
         PROVE  Matched'
    BY <2>19, <2>s DEF StreamTurns, DirectoryTurns, MetadataTurns
  <2>20. CASE UNCHANGED vars
    BY <2>20, <2>s DEF vars
  <2>21. CASE Engine
    BY <2>1, <2>2, <2>3, <2>4, <2>5, <2>6, <2>7, <2>8, <2>9, <2>10, <2>11, <2>12, <2>21 DEF Engine
  <2>22. CASE Operator
    BY <2>15, <2>16, <2>17, <2>18, <2>22, ConstantsAssumption DEF Operator
  <2>23. CASE Source
    BY <2>19, <2>23 DEF Source
  <2> QED
    BY <2>13, <2>14, <2>20, <2>21, <2>22, <2>23 DEF Next
<1>3. MatchInv => RowMatchesRelay
  BY DEF MatchInv, Matched, Calm, RowsAgree, Agrees, RowMatchesRelay
<1> QED
  BY <1>1, <1>2, <1>3, TypeCorrect, PTL DEF Spec

-----------------------------------------------------------------------------
(* Hashes and profiles *)

\* Inductive form of HashMatchesRelay, on the terms of MatchInv: the hash that is
\* about to be saved is that of the profile just published, whatever became of
\* the row and of the metadata in between.
HashAgrees(i) == row[i].hash # "none" => profile[i] = row[i].hash
HashesAgree == \A i \in Instances : ~(pc = "hash" /\ cur = i) => HashAgrees(i)
HashToSave == pc = "hash" => profile[cur] = copy[cur].hash
Hashed == op.step = "none" /\ HashesAgree /\ HashToSave
HashInv == Calm => Hashed

\* An update that does not name the hash keeps it.
LEMMA HashKept ==
  ASSUME NEW r \in Row
  PROVE  \A v : /\ [r EXCEPT !.enabled = v].hash = r.hash
                /\ [r EXCEPT !.starts = v].hash = r.hash
                /\ [r EXCEPT !.pub = v].hash = r.hash
                /\ [r EXCEPT !.hash = v].hash = v
  BY DEF Row

\* upsertSeen keeps the hash of a row, and gives a new one none.
LEMMA SeenRowHash ==
  ASSUME TypeOK, NEW i \in Instances
  PROVE  SeenRow(i).hash \in {"none", row[i].hash}
<1>1. row[i] \in Row
  BY DEF TypeOK, RowsOK
<1>2. NewRow(i).hash = "none"
  BY DEF NewRow, NoRow
<1> QED
  BY <1>1, <1>2, HashKept DEF SeenRow

\* The final updates keep the hash.
LEMMA SavedHash ==
  ASSUME NEW r \in Row
  PROVE  SaveSeen(r).hash = r.hash /\ SaveManual(r).hash = r.hash /\ SaveGone(r).hash = r.hash
  BY DEF SaveSeen, SaveManual, SaveGone, Row

\* While nothing is refused, cut short or retracted, the hash a row keeps is that
\* of the kind-0 the profile relays hold, but for the instance in hand between
\* its publish and its update: no profile is skipped that the relays lack, for
\* every number of instances and with republish-profiles clearing hashes at will.
THEOREM HashCorrect == Spec => []HashMatchesRelay
<1> USE DEF relayVars, sourceVars, engineVars, boundVars, histVars
<1>1. Init => HashInv
  <2> SUFFICES ASSUME Init PROVE HashInv
    OBVIOUS
  <2>0. NoRow.hash = "none" /\ SeededRow.hash = "none"
    BY DEF SeededRow, NoRow
  <2> PICK seeded \in SUBSET Seedable :
        row = [i \in Instances |-> IF i \in seeded THEN SeededRow ELSE NoRow]
    BY DEF Init
  <2>1. ASSUME NEW i \in Instances PROVE row[i].hash = "none"
    <3>1. row[i] = IF i \in seeded THEN SeededRow ELSE NoRow
      BY Zenon
    <3> QED
      BY <2>0, <3>1
  <2>2. pc = "idle" /\ op.step = "none"
    BY DEF Init, NoOp
  <2> QED
    BY <2>1, <2>2 DEF HashInv, Hashed, HashesAgree, HashAgrees, HashToSave
<1>2. TypeOK /\ TypeOK' /\ HashInv /\ [Next]_vars => HashInv'
  <2> SUFFICES ASSUME TypeOK, TypeOK', HashInv, [Next]_vars, Calm' PROVE Hashed'
    BY DEF HashInv
  <2>m. Calm /\ op.step = "none" /\ HashesAgree /\ HashToSave
    BY CalmBefore DEF HashInv, Hashed
  <2>t1. /\ row \in [Instances -> Row] /\ copy \in [Instances -> Row]
         /\ row' \in [Instances -> Row] /\ profile \in [Instances -> Profiles \cup {"none", "blank"}]
         /\ cur \in Instances
    BY DEF TypeOK, RowsOK, RelaysOK, CycleOK
  <2>t2. rejects \in Nat /\ aborts \in Nat /\ retracts \in Nat
    BY ConstantsAssumption DEF TypeOK, BoundsOK
  \* A step that publishes no profile and saves no hash.
  <2>s. ASSUME \A j \in Instances : row'[j].hash \in {"none", row[j].hash},
               profile' = profile, op'.step = op.step,
               pc' = "hash" => pc = "hash" /\ copy'[cur].hash = copy[cur].hash,
               pc = "hash" => pc' = "hash" /\ cur' = cur
        PROVE  Hashed'
    <3>1. \A j \in Instances : HashAgrees(j) => HashAgrees(j)'
      BY <2>s DEF HashAgrees
    <3>2. HashesAgree'
      BY <2>s, <2>m, <3>1 DEF HashesAgree
    <3>3. HashToSave'
      BY <2>s, <2>m DEF HashToSave
    <3> QED
      BY <2>s, <2>m, <3>2, <3>3 DEF Hashed
  <2>1. CASE FetchLive \/ ProbeSeen \/ ListManual \/ ListActive \/ PublishEnded \/ EndCycle
    <3>1. UNCHANGED <<row, profile, op>> /\ pc # "hash" /\ pc' # "hash"
      BY <2>1 DEF FetchLive, ProbeSeen, ListManual, ListActive, ActiveRow, PublishEnded, EndCycle
    <3> QED
      BY <3>1, <2>s
  <2>2. ASSUME NEW i \in Instances, UpsertSeen(i) PROVE Hashed'
    <3>1. \A j \in Instances : row'[j].hash \in {"none", row[j].hash}
      BY <2>2, <2>t1, SeenRowHash DEF UpsertSeen
    <3>2. UNCHANGED <<profile, op>> /\ pc = "next" /\ pc' \in {"next", "probe"}
      BY <2>2 DEF UpsertSeen
    <3> QED
      BY <3>1, <3>2, <2>s
  <2>3. ASSUME NEW i \in Instances, ProbeManual(i) \/ ProbeGone(i) PROVE Hashed'
    <3>1. UNCHANGED <<row, profile, op>> /\ pc = "next"
      BY <2>3 DEF ProbeManual, ProbeGone
    <3>2. pc' \in {"next", "profile", "publish", "save"}
      BY <2>3, <3>1 DEF ProbeManual, ProbeGone
    <3> QED
      BY <3>1, <3>2, <2>s
  <2>4. CASE PublishProfile
    <3>1. UNCHANGED <<row, cur, op>> /\ pc = "profile"
      BY <2>4 DEF PublishProfile
    <3>2. \A j \in Instances : HashAgrees(j)
      BY <3>1, <2>m DEF HashesAgree
    <3>3. CASE copy[cur].hash = content[cur]
      <4>1. UNCHANGED profile /\ pc' = "publish"
        BY <2>4, <3>3 DEF PublishProfile
      <4> QED
        BY <3>1, <4>1, <2>s
    <3>4. CASE copy[cur].hash # content[cur]
      <4>1. /\ pc' = "hash" /\ SendProfile(cur, content[cur])
            /\ copy' = [copy EXCEPT ![cur].hash = content[cur]]
        BY <2>4, <3>4 DEF PublishProfile
      <4>2. profile' = [profile EXCEPT ![cur] = content[cur]]
        BY <4>1, <2>m, <2>t2 DEF SendProfile, Calm
      <4>3. copy'[cur].hash = content[cur]
        BY <4>1, <2>t1, HashKept
      <4>4. HashToSave'
        BY <3>1, <4>2, <4>3, <2>t1 DEF HashToSave
      <4>5. HashesAgree'
        BY <3>1, <3>2, <4>1, <4>2, <2>t1 DEF HashesAgree, HashAgrees
      <4> QED
        BY <3>1, <4>4, <4>5, <2>m DEF Hashed
    <3> QED
      BY <3>3, <3>4
  <2>5. CASE SaveHash
    <3>1. UNCHANGED <<profile, cur, copy, op>> /\ pc = "hash" /\ pc' = "publish"
      BY <2>5 DEF SaveHash
    <3>2. /\ \A j \in Instances \ {cur} : row'[j] = row[j]
          /\ row'[cur].hash = copy[cur].hash
      BY <2>5, <2>t1, HashKept DEF SaveHash
    <3>3. HashesAgree'
      BY <3>1, <3>2, <2>m DEF HashesAgree, HashAgrees, HashToSave
    <3> QED
      BY <3>1, <3>3, <2>m DEF Hashed, HashToSave
  <2>6. CASE PublishLiveEvent
    BY <2>6, <2>s DEF PublishLiveEvent
  <2>7. CASE Save
    <3>1. UNCHANGED <<profile, op>> /\ pc = "save" /\ pc' = "next"
      BY <2>7 DEF Save, DropCurrent
    <3>2. row'[cur] \in {SaveSeen(row[cur]), SaveManual(row[cur]), SaveGone(row[cur])}
      BY <2>7, <2>t1, pass \in {"live", "manual", "gone"} DEF Save, TypeOK, CycleOK
    <3>3. \A j \in Instances : row'[j].hash = row[j].hash
      <4>1. row[cur] \in Row /\ \A j \in Instances \ {cur} : row'[j] = row[j]
        BY <2>7, <2>t1 DEF Save
      <4>2. row'[cur].hash = row[cur].hash
        BY <3>2, <4>1, SavedHash
      <4> QED
        BY <4>1, <4>2
    <3> QED
      BY <3>1, <3>3, <2>s
  <2>8. CASE AbortCycle
    BY <2>8, <2>t2 DEF AbortCycle, Calm
  <2>9. ASSUME NEW i \in Instances, HeartbeatElapses(i) PROVE Hashed'
    <3>1. /\ \A j \in Instances : row'[j].hash = row[j].hash
          /\ copy'[cur].hash = copy[cur].hash
      BY <2>9, <2>t1, HashKept DEF HeartbeatElapses
    <3> QED
      BY <2>9, <3>1, <2>s DEF HeartbeatElapses
  <2>10. ASSUME NEW i \in Instances, SetDiscovery(i) PROVE Hashed'
    <3>1. \A j \in Instances : row'[j].hash = row[j].hash
      BY <2>10, <2>t1, HashKept DEF SetDiscovery
    <3>2. op'.step = op.step
      BY <2>10 DEF SetDiscovery, TypeOK, OpOK
    <3> QED
      BY <2>10, <3>1, <3>2, <2>s DEF SetDiscovery
  <2>11. ASSUME NEW i \in Instances, RepublishProfile(i) PROVE Hashed'
    <3>1. \A j \in Instances : row'[j].hash \in {"none", row[j].hash}
      BY <2>11, <2>t1, HashKept DEF RepublishProfile
    <3> QED
      BY <2>11, <3>1, <2>s DEF RepublishProfile
  <2>12. ASSUME NEW i \in Instances, RetractCheck(i) PROVE Hashed'
    BY <2>12, <2>t2 DEF RetractCheck, Calm
  <2>13. CASE RetractDelete \/ RetractBlank \/ RetractSave
    BY <2>13, <2>m DEF RetractDelete, RetractBlank, RetractSave
  <2>14. ASSUME NEW i \in Instances, StreamTurns(i) \/ DirectoryTurns(i) \/ MetadataTurns(i)
         PROVE  Hashed'
    BY <2>14, <2>s DEF StreamTurns, DirectoryTurns, MetadataTurns
  <2>15. CASE UNCHANGED vars
    BY <2>15, <2>s DEF vars
  <2>16. CASE Engine
    BY <2>1, <2>2, <2>3, <2>4, <2>5, <2>6, <2>7, <2>16 DEF Engine
  <2>17. CASE Operator
    BY <2>10, <2>11, <2>12, <2>13, <2>17, ConstantsAssumption DEF Operator
  <2>18. CASE Source
    BY <2>14, <2>18 DEF Source
  <2> QED
    BY <2>8, <2>9, <2>15, <2>16, <2>17, <2>18 DEF Next
<1>3. HashInv => HashMatchesRelay
  BY DEF HashInv, Hashed, Calm, HashesAgree, HashAgrees, HashMatchesRelay
<1> QED
  BY <1>1, <1>2, <1>3, TypeCorrect, PTL DEF Spec

-----------------------------------------------------------------------------
(* Retractions *)

\* Inductive form of CleanRetractionStands: what the engine has in hand, or will
\* take in hand in the running loop, is a known copy, so an instance set aside
\* (opted out, and no copy of it held) is out of the engine's reach.
Aside(i) == row[i].known /\ ~row[i].enabled /\ ~copy[i].known
EnabledKnown == \A i \in Instances : row[i].enabled => row[i].known
InUseKnown == \A i \in Instances : InUse(i) => copy[i].known
OpAside == op.step # "none" /\ op.alone =>
    /\ Aside(op.url)
    /\ op.step \in {"deleted", "wiped"} => event[op.url] = NoEvent
    /\ op.step = "wiped" => profile[op.url] = "blank"
CleanAside == \A i \in Instances : retracted[i] = "clean" => Aside(i) /\ Wiped(i)
StandsInv == InHandOnce /\ EnabledKnown /\ InUseKnown /\ OpAside /\ CleanAside

\* What a final update or upsertSeen keeps of a row set aside by a retraction.
LEMMA WipeKept ==
  ASSUME NEW r \in Row
  PROVE  /\ \A v : /\ [r EXCEPT !.starts = v].status = r.status
                   /\ [r EXCEPT !.starts = v].pub = r.pub
                   /\ [r EXCEPT !.starts = v].hash = r.hash
         /\ LET w == [r EXCEPT !.pub = "never", !.hash = "none", !.status = "ended"]
            IN  w.pub = "never" /\ w.hash = "none" /\ w.status = "ended"
  BY DEF Row

\* Giving a column of a copy a value keeps the copy known.
LEMMA KnownKept ==
  ASSUME NEW r \in Row
  PROVE  \A v : /\ [r EXCEPT !.hash = v].known = r.known
                /\ [r EXCEPT !.starts = v].known = r.known
                /\ [r EXCEPT !.pub = v].known = r.known
  BY DEF Row

\* A retraction begun while the engine held no copy of the row stays in force on
\* both relays and in the row until discovery is switched on again, for every
\* number of instances and of retractions, refusals and aborted cycles.
THEOREM StandsCorrect == Spec => []CleanRetractionStands
<1> USE DEF relayVars, sourceVars, engineVars, boundVars, histVars
<1>1. Init => StandsInv
  <2> SUFFICES ASSUME Init PROVE StandsInv
    OBVIOUS
  <2> PICK seeded \in SUBSET Seedable :
        row = [i \in Instances |-> IF i \in seeded THEN SeededRow ELSE NoRow]
    BY DEF Init
  <2>1. /\ ~NoRow.enabled /\ SeededRow.known
    BY NoRowType DEF SeededRow, NoRow, Row
  <2>2. EnabledKnown
    BY <2>1 DEF EnabledKnown
  <2>3. pc = "idle" /\ pass = "live" /\ op = NoOp /\ retracted = [i \in Instances |-> "no"]
    BY DEF Init
  <2>4. op.step = "none"
    BY <2>3 DEF NoOp
  <2> QED
    BY <2>2, <2>3, <2>4 DEF StandsInv, InHandOnce, InUseKnown, InUse, Busy, OpAside, CleanAside
<1>2. TypeOK /\ TypeOK' /\ StandsInv /\ [Next]_vars => StandsInv'
  <2> SUFFICES ASSUME TypeOK, TypeOK', StandsInv, [Next]_vars PROVE StandsInv'
    OBVIOUS
  <2> USE DEF StandsInv
  <2>t1. /\ row \in [Instances -> Row] /\ copy \in [Instances -> Row]
         /\ row' \in [Instances -> Row] /\ copy' \in [Instances -> Row]
         /\ event \in [Instances -> Event]
         /\ profile \in [Instances -> Profiles \cup {"none", "blank"}]
         /\ cur \in Instances /\ todo \subseteq Instances /\ todo' \subseteq Instances
         /\ pass \in {"live", "manual", "gone"} /\ op.url \in Instances
         /\ retracted \in [Instances -> {"no", "clean", "raced"}]
    BY DEF TypeOK, RowsOK, RelaysOK, CycleOK, OpOK, HistoryOK
  <2>t2. ~NoRow.known /\ ~NoRow.enabled
    BY DEF NoRow
  \* What is in hand is not set aside.
  <2>h. \A j \in Instances : Aside(j) => ~InUse(j)
    BY DEF Aside, InUseKnown
  \* A step that leaves the scripts alone, keeps what is set aside so, and leaves
  \* its row and its events as they are wherever it is.
  <2>a. ASSUME UNCHANGED <<op, retracted>>,
               \A j \in Instances : Aside(j) =>
                  /\ Aside(j)' /\ event'[j] = event[j] /\ profile'[j] = profile[j]
                  /\ Wiped(j) => row'[j].status = row[j].status /\ row'[j].pub = row[j].pub
                                 /\ row'[j].hash = row[j].hash
        PROVE  OpAside' /\ CleanAside'
    <3>1. OpAside'
      BY <2>a, <2>t1 DEF OpAside, Aside
    <3>2. CleanAside'
      BY <2>a, <2>t1 DEF CleanAside, Wiped
    <3> QED
      BY <3>1, <3>2
  \* A step that keeps the flags, the copies' flags, the loop and what is in hand.
  <2>s. ASSUME \A j \in Instances :
                  /\ row'[j].known = row[j].known /\ row'[j].enabled = row[j].enabled
                  /\ copy'[j].known = copy[j].known,
               UNCHANGED <<pass, todo, cur>>,
               pc' = pc \/ (Busy /\ Busy')
        PROVE  /\ InHandOnce' /\ EnabledKnown' /\ InUseKnown'
               /\ \A j \in Instances : Aside(j)' <=> Aside(j)
    <3>1. InHandOnce' /\ EnabledKnown'
      BY <2>s DEF InHandOnce, EnabledKnown, Busy
    <3>2. InUseKnown'
      BY <2>s DEF InUseKnown, InUse, Busy
    <3> QED
      BY <2>s, <3>1, <3>2 DEF Aside
  <2>1. CASE FetchLive
    <3>1. /\ pc' = "next" /\ pass' = "live" /\ todo' \subseteq Instances
          /\ UNCHANGED <<row, event, profile, copy, op, retracted>>
      BY <2>1 DEF FetchLive, LiveSet
    <3>2. OpAside' /\ CleanAside'
      BY <3>1, <2>a DEF Aside
    <3> QED
      BY <3>1, <3>2 DEF InHandOnce, EnabledKnown, InUseKnown, InUse, Busy
  <2>2. ASSUME NEW i \in Instances, UpsertSeen(i) PROVE StandsInv'
    <3>1. /\ pc = "next" /\ pass = "live" /\ pass' = pass /\ todo' = todo \ {i}
          /\ UNCHANGED <<event, profile, op, retracted>> /\ row' = [row EXCEPT ![i] = SeenRow(i)]
      BY <2>2 DEF UpsertSeen
    <3>2. SeenRow(i).known /\ (row[i].known => SeenRow(i).enabled = row[i].enabled)
      BY SeenRowFlag
    <3>3. /\ \A j \in Instances \ {i} : row'[j] = row[j]
          /\ row'[i] = SeenRow(i)
      BY <3>1, <2>t1
    <3>4. EnabledKnown'
      BY <3>2, <3>3 DEF EnabledKnown
    <3>5. row[i].known => /\ SeenRow(i).status = row[i].status /\ SeenRow(i).pub = row[i].pub
                          /\ SeenRow(i).hash = row[i].hash
      BY <2>t1, WipeKept DEF SeenRow
    <3>6. CASE SeenRow(i).enabled
      <4>1. cur' = i /\ copy' = [copy EXCEPT ![i] = SeenRow(i)] /\ pc' = "probe"
        BY <2>2, <3>6 DEF UpsertSeen, TakeUp
      <4>2. ~Aside(i)
        BY <3>2, <3>6 DEF Aside
      <4>3. \A j \in Instances \ {i} : copy'[j] = copy[j]
        BY <4>1, <2>t1
      <4>4. OpAside' /\ CleanAside'
        BY <3>1, <3>3, <4>2, <4>3, <2>a DEF Aside
      <4>5. copy'[i].known
        BY <4>1, <3>2, <2>t1
      <4>6. InHandOnce' /\ InUseKnown'
        BY <3>1, <4>1, <4>5 DEF InHandOnce, InUseKnown, InUse
      <4> QED
        BY <3>4, <4>4, <4>6
    <3>7. CASE ~SeenRow(i).enabled
      <4>1. UNCHANGED <<cur, copy, pc>>
        BY <2>2, <3>7 DEF UpsertSeen
      <4>2. \A j \in Instances : Aside(j) => Aside(j)'
        BY <3>2, <3>3, <3>7, <4>1 DEF Aside
      <4>3. \A j \in Instances : Aside(j) =>
              /\ row'[j].status = row[j].status /\ row'[j].pub = row[j].pub
              /\ row'[j].hash = row[j].hash
        BY <3>3, <3>5 DEF Aside
      <4>4. OpAside' /\ CleanAside'
        BY <3>1, <4>2, <4>3, <2>a
      <4> QED
        BY <3>1, <3>4, <4>1, <4>4 DEF InHandOnce, InUseKnown, InUse, Busy
    <3> QED
      BY <3>6, <3>7
  <2>3. CASE ProbeSeen
    <3>1. /\ UNCHANGED <<row, copy, event, profile, pass, todo, cur, op, retracted>>
          /\ Busy /\ Busy'
      BY <2>3 DEF ProbeSeen, Busy
    <3> QED
      BY <3>1, <2>s, <2>a
  <2>4. CASE ListManual \/ ListActive
    <3>1. /\ pc = "next" /\ pc' = "next" /\ UNCHANGED <<row, event, profile, op, retracted>>
          /\ copy' = [j \in Instances |-> IF j \in todo' THEN row[j] ELSE NoRow]
          /\ \A j \in todo' : row[j].enabled
      BY <2>4 DEF ListManual, ListActive, ActiveRow
    <3>2. \A j \in Instances : Aside(j) => Aside(j)'
      BY <3>1, <2>t2 DEF Aside
    <3>3. OpAside' /\ CleanAside'
      BY <3>1, <3>2, <2>a
    <3>4. InUseKnown'
      BY <3>1, <2>t1 DEF InUseKnown, InUse, Busy, EnabledKnown
    <3> QED
      BY <3>1, <3>3, <3>4 DEF InHandOnce, EnabledKnown, Busy
  <2>5. ASSUME NEW i \in Instances, ProbeManual(i) PROVE StandsInv'
    <3> PICK answer \in CheckLiveness(i) :
          /\ CountAnswer(i, answer)
          /\ IF answer = "live"
             THEN TakeUp(i, copy[i], answer) /\ pc' = "profile" /\ live' = live \cup {i}
             ELSE copy' = [copy EXCEPT ![i] = NoRow] /\ UNCHANGED <<cur, probe, sent, pc, live>>
      BY <2>5 DEF ProbeManual
    <3>1. /\ pc = "next" /\ pass = "manual" /\ i \in todo /\ todo' = todo \ {i}
          /\ UNCHANGED <<row, event, profile, pass, op, retracted>>
      BY <2>5 DEF ProbeManual
    <3>2. EnabledKnown'
      BY <3>1 DEF EnabledKnown
    <3>3. CASE answer = "live"
      <4>1. copy' = copy /\ cur' = i /\ pc' = "profile"
        BY <3>3, <2>t1 DEF TakeUp
      <4>2. OpAside' /\ CleanAside'
        BY <3>1, <4>1, <2>a DEF Aside
      <4> QED
        BY <3>1, <3>2, <4>1, <4>2 DEF InHandOnce, InUseKnown, InUse
    <3>4. CASE answer # "live"
      <4>1. copy' = [copy EXCEPT ![i] = NoRow] /\ pc' = pc
        BY <3>4
      <4>2. \A j \in Instances : Aside(j) => Aside(j)'
        BY <3>1, <4>1, <2>t1, <2>t2 DEF Aside
      <4>3. OpAside' /\ CleanAside'
        BY <3>1, <4>2, <2>a
      <4>4. \A j \in todo' : copy'[j] = copy[j]
        BY <3>1, <4>1, <2>t1
      <4> QED
        BY <3>1, <3>2, <4>1, <4>3, <4>4 DEF InHandOnce, InUseKnown, InUse, Busy
    <3> QED
      BY <3>3, <3>4
  <2>6. CASE PublishProfile
    <3>0. [copy[cur] EXCEPT !.hash = content[cur]].known = copy[cur].known
      BY <2>t1, KnownKept
    <3>1. copy' = copy \/ copy' = [copy EXCEPT ![cur].hash = content[cur]]
      BY <2>6 DEF PublishProfile
    <3>2. \A j \in Instances : copy'[j].known = copy[j].known
      BY <3>0, <3>1, <2>t1
    <3>3. /\ UNCHANGED <<row, event, pass, todo, cur, op, retracted>> /\ Busy /\ Busy'
      BY <2>6 DEF PublishProfile, Busy
    <3>4. \A j \in Instances \ {cur} : profile'[j] = profile[j]
      BY <2>6, <2>t1 DEF PublishProfile, SendProfile
    <3>5. ~Aside(cur)
      BY <3>3, <2>h, <2>t1 DEF InUse
    <3>6. /\ InHandOnce' /\ EnabledKnown' /\ InUseKnown'
          /\ \A j \in Instances : Aside(j)' <=> Aside(j)
      BY <3>2, <3>3, <2>s
    <3> QED
      BY <3>3, <3>4, <3>5, <3>6, <2>a
  <2>7. CASE SaveHash
    <3>1. \A j \in Instances : row'[j].known = row[j].known /\ row'[j].enabled = row[j].enabled
      BY <2>7, <2>t1, FlagKept DEF SaveHash
    <3>2. /\ UNCHANGED <<copy, event, profile, pass, todo, cur, op, retracted>> /\ Busy /\ Busy'
      BY <2>7 DEF SaveHash, Busy
    <3>3. \A j \in Instances \ {cur} : row'[j] = row[j]
      BY <2>7, <2>t1 DEF SaveHash
    <3>4. ~Aside(cur)
      BY <3>2, <2>h, <2>t1 DEF InUse
    <3>5. /\ InHandOnce' /\ EnabledKnown' /\ InUseKnown'
          /\ \A j \in Instances : Aside(j)' <=> Aside(j)
      BY <3>1, <3>2, <2>s
    <3> QED
      BY <3>2, <3>3, <3>4, <3>5, <2>a
  <2>8. CASE PublishLiveEvent
    <3>0. [copy[cur] EXCEPT !.starts = StartNow].known = copy[cur].known
      BY <2>t1, KnownKept
    <3>1. copy' = copy \/ copy' = [copy EXCEPT ![cur].starts = StartNow]
      BY <2>8 DEF PublishLiveEvent
    <3>2. \A j \in Instances : copy'[j].known = copy[j].known
      BY <3>0, <3>1, <2>t1
    <3>3. /\ UNCHANGED <<row, profile, pass, todo, cur, op, retracted>> /\ Busy /\ Busy'
      BY <2>8 DEF PublishLiveEvent, Busy
    <3>4. \A j \in Instances \ {cur} : event'[j] = event[j]
      BY <2>8, <2>t1 DEF PublishLiveEvent, SendEvent
    <3>5. ~Aside(cur)
      BY <3>3, <2>h, <2>t1 DEF InUse
    <3>6. /\ InHandOnce' /\ EnabledKnown' /\ InUseKnown'
          /\ \A j \in Instances : Aside(j)' <=> Aside(j)
      BY <3>2, <3>3, <2>s
    <3> QED
      BY <3>3, <3>4, <3>5, <3>6, <2>a
  <2>9. ASSUME NEW i \in Instances, ProbeGone(i) PROVE StandsInv'
    <3>1. /\ pc = "next" /\ pass = "gone" /\ i \in todo /\ todo' = todo \ {i}
          /\ UNCHANGED <<row, event, profile, pass, op, retracted>>
      BY <2>9 DEF ProbeGone
    <3>2. copy' = copy /\ cur' = i /\ pc' \in {"publish", "save"}
      BY <2>9, <2>t1 DEF ProbeGone, TakeUp
    <3>3. OpAside' /\ CleanAside'
      BY <3>1, <3>2, <2>a DEF Aside
    <3> QED
      BY <3>1, <3>2, <3>3 DEF InHandOnce, EnabledKnown, InUseKnown, InUse
  <2>10. CASE PublishEnded
    <3>1. /\ UNCHANGED <<row, copy, profile, pass, todo, cur, op, retracted>> /\ Busy /\ Busy'
      BY <2>10 DEF PublishEnded, Busy
    <3>2. \A j \in Instances \ {cur} : event'[j] = event[j]
      BY <2>10, <2>t1 DEF PublishEnded, SendEvent
    <3>3. ~Aside(cur)
      BY <3>1, <2>h, <2>t1 DEF InUse
    <3>4. /\ InHandOnce' /\ EnabledKnown' /\ InUseKnown'
          /\ \A j \in Instances : Aside(j)' <=> Aside(j)
      BY <3>1, <2>s
    <3> QED
      BY <3>1, <3>2, <3>3, <3>4, <2>a
  <2>11. CASE Save
    <3>1. /\ pc = "save" /\ pc' = "next" /\ UNCHANGED <<event, profile, pass, todo, op, retracted>>
          /\ copy' = [copy EXCEPT ![cur] = NoRow]
      BY <2>11 DEF Save, DropCurrent
    <3>2. \A j \in Instances \ {cur} : row'[j] = row[j] /\ copy'[j] = copy[j]
      BY <2>11, <3>1, <2>t1 DEF Save
    <3>3. row'[cur].known = row[cur].known /\ row'[cur].enabled = row[cur].enabled
      <4>1. row'[cur] \in {SaveSeen(row[cur]), SaveManual(row[cur]), SaveGone(row[cur])}
        BY <2>11, <2>t1 DEF Save
      <4> QED
        BY <4>1, <2>t1, SavedRowFlag
    <3>4. ~Aside(cur)
      BY <3>1, <2>h, <2>t1 DEF InUse, Busy
    <3>5. OpAside' /\ CleanAside'
      BY <3>1, <3>2, <3>4, <2>a DEF Aside
    <3>6. EnabledKnown'
      BY <3>2, <3>3 DEF EnabledKnown
    <3>7. InUseKnown'
      BY <3>1, <3>2, <2>t1 DEF InHandOnce, InUseKnown, InUse, Busy
    <3> QED
      BY <3>1, <3>5, <3>6, <3>7 DEF InHandOnce, Busy
  <2>12. CASE EndCycle
    <3>1. /\ pc' = "idle" /\ pass' = "live"
          /\ UNCHANGED <<row, event, profile, copy, op, retracted>>
      BY <2>12 DEF EndCycle
    <3>2. OpAside' /\ CleanAside'
      BY <3>1, <2>a DEF Aside
    <3> QED
      BY <3>1, <3>2 DEF InHandOnce, EnabledKnown, InUseKnown, InUse, Busy
  <2>13. CASE AbortCycle
    <3>1. /\ pc' = "idle" /\ pass' = "live" /\ copy' = [j \in Instances |-> NoRow]
          /\ UNCHANGED <<row, event, profile, op, retracted>>
      BY <2>13 DEF AbortCycle
    <3>2. \A j \in Instances : Aside(j) => Aside(j)'
      BY <3>1, <2>t2 DEF Aside
    <3>3. OpAside' /\ CleanAside'
      BY <3>1, <3>2, <2>a
    <3> QED
      BY <3>1, <3>3 DEF InHandOnce, EnabledKnown, InUseKnown, InUse, Busy
  <2>14. ASSUME NEW i \in Instances, HeartbeatElapses(i) PROVE StandsInv'
    <3>1. /\ row[i].pub = "fresh" /\ row' = [row EXCEPT ![i].pub = "stale"]
          /\ copy' = [copy EXCEPT ![i].pub = IF copy[i].pub = "fresh" THEN "stale"
                                             ELSE copy[i].pub]
          /\ UNCHANGED <<event, profile, pass, todo, cur, pc, op, retracted>>
      BY <2>14, <2>t1 DEF HeartbeatElapses
    <3>2. \A j \in Instances : row'[j].known = row[j].known /\ row'[j].enabled = row[j].enabled
      BY <3>1, <2>t1, FlagKept
    <3>3. \A j \in Instances : copy'[j].known = copy[j].known
      BY <3>1, <2>t1, KnownKept
    <3>4. ~Wiped(i)
      BY <3>1 DEF Wiped
    <3>5. \A j \in Instances \ {i} : row'[j] = row[j]
      BY <3>1, <2>t1
    <3>6. /\ InHandOnce' /\ EnabledKnown' /\ InUseKnown'
          /\ \A j \in Instances : Aside(j)' <=> Aside(j)
      BY <3>1, <3>2, <3>3, <2>s
    <3> QED
      BY <3>1, <3>4, <3>5, <3>6, <2>a
  <2>15. ASSUME NEW i \in Instances, SetDiscovery(i) PROVE StandsInv'
    <3>1. /\ row[i].known /\ row' = [row EXCEPT ![i].enabled = ~row[i].enabled]
          /\ retracted' = [retracted EXCEPT ![i] = "no"]
          /\ op' = [op EXCEPT !.alone = op.alone /\ op.url # i]
          /\ UNCHANGED <<event, profile, copy, pass, todo, cur, pc>>
      BY <2>15, <2>t1 DEF SetDiscovery
    <3>2. /\ \A j \in Instances \ {i} : row'[j] = row[j]
          /\ row'[i].known = row[i].known
      <4>1. PICK b \in BOOLEAN : row' = [row EXCEPT ![i].enabled = b]
        BY <3>1
      <4>2. /\ \A j \in Instances \ {i} : row'[j] = row[j]
            /\ row'[i] = [row[i] EXCEPT !.enabled = b] /\ row[i] \in Row
        BY <4>1, <2>t1
      <4> QED
        BY <4>2 DEF Row
    <3>3. op'.step = op.step /\ op'.url = op.url /\ (op'.alone <=> op.alone /\ op.url # i)
      BY <3>1 DEF TypeOK, OpOK
    <3>4. OpAside'
      BY <3>1, <3>2, <3>3, <2>t1 DEF OpAside, Aside
    <3>5. CleanAside'
      BY <3>1, <3>2, <2>t1 DEF CleanAside, Aside, Wiped
    <3>6. EnabledKnown'
      BY <3>1, <3>2 DEF EnabledKnown
    <3> QED
      BY <3>1, <3>4, <3>5, <3>6 DEF InHandOnce, InUseKnown, InUse, Busy
  <2>16. ASSUME NEW i \in Instances, RepublishProfile(i) PROVE StandsInv'
    <3>1. /\ row[i].hash # "none" /\ row' = [row EXCEPT ![i].hash = "none"]
          /\ UNCHANGED <<copy, event, profile, pass, todo, cur, pc, op, retracted>>
      BY <2>16 DEF RepublishProfile
    <3>2. \A j \in Instances : row'[j].known = row[j].known /\ row'[j].enabled = row[j].enabled
      BY <3>1, <2>t1, FlagKept
    <3>3. ~Wiped(i) /\ \A j \in Instances \ {i} : row'[j] = row[j]
      BY <3>1, <2>t1 DEF Wiped
    <3>4. /\ InHandOnce' /\ EnabledKnown' /\ InUseKnown'
          /\ \A j \in Instances : Aside(j)' <=> Aside(j)
      BY <3>1, <3>2, <2>s
    <3> QED
      BY <3>1, <3>3, <3>4, <2>a
  <2>17. ASSUME NEW i \in Instances, RetractCheck(i) PROVE StandsInv'
    <3>1. /\ row[i].known /\ ~row[i].enabled
          /\ op' = [step |-> "checked", url |-> i, alone |-> ~copy[i].known]
          /\ UNCHANGED <<row, copy, event, profile, pass, todo, cur, pc, retracted>>
      BY <2>17 DEF RetractCheck
    <3>2. OpAside'
      BY <3>1 DEF OpAside, Aside
    <3>3. CleanAside'
      BY <3>1 DEF CleanAside, Aside, Wiped
    <3> QED
      BY <3>1, <3>2, <3>3 DEF InHandOnce, EnabledKnown, InUseKnown, InUse, Busy
  <2>18. CASE RetractDelete \/ RetractBlank
    <3>1. /\ op.step # "none" /\ UNCHANGED <<row, copy, pass, todo, cur, pc, retracted>>
          /\ op' = NoOp \/ (op'.url = op.url /\ op'.alone = op.alone)
      BY <2>18 DEF RetractDelete, RetractBlank, TypeOK, OpOK
    <3>2. OpAside'
      <4>1. CASE RetractDelete
        <5>1. op'.step \in {"deleted", "refused"} /\ (op'.step = "deleted" => rejects' = rejects)
          BY <4>1 DEF RetractDelete, TypeOK, OpOK
        <5>2. op'.step = "deleted" => event'[op.url] = NoEvent
          <6>1. rejects' = rejects => event' = [event EXCEPT ![op.url] = NoEvent]
            BY <4>1 DEF RetractDelete, SendEvent, TypeOK, BoundsOK
          <6> QED
            BY <5>1, <6>1, <2>t1
        <5>3. op'.url = op.url /\ op'.alone = op.alone
          BY <4>1 DEF RetractDelete, TypeOK, OpOK
        <5> QED
          BY <3>1, <5>1, <5>2, <5>3 DEF OpAside, Aside
      <4>2. CASE RetractBlank /\ op.step = "deleted" /\ rejects' = rejects
        <5>1. op'.step = "wiped" /\ op'.url = op.url /\ op'.alone = op.alone /\ event' = event
          BY <4>2 DEF RetractBlank, TypeOK, OpOK
        <5>2. profile'[op.url] = "blank"
          BY <4>2, <2>t1 DEF RetractBlank, SendProfile, TypeOK, BoundsOK
        <5> QED
          BY <3>1, <4>2, <5>1, <5>2 DEF OpAside, Aside
      <4>3. CASE RetractBlank /\ ~(op.step = "deleted" /\ rejects' = rejects)
        BY <4>3 DEF RetractBlank, OpAside, NoOp
      <4> QED
        BY <2>18, <4>1, <4>2, <4>3
    <3>3. \A j \in Instances : /\ event[j] = NoEvent => event'[j] = NoEvent
                               /\ profile[j] = "blank" => profile'[j] = "blank"
      BY <2>18, <2>t1 DEF RetractDelete, RetractBlank, SendEvent, SendProfile
    <3>4. CleanAside'
      BY <3>1, <3>3 DEF CleanAside, Aside, Wiped
    <3> QED
      BY <3>1, <3>2, <3>4 DEF InHandOnce, EnabledKnown, InUseKnown, InUse, Busy
  <2>19. CASE RetractSave
    <3>1. /\ op.step = "wiped" /\ op' = NoOp
          /\ UNCHANGED <<copy, event, profile, pass, todo, cur, pc>>
      BY <2>19 DEF RetractSave
    <3>2. /\ \A j \in Instances \ {op.url} : row'[j] = row[j]
          /\ row'[op.url] = [row[op.url] EXCEPT !.pub = "never", !.hash = "none",
                                                !.status = "ended"]
      BY <2>19, <2>t1 DEF RetractSave
    <3>3. row'[op.url].pub = "never" /\ row'[op.url].hash = "none" /\ row'[op.url].status = "ended"
      BY <3>2, <2>t1, WipeKept
    <3>4. \A j \in Instances : row'[j].known = row[j].known /\ row'[j].enabled = row[j].enabled
      <4>1. row'[op.url].known = row[op.url].known /\ row'[op.url].enabled = row[op.url].enabled
        <5>1. row[op.url] \in Row
          BY <2>t1
        <5> QED
          BY <3>2, <5>1 DEF Row
      <4> QED
        BY <3>2, <4>1
    <3>5. /\ \A j \in Instances \ {op.url} : retracted'[j] = retracted[j]
          /\ retracted'[op.url] = "clean" => op.alone
      BY <2>19, <2>t1 DEF RetractSave
    <3>6. /\ InHandOnce' /\ EnabledKnown' /\ InUseKnown'
          /\ \A j \in Instances : Aside(j)' <=> Aside(j)
      BY <3>1, <3>4, <2>s
    <3>7. OpAside'
      BY <3>1 DEF OpAside, NoOp
    <3>8. ASSUME NEW j \in Instances, retracted'[j] = "clean" PROVE Aside(j)' /\ Wiped(j)'
      <4>1. CASE j = op.url
        BY <4>1, <3>1, <3>3, <3>5, <3>6, <3>8 DEF OpAside, Wiped
      <4>2. CASE j # op.url
        BY <4>2, <3>1, <3>2, <3>5, <3>6, <3>8 DEF CleanAside, Wiped
      <4> QED
        BY <4>1, <4>2
    <3> QED
      BY <3>6, <3>7, <3>8 DEF CleanAside
  <2>20. ASSUME NEW i \in Instances, StreamTurns(i) \/ DirectoryTurns(i) \/ MetadataTurns(i)
         PROVE  StandsInv'
    <3>1. UNCHANGED <<row, copy, event, profile, pass, todo, cur, pc, op, retracted>>
      BY <2>20 DEF StreamTurns, DirectoryTurns, MetadataTurns
    <3> QED
      BY <3>1, <2>s, <2>a
  <2>21. CASE UNCHANGED vars
    <3>1. UNCHANGED <<row, copy, event, profile, pass, todo, cur, pc, op, retracted>>
      BY <2>21 DEF vars
    <3> QED
      BY <3>1, <2>s, <2>a
  <2>22. CASE Engine
    BY <2>1, <2>2, <2>3, <2>4, <2>5, <2>6, <2>7, <2>8, <2>9, <2>10, <2>11, <2>12, <2>22 DEF Engine
  <2>23. CASE Operator
    BY <2>15, <2>16, <2>17, <2>18, <2>19, <2>23, ConstantsAssumption DEF Operator
  <2>24. CASE Source
    BY <2>20, <2>24 DEF Source
  <2> QED
    BY <2>13, <2>14, <2>21, <2>22, <2>23, <2>24 DEF Next
<1>3. StandsInv => CleanRetractionStands
  BY DEF StandsInv, CleanAside, CleanRetractionStands
<1> QED
  BY <1>1, <1>2, <1>3, TypeCorrect, PTL DEF Spec

=============================================================================
