----------------------- MODULE WorkflowExecutionProofs -----------------------
(***************************************************************************)
(* The safety properties of WorkflowExecution, for any nodes, graphs and   *)
(* bounds.  Each is proved with an invariant of its own next to TypeOK:    *)
(*   accepted nodes: what a run waits for has no result yet, so that no    *)
(*     answer can take away what an accepted node rests on;                *)
(*   status and runs: the runs that were used are the first ones, and of   *)
(*     two runs under way both are known as overlapped;                    *)
(*   the user's verdict: the status and the last control agree, in memory  *)
(*     and in the file.                                                    *)
(* RunsOnlyAdvance is the part of RunEnds that is no matter of fairness.   *)
(***************************************************************************)
EXTENDS WorkflowExecution, TLAPS

\* The nodes of a wave have no result, and only a run in its waves has one.
WaveIsPending ==
    \A r \in Run : /\ busy[r] \subseteq Remaining(r)
                   /\ phase[r] # "waves" => busy[r] = {}

GroundedInv == TypeOK /\ AcceptedIsGrounded /\ WaveIsPending

-----------------------------------------------------------------------------
(* Types.                                                                  *)

\* No result is a result, and what a run leaves is well typed.
LEMMA NoResultType == NoResult \in [Node -> NodeStatus]
BY DEF NoResult, NodeStatus

\* The graph of the workflow is one without self-loops.
LEMMA GraphType ==
    ASSUME TypeOK PROVE dependsOn \in [Node -> SUBSET Node]
BY GraphsAssumption DEF TypeOK

\* The end of a run keeps the types of its variables.
LEMMA EndsType ==
    ASSUME TypeOK, NEW r \in Run, NEW how \in {"done", "threw"}, Ends(r, how)
    PROVE  /\ phase' \in [Run -> {"unused", "inputs", "waves", "done", "threw", "killed"}]
           /\ aborted' \in [Run -> BOOLEAN]
           /\ result' \in [Run -> [Node -> NodeStatus]]
           /\ overlapped' \subseteq Run
<1> USE DEF TypeOK
<1>1. phase' \in [Run -> {"unused", "inputs", "waves", "done", "threw", "killed"}]
  BY DEF Ends
<1>2. aborted' \in [Run -> BOOLEAN]
  BY Zenon DEF Ends
<1>3. result' \in [Run -> [Node -> NodeStatus]]
  BY NoResultType DEF Ends
<1> QED BY <1>1, <1>2, <1>3 DEF Ends

\* Blocking nodes gives results.
LEMMA BlockType ==
    ASSUME TypeOK, NEW r \in Run, NEW nodes \in SUBSET Node, Block(r, nodes)
    PROVE  /\ result' \in [Run -> [Node -> NodeStatus]]
           /\ \A q \in Run : q # r => result'[q] = result[q]
           /\ \A n \in Node :
                result'[r][n] = IF n \in nodes THEN "blocked" ELSE result[r][n]
BY DEF TypeOK, Block, NodeStatus

LEMMA InitType == Init => TypeOK
<1> SUFFICES ASSUME Init PROVE TypeOK
  OBVIOUS
<1>1. /\ workflow \in Snapshot /\ saved \in Snapshot
      /\ result \in [Run -> [Node -> NodeStatus]] /\ busy \in [Run -> SUBSET Node]
      /\ phase \in [Run -> {"unused", "inputs", "waves", "done", "threw", "killed"}]
      /\ restarts \in 0 .. MaxRestarts
  BY NoResultType, BoundsAssumption DEF Init, Snapshot
<1>2. dirty \in BOOLEAN /\ aborted \in [Run -> BOOLEAN]
  BY Zenon DEF Init
<1> QED BY <1>1, <1>2 DEF Init, TypeOK, NoRun

LEMMA FinalStatusType ==
    ASSUME NEW nodes
    PROVE  FinalStatus(nodes) \in {"paused", "cancelled", "accepted", "failed", "blocked"}
BY DEF FinalStatus, ExecutorStatus

LEMMA RunType ==
    ASSUME TypeOK, NEW r \in Run, Execute(r) \/ RunStep(r) PROVE TypeOK'
<1> USE DEF TypeOK
<1>1. CASE Execute(r)
  <2>1. workflow' \in Snapshot
    BY <1>1 DEF Execute, Snapshot
  <2>2. /\ current' \in Run
        /\ phase' \in [Run -> {"unused", "inputs", "waves", "done", "threw", "killed"}]
        /\ overlapped' \subseteq Run
    BY <1>1 DEF Execute
  <2>3. dirty' \in BOOLEAN
    BY <1>1, Zenon DEF Execute
  <2> QED BY <1>1, <2>1, <2>2, <2>3 DEF Execute
<1>2. CASE InputsReady(r)
  <2>1. result' \in [Run -> [Node -> NodeStatus]]
    BY <1>2 DEF InputsReady, NodeStatus
  <2>2. phase' \in [Run -> {"unused", "inputs", "waves", "done", "threw", "killed"}]
    BY <1>2 DEF InputsReady
  <2> QED BY <1>2, <2>1, <2>2 DEF InputsReady
<1>3. CASE InputsThrow(r) \/ CycleThrows(r)
  BY <1>3, EndsType DEF InputsThrow, CycleThrows
<1>4. CASE NextWave(r)
  <2>1. Ready(r) \in SUBSET Node /\ Blocked(r) \in SUBSET Node
    BY DEF Ready, Blocked, Remaining
  <2>2. result' \in [Run -> [Node -> NodeStatus]] /\ busy' \in [Run -> SUBSET Node]
    BY <1>4, <2>1, BlockType DEF NextWave
  <2> QED BY <1>4, <2>2 DEF NextWave
<1>5. CASE GiveUp(r)
  <2>1. Remaining(r) \in SUBSET Node
    BY DEF Remaining
  <2> QED BY <1>5, <2>1, BlockType DEF GiveUp
<1>6. CASE \E n \in Node : NodeAnswers(r, n)
  BY <1>6 DEF NodeAnswers
<1>7. CASE Finish(r)
  <2>1. workflow' \in Snapshot
    BY <1>7, FinalStatusType DEF Finish, Snapshot
  <2>2. dirty' \in BOOLEAN
    BY <1>7, Zenon DEF Finish
  <2> QED BY <1>7, <2>1, <2>2, EndsType DEF Finish
<1> QED BY <1>1, <1>2, <1>3, <1>4, <1>5, <1>6, <1>7 DEF RunStep

LEMMA OtherType ==
    ASSUME TypeOK, (\E action \in Actions : Control(action)) \/ Save \/ Restart
    PROVE  TypeOK'
<1> USE DEF TypeOK
<1>1. CASE \E action \in Actions : Control(action)
  <2>1. PICK action \in Actions : Control(action)
    BY <1>1
  <2>2. workflow' \in Snapshot
    BY <2>1 DEF Control, Snapshot, Recorded, ControlStatus
  <2>3. dirty' \in BOOLEAN /\ aborted' \in [Run -> BOOLEAN]
    BY <2>1, Zenon DEF Control
  <2> QED BY <2>1, <2>2, <2>3 DEF Control
<1>2. CASE Save
  <2>1. dirty' \in BOOLEAN
    BY <1>2, Zenon DEF Save
  <2> QED BY <1>2, <2>1 DEF Save
<1>3. CASE Restart
  <2>1. /\ phase' \in [Run -> {"unused", "inputs", "waves", "done", "threw", "killed"}]
        /\ busy' \in [Run -> SUBSET Node] /\ restarts' \in 0 .. MaxRestarts
        /\ result' \in [Run -> [Node -> NodeStatus]]
    BY <1>3, NoResultType, BoundsAssumption DEF Restart
  <2>2. dirty' \in BOOLEAN /\ aborted' \in [Run -> BOOLEAN]
    BY <1>3, Zenon DEF Restart
  <2> QED BY <1>3, <2>1, <2>2 DEF Restart, NoRun
<1> QED BY <1>1, <1>2, <1>3

-----------------------------------------------------------------------------
(* Accepted nodes.                                                         *)

\* AcceptedIsGrounded, part by part.
SnapshotGrounded(w) ==
    /\ Grounded(w.nodes)
    /\ w.status = "accepted" => \A n \in Node : w.nodes[n] = "accepted"
RunGrounded(r) ==
    /\ Grounded(result[r])
    /\ \A n \in busy[r] : \A d \in dependsOn[n] : result[r][d] = "accepted"

LEMMA GroundedParts ==
    /\ AcceptedIsGrounded <=> /\ SnapshotGrounded(workflow) /\ SnapshotGrounded(saved)
                              /\ \A r \in Run : RunGrounded(r)
    /\ AcceptedIsGrounded' <=> /\ SnapshotGrounded(workflow)' /\ SnapshotGrounded(saved)'
                               /\ \A r \in Run : RunGrounded(r)'
<1>1. AcceptedIsGrounded <=> /\ SnapshotGrounded(workflow) /\ SnapshotGrounded(saved)
                             /\ \A r \in Run : RunGrounded(r)
  BY DEF AcceptedIsGrounded, SnapshotGrounded, RunGrounded
<1>2. AcceptedIsGrounded' <=> /\ SnapshotGrounded(workflow)' /\ SnapshotGrounded(saved)'
                              /\ \A r \in Run : RunGrounded(r)'
  BY DEF AcceptedIsGrounded, SnapshotGrounded, RunGrounded
<1> QED BY <1>1, <1>2

\* A run that ends, or that has not begun its waves, rests on nothing.
LEMMA EndsGrounded ==
    ASSUME TypeOK, NEW r \in Run, NEW how, Ends(r, how), busy' = busy, busy[r] = {},
           dependsOn' = dependsOn
    PROVE  /\ RunGrounded(r)'
           /\ \A q \in Run : q # r => result'[q] = result[q] /\ phase'[q] = phase[q]
<1>1. result'[r] = NoResult
  BY DEF TypeOK, Ends
<1> QED BY <1>1 DEF TypeOK, Ends, RunGrounded, Grounded, NoResult

LEMMA InitGrounded == Init => GroundedInv
<1> SUFFICES ASSUME Init PROVE GroundedInv
  OBVIOUS
<1>1. SnapshotGrounded(workflow) /\ SnapshotGrounded(saved)
  BY DEF Init, SnapshotGrounded, Grounded, NoResult
<1>2. \A r \in Run : RunGrounded(r)
  BY GraphsAssumption DEF Init, RunGrounded, Grounded, NoResult
<1>3. WaveIsPending
  BY DEF Init, WaveIsPending
<1> QED BY <1>1, <1>2, <1>3, InitType, GroundedParts DEF GroundedInv

\* A run touches its own variables only, and the workflow when it finishes.
LEMMA RunKeepsGrounded ==
    ASSUME GroundedInv, NEW r \in Run, Execute(r) \/ RunStep(r) PROVE GroundedInv'
<1> USE DEF GroundedInv
<1>1. /\ SnapshotGrounded(workflow) /\ SnapshotGrounded(saved)
      /\ \A q \in Run : RunGrounded(q)
  BY GroundedParts
<1>2. saved' = saved /\ dependsOn' = dependsOn
  BY DEF RunStep, Execute, InputsReady, InputsThrow, NextWave, GiveUp, CycleThrows, Finish,
         NodeAnswers
<1>3. SnapshotGrounded(saved)'
  BY <1>1, <1>2 DEF SnapshotGrounded, Grounded
<1>4. dependsOn \in [Node -> SUBSET Node]
  BY GraphType
<1>5. \A q \in Run : /\ result[q] \in [Node -> NodeStatus] /\ busy[q] \in SUBSET Node
                     /\ busy[q] \subseteq Remaining(q)
                     /\ phase[q] # "waves" => busy[q] = {}
  BY DEF TypeOK, WaveIsPending
<1>6. SUFFICES /\ SnapshotGrounded(workflow)'
               /\ \A q \in Run : RunGrounded(q)'
               /\ WaveIsPending'
  BY <1>3, GroundedParts, RunType
<1>7. CASE Execute(r)
  <2>1. workflow'.status = "running" /\ workflow'.nodes = workflow.nodes
    BY <1>7 DEF Execute, TypeOK, Snapshot
  <2>2. SnapshotGrounded(workflow)'
    BY <1>1, <1>2, <2>1 DEF SnapshotGrounded, Grounded
  <2>3. \A q \in Run : RunGrounded(q)'
    BY <1>1, <1>7 DEF Execute, RunGrounded, Grounded
  <2>4. WaveIsPending'
    BY <1>5, <1>7 DEF Execute, WaveIsPending, Remaining, TypeOK
  <2> QED BY <2>2, <2>3, <2>4
<1>8. CASE InputsReady(r)
  <2>1. SnapshotGrounded(workflow)'
    BY <1>1, <1>8 DEF InputsReady, SnapshotGrounded, Grounded
  <2>2. /\ busy' = busy /\ busy[r] = {}
        /\ \A q \in Run : q # r => result'[q] = result[q] /\ phase'[q] = phase[q]
        /\ result'[r] = [n \in Node |-> IF n \in Seeds THEN "accepted" ELSE "pending"]
    BY <1>5, <1>8 DEF InputsReady, TypeOK
  <2>3. Grounded(result[r])'
    BY <1>1, <1>2, <1>4, <2>2 DEF SnapshotGrounded, Grounded, Seeds
  <2>4. \A q \in Run : RunGrounded(q)'
    BY <1>1, <1>2, <2>2, <2>3 DEF RunGrounded, Grounded
  <2>5. WaveIsPending'
    BY <1>5, <2>2 DEF WaveIsPending, Remaining
  <2> QED BY <2>1, <2>4, <2>5
<1>9. CASE InputsThrow(r) \/ CycleThrows(r)
  <2>1. busy' = busy /\ busy[r] = {} /\ workflow' = workflow /\ Ends(r, "threw")
    BY <1>5, <1>9 DEF InputsThrow, CycleThrows, Looping
  <2>2. RunGrounded(r)'
          /\ \A q \in Run : q # r => result'[q] = result[q] /\ phase'[q] = phase[q]
    BY <1>2, <2>1, EndsGrounded
  <2>3. SnapshotGrounded(workflow)'
    BY <1>1, <1>2, <2>1 DEF SnapshotGrounded, Grounded
  <2>4. \A q \in Run : RunGrounded(q)'
    BY <1>1, <1>2, <2>1, <2>2 DEF RunGrounded, Grounded
  <2>5. WaveIsPending'
    BY <1>5, <2>1, <2>2 DEF WaveIsPending, Remaining
  <2> QED BY <2>3, <2>4, <2>5
<1>10. CASE NextWave(r)
  <2>1. /\ Block(r, Blocked(r)) /\ workflow' = workflow /\ phase' = phase
        /\ busy' = [busy EXCEPT ![r] = Ready(r) \ Blocked(r)] /\ phase[r] = "waves"
    BY <1>10 DEF NextWave, Looping
  <2>2. Blocked(r) \in SUBSET Node /\ Blocked(r) \subseteq Remaining(r)
          /\ Ready(r) \subseteq Remaining(r) /\ Remaining(r) \in SUBSET Node
    BY DEF Blocked, Ready, Remaining
  <2>3. /\ \A q \in Run : q # r => result'[q] = result[q] /\ busy'[q] = busy[q]
        /\ \A n \in Node : result'[r][n] = IF n \in Blocked(r) THEN "blocked"
                                            ELSE result[r][n]
        /\ busy'[r] = Ready(r) \ Blocked(r)
    BY <2>1, <2>2, BlockType DEF TypeOK
  <2>4. Grounded(result[r])'
    BY <1>1, <1>2, <1>4, <2>2, <2>3 DEF RunGrounded, Grounded, Remaining
  <2>5. ASSUME NEW n \in Ready(r) \ Blocked(r), NEW d \in dependsOn[n]
        PROVE  result'[r][d] = "accepted"
    <3>1. n \in Node /\ d \in Node /\ d \notin Remaining(r) /\ result[r][d] = "accepted"
      BY <1>4 DEF Ready, Blocked, Remaining
    <3> QED BY <2>2, <2>3, <3>1
  <2>6. \A q \in Run : RunGrounded(q)'
    BY <1>1, <1>2, <2>3, <2>4, <2>5 DEF RunGrounded, Grounded
  <2>7. SnapshotGrounded(workflow)'
    BY <1>1, <1>2, <2>1 DEF SnapshotGrounded, Grounded
  <2>8. WaveIsPending'
    <3>1. Ready(r) \ Blocked(r) \subseteq Remaining(r)'
      BY <2>2, <2>3 DEF Remaining
    <3> QED BY <1>5, <2>1, <2>3, <3>1 DEF WaveIsPending, Remaining
  <2> QED BY <2>6, <2>7, <2>8
<1>11. CASE GiveUp(r)
  <2>1. /\ Block(r, Remaining(r)) /\ workflow' = workflow /\ phase' = phase
        /\ busy' = busy /\ busy[r] = {} /\ Remaining(r) \in SUBSET Node
    BY <1>11 DEF GiveUp, Looping, Remaining
  <2>2. /\ \A q \in Run : q # r => result'[q] = result[q]
        /\ \A n \in Node : result'[r][n] = IF n \in Remaining(r) THEN "blocked"
                                            ELSE result[r][n]
    BY <2>1, BlockType
  <2>3. Grounded(result[r])'
    BY <1>1, <1>2, <1>4, <2>2 DEF RunGrounded, Grounded, Remaining
  <2>4. \A q \in Run : RunGrounded(q)'
    BY <1>1, <1>2, <2>1, <2>2, <2>3 DEF RunGrounded, Grounded
  <2>5. SnapshotGrounded(workflow)'
    BY <1>1, <1>2, <2>1 DEF SnapshotGrounded, Grounded
  <2>6. WaveIsPending'
    BY <1>5, <2>1, <2>2 DEF WaveIsPending, Remaining
  <2> QED BY <2>4, <2>5, <2>6
<1>12. CASE \E n \in Node : NodeAnswers(r, n)
  <2>1. PICK n \in Node : NodeAnswers(r, n)
    BY <1>12
  <2>2. PICK answer \in NodeStatus \ {"pending"} : result' = [result EXCEPT ![r][n] = answer]
    BY <2>1 DEF NodeAnswers
  <2>3. /\ \A q \in Run : q # r => result'[q] = result[q] /\ busy'[q] = busy[q]
        /\ \A m \in Node : result'[r][m] = IF m = n THEN answer ELSE result[r][m]
        /\ busy'[r] = busy[r] \ {n} /\ n \in busy[r] /\ result[r][n] = "pending"
        /\ workflow' = workflow /\ phase' = phase
    BY <1>5, <2>1, <2>2 DEF NodeAnswers, TypeOK, Remaining
  <2>4. Grounded(result[r])'
    BY <1>1, <1>2, <1>4, <2>3 DEF RunGrounded, Grounded
  <2>5. \A m \in busy'[r] : \A d \in dependsOn[m] : result'[r][d] = "accepted"
    BY <1>1, <1>4, <1>5, <2>3 DEF RunGrounded
  <2>6. \A q \in Run : RunGrounded(q)'
    BY <1>1, <1>2, <2>3, <2>4, <2>5 DEF RunGrounded, Grounded
  <2>7. SnapshotGrounded(workflow)'
    BY <1>1, <1>2, <2>3 DEF SnapshotGrounded, Grounded
  <2>8. WaveIsPending'
    BY <1>5, <2>3 DEF WaveIsPending, Remaining
  <2> QED BY <2>6, <2>7, <2>8
<1>13. CASE Finish(r)
  <2>1. /\ busy' = busy /\ busy[r] = {} /\ Ends(r, "done")
        /\ workflow'.nodes = result[r] /\ workflow'.status = FinalStatus(result[r])
    BY <1>13 DEF Finish, TypeOK, Snapshot
  <2>2. RunGrounded(r)'
          /\ \A q \in Run : q # r => result'[q] = result[q] /\ phase'[q] = phase[q]
    BY <1>2, <2>1, EndsGrounded
  <2>3. FinalStatus(result[r]) = "accepted" => \A n \in Node : result[r][n] = "accepted"
    BY DEF FinalStatus, ExecutorStatus
  <2>4. SnapshotGrounded(workflow)'
    BY <1>1, <1>2, <2>1, <2>3 DEF SnapshotGrounded, RunGrounded, Grounded
  <2>5. \A q \in Run : RunGrounded(q)'
    BY <1>1, <1>2, <2>1, <2>2 DEF RunGrounded, Grounded
  <2>6. WaveIsPending'
    BY <1>5, <2>1, <2>2 DEF WaveIsPending, Remaining
  <2> QED BY <2>4, <2>5, <2>6
<1> QED BY <1>7, <1>8, <1>9, <1>10, <1>11, <1>12, <1>13 DEF RunStep

LEMMA OtherKeepsGrounded ==
    ASSUME GroundedInv, (\E action \in Actions : Control(action)) \/ Save \/ Restart
    PROVE  GroundedInv'
<1> USE DEF GroundedInv
<1>1. /\ SnapshotGrounded(workflow) /\ SnapshotGrounded(saved)
      /\ \A q \in Run : RunGrounded(q)
  BY GroundedParts
<1>2. dependsOn' = dependsOn
  BY DEF Control, Save, Restart
<1>3. SUFFICES /\ SnapshotGrounded(workflow)' /\ SnapshotGrounded(saved)'
               /\ \A q \in Run : RunGrounded(q)'
               /\ WaveIsPending'
  BY GroundedParts, OtherType
<1>4. CASE \E action \in Actions : Control(action)
  <2>1. PICK action \in Actions : Control(action)
    BY <1>4
  <2>2. workflow'.nodes = workflow.nodes /\ workflow'.status # "accepted"
    BY <2>1 DEF Control, ControlStatus, TypeOK, Snapshot
  <2>3. SnapshotGrounded(workflow)'
    BY <1>1, <1>2, <2>2 DEF SnapshotGrounded, Grounded
  <2>4. UNCHANGED <<saved, phase, result, busy>>
    BY <2>1 DEF Control
  <2> QED BY <1>1, <1>2, <2>3, <2>4
          DEF SnapshotGrounded, RunGrounded, Grounded, WaveIsPending, Remaining
<1>5. CASE Save
  BY <1>1, <1>5
     DEF Save, SnapshotGrounded, RunGrounded, Grounded, WaveIsPending, Remaining
<1>6. CASE Restart
  <2>1. workflow' = saved /\ saved' = saved
          /\ \A q \in Run : result'[q] = NoResult /\ busy'[q] = {}
    BY <1>6 DEF Restart
  <2> QED BY <1>1, <1>2, <2>1
          DEF SnapshotGrounded, RunGrounded, Grounded, WaveIsPending, NoResult
<1> QED BY <1>4, <1>5, <1>6

LEMMA StutterGrounded == ASSUME GroundedInv, UNCHANGED vars PROVE GroundedInv'
BY DEF GroundedInv, TypeOK, AcceptedIsGrounded, Grounded, WaveIsPending, Remaining, vars

THEOREM GroundedInvariance == Spec => []GroundedInv
<1>1. GroundedInv /\ [Next]_vars => GroundedInv'
  BY RunKeepsGrounded, OtherKeepsGrounded, StutterGrounded DEF Next
<1> QED BY <1>1, InitGrounded, PTL DEF Spec

\* The workflow, its file and its runs keep their types (executeWorkflow).
THEOREM WorkflowTypeCorrect == Spec => []TypeOK
<1>1. GroundedInv => TypeOK
  BY DEF GroundedInv
<1> QED BY <1>1, GroundedInvariance, PTL

\* What is accepted rests on accepted dependencies, in the workflow, in its
\* file and in every run of executeWorkflow, whatever overlaps or crashes.
THEOREM AcceptedGrounded == Spec => []AcceptedIsGrounded
<1>1. GroundedInv => AcceptedIsGrounded
  BY DEF GroundedInv
<1> QED BY <1>1, GroundedInvariance, PTL

-----------------------------------------------------------------------------
(* The user's verdict.                                                     *)

\* A paused or cancelled workflow has that as its last control.
Agreed(w) == /\ w.status = "paused" => w.control = "pause"
             /\ w.status = "cancelled" => w.control = "cancel"
VerdictInv == TypeOK /\ Agreed(workflow) /\ Agreed(saved)

LEMMA FinalStatusAgrees ==
    ASSUME NEW nodes
    PROVE  /\ FinalStatus(nodes) = "paused" => workflow.control = "pause"
           /\ FinalStatus(nodes) = "cancelled" => workflow.control = "cancel"
           /\ workflow.control = "pause" => FinalStatus(nodes) = "paused"
           /\ workflow.control = "cancel" => FinalStatus(nodes) = "cancelled"
           /\ FinalStatus(nodes) # "running"
BY DEF FinalStatus, ExecutorStatus

LEMMA VerdictInductive == VerdictInv /\ [Next]_vars => VerdictInv'
<1> SUFFICES ASSUME VerdictInv, [Next]_vars PROVE VerdictInv'
  OBVIOUS
<1> USE DEF VerdictInv, Agreed
<1>1. TypeOK'
  BY RunType, OtherType DEF Next, TypeOK, vars
<1>2. ASSUME NEW r \in Run, Execute(r) PROVE VerdictInv'
  BY <1>1, <1>2 DEF Execute, TypeOK, Snapshot
<1>3. ASSUME NEW r \in Run, Finish(r) PROVE VerdictInv'
  <2>1. /\ workflow'.status = FinalStatus(result[r]) /\ saved' = saved
        /\ workflow'.control = workflow.control
    BY <1>3 DEF Finish, TypeOK, Snapshot
  <2> QED BY <1>1, <2>1, FinalStatusAgrees
<1>4. ASSUME NEW r \in Run, RunStep(r), ~Finish(r) PROVE VerdictInv'
  <2>1. workflow' = workflow /\ saved' = saved
    BY <1>4 DEF RunStep, InputsReady, InputsThrow, NextWave, GiveUp, CycleThrows, NodeAnswers
  <2> QED BY <1>1, <2>1
<1>5. ASSUME NEW action \in Actions, Control(action) PROVE VerdictInv'
  <2>1. /\ workflow'.status = ControlStatus(action) /\ saved' = saved
        /\ workflow'.control = Recorded(action)
    BY <1>5 DEF Control, TypeOK, Snapshot
  <2> QED BY <1>1, <2>1 DEF ControlStatus, Recorded
<1>6. CASE Save \/ Restart
  BY <1>1, <1>6 DEF Save, Restart
<1>7. CASE UNCHANGED vars
  BY <1>1, <1>7 DEF vars
<1> QED BY <1>2, <1>3, <1>4, <1>5, <1>6, <1>7 DEF Next

\* The run that ends later, a retry or an overlapping run does not change a
\* workflow the user has paused or cancelled (controlWorkflow, executeWorkflow).
THEOREM VerdictStands == Spec => UserVerdictStands
<1>1. Init => VerdictInv
  BY InitType DEF Init, VerdictInv, Agreed
<1>2. VerdictInv /\ [Next]_vars
        => [ /\ workflow.status \in {"paused", "cancelled"}
             /\ workflow'.status # workflow.status
             => \/ workflow'.control # workflow.control
                \/ workflow'.status = "running"
                \/ restarts' # restarts ]_vars
  <2> SUFFICES ASSUME VerdictInv, Next, workflow.status \in {"paused", "cancelled"},
                      workflow'.status # workflow.status
               PROVE  \/ workflow'.control # workflow.control
                      \/ workflow'.status = "running"
                      \/ restarts' # restarts
    OBVIOUS
  <2> USE DEF VerdictInv, Agreed
  <2>1. CASE \E r \in Run : Execute(r)
    BY <2>1 DEF Execute, TypeOK, Snapshot
  <2>2. ASSUME NEW r \in Run, Finish(r) PROVE FALSE
    <3>1. workflow'.status = FinalStatus(result[r])
      BY <2>2 DEF Finish, TypeOK, Snapshot
    <3> QED BY <3>1, FinalStatusAgrees
  <2>3. ASSUME NEW r \in Run, RunStep(r), ~Finish(r) PROVE FALSE
    <3>1. workflow' = workflow
      BY <2>3 DEF RunStep, InputsReady, InputsThrow, NextWave, GiveUp, CycleThrows,
                  NodeAnswers
    <3> QED BY <3>1
  <2>4. ASSUME NEW action \in Actions, Control(action)
        PROVE  workflow'.control # workflow.control
    <3>1. /\ workflow'.status = ControlStatus(action)
          /\ workflow'.control = Recorded(action)
      BY <2>4 DEF Control, TypeOK, Snapshot
    <3>2. Admitted(action)
      BY <2>4 DEF Control
    <3> QED BY <3>1, <3>2 DEF Admitted, ControlStatus, Recorded, Actions
  <2>5. CASE Save
    BY <2>5 DEF Save
  <2>6. CASE Restart
    <3>1. restarts \in Nat /\ restarts' = restarts + 1
      BY <2>6, BoundsAssumption DEF Restart, TypeOK
    <3> QED BY <3>1
  <2> QED BY <2>1, <2>2, <2>3, <2>4, <2>5, <2>6 DEF Next
<1> QED BY <1>1, <1>2, VerdictInductive, PTL DEF Spec, UserVerdictStands

-----------------------------------------------------------------------------
(* Status and runs.                                                        *)

RunsInOrder == \A q, p \in Run : q < p /\ phase[q] = "unused" => phase[p] = "unused"
Used(r) == Latest(r) /\ phase[r] # "unused"
SomeIsLatest == (\E r \in Run : phase[r] # "unused") => \E r \in Run : Used(r)
SavedHasRun == saved.status = "running" => \E r \in Run : phase[r] # "unused"
OverlapKnown ==
    \A q, p \in Run : q # p /\ Active(q) /\ Active(p) => q \in overlapped /\ p \in overlapped
RunningHasRun ==
    workflow.status = "running" =>
        \E r \in Run : Latest(r) /\ (Active(r) \/ phase[r] \in {"threw", "killed"})
AloneIsControlled ==
    \A r \in Run : Active(r) /\ r \notin overlapped =>
        current = r /\ (workflow.status = "cancelled" => aborted[r])
StatusInv ==
    /\ TypeOK /\ RunsInOrder /\ SomeIsLatest /\ SavedHasRun /\ OverlapKnown
    /\ RunningHasRun /\ AloneIsControlled

\* A step that uses no new run keeps the order of the runs.
LEMMA SameUse ==
    ASSUME StatusInv,
           \A q \in Run : phase'[q] = "unused" <=> phase[q] = "unused"
    PROVE  /\ RunsInOrder' /\ SomeIsLatest'
           /\ \A q \in Run : Latest(q)' <=> Latest(q)
           /\ saved' = saved => SavedHasRun'
<1>1. RunsInOrder'
  BY DEF StatusInv, RunsInOrder
<1>2. \A q \in Run : Latest(q)' <=> Latest(q)
  BY DEF Latest
<1>3. SomeIsLatest'
  BY <1>2 DEF StatusInv, SomeIsLatest, Used
<1>4. saved' = saved => SavedHasRun'
  BY DEF StatusInv, SavedHasRun
<1> QED BY <1>1, <1>2, <1>3, <1>4

LEMMA ExecuteKeepsStatus ==
    ASSUME StatusInv, NEW r \in Run, Execute(r) PROVE StatusInv'
<1> USE DEF StatusInv
<1>1. TypeOK'
  BY RunType
<1>2. /\ \A q \in Run : phase'[q] = IF q = r THEN "inputs" ELSE phase[q]
      /\ phase[r] = "unused" /\ \A q \in Run : q < r => phase[q] # "unused"
      /\ current' = r /\ saved' = saved /\ workflow'.status = "running"
      /\ Run \subseteq Nat
  BY DEF Execute, TypeOK, Snapshot, Run
<1>3. \A q \in Run : q > r => phase[q] = "unused"
  BY <1>2 DEF RunsInOrder
<1>4. Latest(r)' /\ phase'[r] = "inputs"
  BY <1>2, <1>3 DEF Latest
<1>5. RunsInOrder'
  BY <1>2, <1>3 DEF RunsInOrder
<1>6. SomeIsLatest' /\ SavedHasRun' /\ RunningHasRun'
  BY <1>4 DEF SomeIsLatest, Used, SavedHasRun, RunningHasRun, Active
<1>7. ASSUME NEW q \in Run, q # r, Active(q)' PROVE q \in overlapped' /\ r \in overlapped'
  <2>1. q \in {p \in Run : Active(p)}
    BY <1>2, <1>7 DEF Active
  <2> QED BY <2>1 DEF Execute
<1>8. overlapped \subseteq overlapped'
  BY DEF Execute
<1>9. OverlapKnown'
  BY <1>2, <1>7, <1>8 DEF OverlapKnown, Active
<1>10. AloneIsControlled'
  BY <1>2, <1>7 DEF AloneIsControlled
<1> QED BY <1>1, <1>5, <1>6, <1>9, <1>10

LEMMA EndKeepsStatus ==
    ASSUME StatusInv, NEW r \in Run, Active(r), NEW how \in {"done", "threw"}, Ends(r, how),
           TypeOK', saved' = saved,
           \/ how = "threw" /\ workflow' = workflow /\ current' = current
           \/ workflow'.status # "running" /\ current' = NoRun
    PROVE  StatusInv'
<1> USE DEF StatusInv
<1>1. /\ \A q \in Run : phase'[q] = IF q = r THEN how ELSE phase[q]
      /\ \A q \in Run : q # r => aborted'[q] = aborted[q]
      /\ overlapped' = overlapped \ {r} /\ phase[r] # "unused"
  BY DEF Ends, TypeOK, Active
<1>2. /\ RunsInOrder' /\ SomeIsLatest' /\ SavedHasRun'
      /\ \A q \in Run : Latest(q)' <=> Latest(q)
  BY <1>1, SameUse
<1>3. \A q \in Run : Active(q)' => q # r /\ Active(q)
  BY <1>1 DEF Active
<1>4. OverlapKnown'
  BY <1>1, <1>3 DEF OverlapKnown
<1>5. RunningHasRun'
  BY <1>1, <1>2 DEF RunningHasRun, Active
<1>6. AloneIsControlled'
  BY <1>1, <1>3 DEF AloneIsControlled, OverlapKnown
<1> QED BY <1>2, <1>4, <1>5, <1>6

LEMMA RunKeepsStatus ==
    ASSUME StatusInv, NEW r \in Run, RunStep(r) PROVE StatusInv'
<1> USE DEF StatusInv
<1>1. TypeOK'
  BY RunType
<1>2. CASE InputsThrow(r) \/ CycleThrows(r)
  BY <1>1, <1>2, EndKeepsStatus DEF InputsThrow, CycleThrows, Looping, Active
<1>3. CASE Finish(r)
  <2>1. /\ workflow'.status = FinalStatus(result[r]) /\ saved' = saved /\ current' = NoRun
        /\ Active(r) /\ Ends(r, "done")
    BY <1>3 DEF Finish, TypeOK, Snapshot, Active
  <2> QED BY <1>1, <2>1, EndKeepsStatus, FinalStatusAgrees
<1>4. CASE InputsReady(r) \/ NextWave(r) \/ GiveUp(r) \/ \E n \in Node : NodeAnswers(r, n)
  <2>1. /\ saved' = saved /\ workflow' = workflow /\ current' = current
        /\ aborted' = aborted /\ overlapped' = overlapped
        /\ \A q \in Run : /\ phase'[q] = "unused" <=> phase[q] = "unused"
                          /\ Active(q)' <=> Active(q)
                          /\ phase'[q] \in {"threw", "killed"}
                               <=> phase[q] \in {"threw", "killed"}
    BY <1>4 DEF InputsReady, NextWave, GiveUp, NodeAnswers, TypeOK, Active
  <2>2. /\ RunsInOrder' /\ SomeIsLatest' /\ SavedHasRun'
        /\ \A q \in Run : Latest(q)' <=> Latest(q)
    BY <2>1, SameUse
  <2>3. OverlapKnown' /\ AloneIsControlled' /\ RunningHasRun'
    BY <2>1, <2>2 DEF OverlapKnown, AloneIsControlled, RunningHasRun
  <2> QED BY <1>1, <2>2, <2>3
<1> QED BY <1>2, <1>3, <1>4 DEF RunStep

LEMMA OtherKeepsStatus ==
    ASSUME StatusInv, (\E action \in Actions : Control(action)) \/ Save \/ Restart
    PROVE  StatusInv'
<1> USE DEF StatusInv
<1>1. TypeOK'
  BY OtherType
<1>2. CASE \E action \in Actions : Control(action)
  <2>1. PICK action \in Actions : Control(action)
    BY <1>2
  <2>2. workflow'.status = ControlStatus(action)
          /\ UNCHANGED <<saved, current, phase, overlapped>>
    BY <2>1 DEF Control, TypeOK, Snapshot
  <2>3. /\ RunsInOrder' /\ SomeIsLatest' /\ SavedHasRun' /\ OverlapKnown'
        /\ \A q \in Run : Active(q)' <=> Active(q)
    BY <2>2 DEF RunsInOrder, SomeIsLatest, Used, Latest, SavedHasRun, OverlapKnown, Active
  <2>4. RunningHasRun'
    BY <2>2 DEF RunningHasRun, ControlStatus
  <2>5. ASSUME workflow'.status = "cancelled", NEW q \in Run, q = current
        PROVE  aborted'[q]
    <3>1. Aborts(action)
      BY <2>2, <2>5 DEF ControlStatus, Aborts
    <3> QED BY <2>1, <2>5, <3>1 DEF Control
  <2>6. AloneIsControlled'
    BY <2>2, <2>3, <2>5 DEF AloneIsControlled
  <2> QED BY <1>1, <2>3, <2>4, <2>6
<1>3. CASE Save
  <2>1. saved' = workflow /\ UNCHANGED <<workflow, current, phase, aborted, overlapped>>
    BY <1>3 DEF Save
  <2>2. SavedHasRun'
    BY <2>1 DEF SavedHasRun, RunningHasRun, Active
  <2>3. RunsInOrder' /\ SomeIsLatest' /\ OverlapKnown' /\ RunningHasRun'
    BY <2>1 DEF RunsInOrder, SomeIsLatest, Used, Latest, OverlapKnown, RunningHasRun, Active
  <2>4. AloneIsControlled'
    BY <2>1 DEF AloneIsControlled, Active
  <2> QED BY <1>1, <2>2, <2>3, <2>4
<1>4. CASE Restart
  <2>1. /\ \A q \in Run : phase'[q] = IF phase[q] = "unused" THEN "unused" ELSE "killed"
        /\ saved' = saved /\ workflow' = saved
    BY <1>4 DEF Restart
  <2>2. /\ RunsInOrder' /\ SomeIsLatest' /\ SavedHasRun'
        /\ \A q \in Run : Latest(q)' <=> Latest(q)
    BY <2>1, SameUse
  <2>3. OverlapKnown' /\ AloneIsControlled'
    BY <2>1 DEF OverlapKnown, AloneIsControlled, Active
  <2>4. RunningHasRun'
    BY <2>1, <2>2 DEF RunningHasRun, SavedHasRun, SomeIsLatest, Used
  <2> QED BY <1>1, <2>2, <2>3, <2>4
<1> QED BY <1>2, <1>3, <1>4

\* A running workflow has a run, or one that an exception or a crash ended, and
\* a run that was never under way with another can be paused and cancelled.
THEOREM StatusTrue == Spec => []StatusTellsRuns
<1>1. Init => StatusInv
  <2> SUFFICES ASSUME Init PROVE StatusInv
    OBVIOUS
  <2>1. \A r \in Run : phase[r] = "unused"
    BY DEF Init
  <2>2. workflow.status = "proposed" /\ saved.status = "proposed"
    BY DEF Init
  <2> QED BY <2>1, <2>2, InitType
          DEF StatusInv, RunsInOrder, SomeIsLatest, SavedHasRun, OverlapKnown,
              RunningHasRun, AloneIsControlled, Active
<1>2. StatusInv /\ UNCHANGED vars => StatusInv'
  BY DEF StatusInv, TypeOK, RunsInOrder, SomeIsLatest, Used, Latest, SavedHasRun,
         OverlapKnown, RunningHasRun, AloneIsControlled, Active, vars
<1>3. StatusInv /\ [Next]_vars => StatusInv'
  BY <1>2, ExecuteKeepsStatus, RunKeepsStatus, OtherKeepsStatus DEF Next
<1>4. StatusInv => StatusTellsRuns
  BY DEF StatusInv, RunningHasRun, AloneIsControlled, StatusTellsRuns
<1> QED BY <1>1, <1>3, <1>4, PTL DEF Spec

-----------------------------------------------------------------------------
(* Progress.                                                               *)

\* A step ahead of run r: it reads its inputs, ends, gives a node a result, or
\* begins a wave in which it waits for one.
Forward(r) ==
    \/ phase[r] = "inputs" /\ phase'[r] = "waves"
    \/ ~Active(r)'
    \/ Remaining(r)' \subseteq Remaining(r) /\ Remaining(r)' # Remaining(r)
    \/ Remaining(r)' = Remaining(r) /\ busy[r] = {} /\ busy'[r] # {}

\* Every step of a run is a step ahead, and no step of another run or of the user
\* takes one back: with finitely many nodes a run takes finitely many steps.
RunsAdvance ==
    [][\A r \in Run : Active(r) =>
          IF RunStep(r) THEN Forward(r)
          ELSE Active(r)' => UNCHANGED <<phase[r], result[r], busy[r]>>]_vars

LEMMA RunStepsForward ==
    ASSUME GroundedInv, NEW r \in Run, RunStep(r) PROVE Forward(r)
<1>1. /\ TypeOK /\ busy[r] \subseteq Remaining(r) /\ Remaining(r) \in SUBSET Node
      /\ result[r] \in [Node -> NodeStatus]
  BY DEF GroundedInv, WaveIsPending, TypeOK, Remaining
<1>2. CASE InputsReady(r)
  BY <1>1, <1>2 DEF InputsReady, Forward, TypeOK
<1>3. CASE InputsThrow(r) \/ CycleThrows(r) \/ Finish(r)
  BY <1>1, <1>3 DEF InputsThrow, CycleThrows, Finish, Ends, Forward, Active, TypeOK
<1>4. CASE NextWave(r)
  <2>1. /\ Block(r, Blocked(r)) /\ busy[r] = {} /\ Ready(r) # {}
        /\ busy' = [busy EXCEPT ![r] = Ready(r) \ Blocked(r)]
    BY <1>4 DEF NextWave, Looping
  <2>2. /\ Blocked(r) \in SUBSET Node /\ Blocked(r) \subseteq Ready(r)
        /\ Ready(r) \subseteq Remaining(r)
    BY DEF Blocked, Ready, Remaining
  <2>3. /\ \A n \in Node : result'[r][n] = IF n \in Blocked(r) THEN "blocked"
                                              ELSE result[r][n]
        /\ busy'[r] = Ready(r) \ Blocked(r)
    BY <1>1, <2>1, <2>2, BlockType DEF TypeOK
  <2>4. Remaining(r)' = Remaining(r) \ Blocked(r)
    BY <2>2, <2>3 DEF Remaining
  <2>5. CASE Blocked(r) = {}
    BY <2>1, <2>3, <2>4, <2>5 DEF Forward
  <2>6. CASE Blocked(r) # {}
    BY <2>2, <2>4, <2>6 DEF Forward
  <2> QED BY <2>5, <2>6
<1>5. CASE GiveUp(r)
  <2>1. Block(r, Remaining(r)) /\ Remaining(r) # {}
    BY <1>5 DEF GiveUp, Looping
  <2>2. \A n \in Node : result'[r][n] # "pending"
    BY <1>1, <2>1, BlockType DEF Remaining
  <2>3. Remaining(r)' = {}
    BY <2>2 DEF Remaining
  <2> QED BY <2>1, <2>3 DEF Forward
<1>6. ASSUME NEW n \in Node, NodeAnswers(r, n) PROVE Forward(r)
  <2>1. PICK answer \in NodeStatus \ {"pending"} : result' = [result EXCEPT ![r][n] = answer]
    BY <1>6 DEF NodeAnswers
  <2>2. /\ \A m \in Node : result'[r][m] = IF m = n THEN answer ELSE result[r][m]
        /\ n \in Remaining(r)
    BY <1>1, <1>6, <2>1 DEF NodeAnswers, TypeOK
  <2>3. Remaining(r)' = Remaining(r) \ {n}
    BY <2>2 DEF Remaining
  <2> QED BY <2>2, <2>3 DEF Forward
<1> QED BY <1>2, <1>3, <1>4, <1>5, <1>6 DEF RunStep

\* Another step leaves a run where it is, or ends it with the process.
LEMMA OthersLeaveRuns ==
    ASSUME TypeOK, NEW r \in Run, Active(r), Next, ~RunStep(r), Active(r)'
    PROVE  UNCHANGED <<phase[r], result[r], busy[r]>>
<1> USE DEF TypeOK
<1>1. ASSUME NEW q \in Run, Execute(q) PROVE UNCHANGED <<phase[r], result[r], busy[r]>>
  BY <1>1 DEF Execute, Active
<1>2. ASSUME NEW q \in Run, RunStep(q) PROVE UNCHANGED <<phase[r], result[r], busy[r]>>
  <2>1. q # r
    BY <1>2
  <2> QED BY <1>2, <2>1 DEF RunStep, InputsReady, InputsThrow, NextWave, GiveUp, CycleThrows,
                            Finish, NodeAnswers, Ends, Block
<1>3. ASSUME NEW action \in Actions, Control(action)
      PROVE  UNCHANGED <<phase[r], result[r], busy[r]>>
  BY <1>3 DEF Control
<1>4. CASE Save
  BY <1>4 DEF Save
<1>5. CASE Restart
  BY <1>5 DEF Restart, Active
<1> QED BY <1>1, <1>2, <1>3, <1>4, <1>5 DEF Next

\* Whatever the graph, the answers of its nodes, pauses, cancellations and other
\* runs are, a run of executeWorkflow cannot go on for ever, nor be set back:
\* what RunEnds takes from the program, beside the fairness of its steps.
THEOREM RunsOnlyAdvance == Spec => RunsAdvance
<1>1. GroundedInv => TypeOK
  BY DEF GroundedInv
<1>2. GroundedInv /\ [Next]_vars
        => [\A r \in Run : Active(r) =>
              IF RunStep(r) THEN Forward(r)
              ELSE Active(r)' => UNCHANGED <<phase[r], result[r], busy[r]>>]_vars
  BY <1>1, RunStepsForward, OthersLeaveRuns
<1> QED BY <1>2, GroundedInvariance, PTL DEF Spec, RunsAdvance
=============================================================================
