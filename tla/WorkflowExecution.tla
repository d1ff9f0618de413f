-------------------------- MODULE WorkflowExecution --------------------------
(***************************************************************************)
(* The execution of one workflow: executeWorkflow and controlWorkflow of   *)
(* src/electron/main/collaboration/collaboration-runtime.ts with the loop  *)
(* of OrganizationWorkflowExecutor                                         *)
(* (src/packages/collaboration/openbuddy-coordinator/src/index.ts).        *)
(*                                                                         *)
(* A workflow is a graph of nodes, each of them a task.  A run reads what  *)
(* its nodes need, starts every node whose dependencies have a result,     *)
(* waits for the whole wave, and starts the next one; the user pauses,     *)
(* cancels, takes over or revises the workflow in the meantime.  Only the  *)
(* status keeps two runs apart, and a paused workflow may be resumed and   *)
(* executed while the run before is still waiting for its nodes.           *)
(* How a node executes its task is module TaskExecution: here its answer   *)
(* is any of the three the executor tells apart.                           *)
(***************************************************************************)
EXTENDS Naturals

CONSTANTS
    Node,        \* the nodes of the workflow
    Graphs,      \* the dependency graphs it may have; proposeWorkflow refuses
                 \* a node that depends on itself, but not a longer cycle
    MaxRuns,     \* bound on the calls of executeWorkflow that get past its guard
    MaxRestarts  \* bound on the crashes of the process

ASSUME GraphsAssumption ==
    \A deps \in Graphs : /\ deps \in [Node -> SUBSET Node]
                         /\ \A n \in Node : n \notin deps[n]
ASSUME BoundsAssumption == MaxRuns \in Nat /\ MaxRestarts \in Nat

VARIABLES
    dependsOn,   \* the graph, fixed when the workflow is proposed
    workflow,    \* its WorkflowSnapshot in memory
    saved,       \* the snapshot in the workflows file
    dirty,       \* workflowsDirtyTimer is set
    current,     \* the run whose AbortController workflowRuns holds, or NoRun
    phase,       \* how far each run is
    aborted,     \* its controller was aborted
    result,      \* its `results`, node by node
    busy,        \* the nodes of its wave that have not answered
    overlapped,  \* history: runs under way that shared the workflow with another
    restarts

vars == <<dependsOn, workflow, saved, dirty, current, phase, aborted, result,
          busy, overlapped, restarts>>

Run == 1 .. MaxRuns
NoRun == 0
NodeStatus == {"pending", "accepted", "failed", "blocked"}
Actions == {"pause", "resume", "cancel", "takeover", "revision"}
Snapshot ==
    [status : {"proposed", "running", "paused", "cancelled",
               "accepted", "failed", "blocked"},
     control : {"pause", "cancel", "other"},  \* the last control; none yet is other
     nodes : [Node -> NodeStatus]]

TypeOK ==
    /\ dependsOn \in Graphs
    /\ workflow \in Snapshot /\ saved \in Snapshot
    /\ dirty \in BOOLEAN
    /\ current \in Run \union {NoRun}
    /\ phase \in [Run -> {"unused", "inputs", "waves", "done", "threw", "killed"}]
    /\ aborted \in [Run -> BOOLEAN]
    /\ result \in [Run -> [Node -> NodeStatus]]
    /\ busy \in [Run -> SUBSET Node]
    /\ overlapped \subseteq Run
    /\ restarts \in 0 .. MaxRestarts

NoResult == [n \in Node |-> "pending"]
Active(r) == phase[r] \in {"inputs", "waves"}

-----------------------------------------------------------------------------
(* The workflow has been proposed and the file has been written once.      *)
Init ==
    /\ dependsOn \in Graphs
    /\ workflow = [status |-> "proposed", control |-> "other",
                   nodes |-> NoResult]
    /\ saved = workflow
    /\ dirty = FALSE /\ current = NoRun
    /\ phase = [r \in Run |-> "unused"] /\ aborted = [r \in Run |-> FALSE]
    /\ result = [r \in Run |-> NoResult]
    /\ busy = [r \in Run |-> {}] /\ overlapped = {} /\ restarts = 0

(* A run that is over keeps nothing: its variables are locals of a call.   *)
Ends(r, how) ==
    /\ phase' = [phase EXCEPT ![r] = how]
    /\ aborted' = [aborted EXCEPT ![r] = FALSE]
    /\ result' = [result EXCEPT ![r] = NoResult]
    /\ overlapped' = overlapped \ {r}

(* executeWorkflow up to its first await.                                  *)
MayExecute == workflow.status \notin {"running", "cancelled", "accepted"}
Execute(r) ==
    /\ phase[r] = "unused" /\ \A q \in Run : q < r => phase[q] # "unused"
    /\ MayExecute
    /\ workflow' = [workflow EXCEPT !.status = "running"]
    /\ dirty' = TRUE
    /\ current' = r
    /\ phase' = [phase EXCEPT ![r] = "inputs"]
    /\ overlapped' = LET others == {q \in Run : Active(q)}
                     IN  IF others = {} THEN overlapped
                         ELSE overlapped \union others \union {r}
    /\ UNCHANGED <<dependsOn, saved, aborted, result, busy, restarts>>

(* workflowExecutionInput has answered for every node; the nodes that are  *)
(* accepted by now are the seeds of the run.                               *)
Seeds == {n \in Node : workflow.nodes[n] = "accepted"}
InputsReady(r) ==
    /\ phase[r] = "inputs"
    /\ phase' = [phase EXCEPT ![r] = "waves"]
    /\ result' = [result EXCEPT ![r] =
                     [n \in Node |-> IF n \in Seeds THEN "accepted" ELSE "pending"]]
    /\ UNCHANGED <<dependsOn, workflow, saved, dirty, current, aborted, busy,
                   overlapped, restarts>>

(* No contract, no provider or no capability for some node, or a node of   *)
(* another network: executeWorkflow rejects and cleans nothing up.         *)
InputsThrow(r) ==
    /\ phase[r] = "inputs"
    /\ Ends(r, "threw")
    /\ UNCHANGED <<dependsOn, workflow, saved, dirty, current, busy, restarts>>

Remaining(r) == {n \in Node : result[r][n] = "pending"}
Ready(r) == {n \in Remaining(r) : dependsOn[n] \intersect Remaining(r) = {}}
\* Mutant: a failed dependency blocks nothing.
BlockedNone(r) == {}

Blocked(r) == {n \in Ready(r) : \E d \in dependsOn[n] : result[r][d] # "accepted"}
Looping(r) == phase[r] = "waves" /\ busy[r] = {} /\ Remaining(r) # {}

\* Mutant: blocked nodes get no result.
BlockForgotten(r, nodes) == UNCHANGED result

Block(r, nodes) ==
    result' = [result EXCEPT ![r] =
                  [n \in Node |-> IF n \in nodes THEN "blocked" ELSE @[n]]]

(* One turn of the executor's loop: the nodes behind a dependency that was *)
(* not accepted are blocked, the other ready ones begin.                   *)
NextWave(r) ==
    /\ Looping(r) /\ ~aborted[r] /\ Ready(r) # {}
    /\ Block(r, Blocked(r))
    /\ busy' = [busy EXCEPT ![r] = Ready(r) \ Blocked(r)]
    /\ UNCHANGED <<dependsOn, workflow, saved, dirty, current, phase, aborted,
                   overlapped, restarts>>

(* The turn finds the signal aborted and gives up the remaining nodes.     *)
GiveUp(r) ==
    /\ Looping(r) /\ aborted[r]
    /\ Block(r, Remaining(r))
    /\ UNCHANGED <<dependsOn, workflow, saved, dirty, current, phase, aborted,
                   busy, overlapped, restarts>>

(* "workflow dependency graph contains a cycle".                           *)
CycleThrows(r) ==
    /\ Looping(r) /\ ~aborted[r] /\ Ready(r) = {}
    /\ Ends(r, "threw")
    /\ UNCHANGED <<dependsOn, workflow, saved, dirty, current, busy, restarts>>

(* The task of a node is accepted, failed, or rejected, which the executor *)
(* calls blocked; an aborted signal does not rule any of them out.         *)
NodeAnswers(r, n) ==
    /\ phase[r] = "waves" /\ n \in busy[r]
    /\ \E answer \in NodeStatus \ {"pending"} :
           result' = [result EXCEPT ![r][n] = answer]
    /\ busy' = [busy EXCEPT ![r] = @ \ {n}]
    /\ UNCHANGED <<dependsOn, workflow, saved, dirty, current, phase, aborted,
                   overlapped, restarts>>

ExecutorStatus(nodes) ==
    IF \A n \in Node : nodes[n] = "accepted" THEN "accepted"
    ELSE IF \E n \in Node : nodes[n] = "failed" THEN "failed" ELSE "blocked"
\* Mutant: the end of a run looks at no control.
FinalStatusOfRun(nodes) == ExecutorStatus(nodes)

FinalStatus(nodes) ==
    IF workflow.control = "cancel" THEN "cancelled"
    ELSE IF workflow.control = "pause" THEN "paused" ELSE ExecutorStatus(nodes)
(* The executor returns: what the run found replaces the nodes and, unless *)
(* the last control is a pause or a cancellation, the status.              *)
Finish(r) ==
    /\ phase[r] = "waves" /\ busy[r] = {} /\ Remaining(r) = {}
    /\ workflow' = [workflow EXCEPT !.nodes = result[r],
                                    !.status = FinalStatus(result[r])]
    /\ dirty' = TRUE
    /\ current' = NoRun
    /\ Ends(r, "done")
    /\ UNCHANGED <<dependsOn, saved, busy, restarts>>

-----------------------------------------------------------------------------
(* controlWorkflow: when each action is admitted, and what it leaves.      *)
Admitted(action) ==
    \/ action = "pause" /\ workflow.status = "running"
    \/ action = "resume" /\ workflow.status = "paused"
    \/ action = "cancel" /\ workflow.status \notin {"accepted", "failed", "cancelled"}
    \/ action = "takeover" /\ workflow.status # "accepted"
    \/ action = "revision" /\ workflow.status # "running"
\* Mutant: only a pause aborts the run.
AbortsOnPause(action) == action = "pause"

Aborts(action) == action \in {"pause", "cancel"}
ControlStatus(action) ==
    IF action = "pause" THEN "paused"
    ELSE IF action = "cancel" THEN "cancelled" ELSE "proposed"
(* Only a pause and a cancellation are told apart later.                   *)
Recorded(action) == IF action \in {"pause", "cancel"} THEN action ELSE "other"
Control(action) ==
    /\ Admitted(action)
    /\ workflow' = [workflow EXCEPT !.control = Recorded(action),
                                    !.status = ControlStatus(action)]
    /\ aborted' = [r \in Run |-> aborted[r] \/ (Aborts(action) /\ r = current)]
    /\ dirty' = TRUE
    /\ UNCHANGED <<dependsOn, saved, current, phase, result, busy, overlapped,
                   restarts>>

(* The timer of scheduleWorkflowsWrite fires, or flushPendingIO comes      *)
(* first, and the file is replaced.                                        *)
Save ==
    /\ dirty
    /\ saved' = workflow
    /\ dirty' = FALSE
    /\ UNCHANGED <<dependsOn, workflow, current, phase, aborted, result, busy,
                   overlapped, restarts>>

(* The process dies and starts again with what readWorkflowsFile finds.    *)
Restart ==
    /\ restarts < MaxRestarts
    /\ restarts' = restarts + 1
    /\ workflow' = saved
    /\ dirty' = FALSE /\ current' = NoRun
    /\ phase' = [r \in Run |-> IF phase[r] = "unused" THEN "unused" ELSE "killed"]
    /\ aborted' = [r \in Run |-> FALSE] /\ result' = [r \in Run |-> NoResult]
    /\ busy' = [r \in Run |-> {}] /\ overlapped' = {}
    /\ UNCHANGED <<dependsOn, saved>>

RunStep(r) ==
    \/ InputsReady(r) \/ InputsThrow(r) \/ NextWave(r) \/ GiveUp(r)
    \/ CycleThrows(r) \/ Finish(r) \/ \E n \in Node : NodeAnswers(r, n)

Next ==
    \/ \E r \in Run : Execute(r) \/ RunStep(r)
    \/ \E action \in Actions : Control(action)
    \/ Save \/ Restart

Spec == Init /\ [][Next]_vars

(* The providers and the tasks of the nodes answer (TaskExecution says how *)
(* a task ends), and the event loop takes the next turn of a run.          *)
FairSpec == Spec /\ \A r \in Run : WF_vars(RunStep(r))

-----------------------------------------------------------------------------
(* What is accepted, in the workflow, in its file and in a run, rests on   *)
(* accepted dependencies, through retries that take accepted nodes over as *)
(* seeds, runs that overlap, and restarts; nothing executes before its     *)
(* dependencies are accepted; and an accepted workflow has no other node.  *)
(* "Executes independent workflow nodes concurrently and gates dependent   *)
(* nodes" (openbuddy-coordinator/src/index.ts:535).                        *)
Grounded(nodes) ==
    \A n \in Node : nodes[n] = "accepted" =>
        \A d \in dependsOn[n] : nodes[d] = "accepted"
AcceptedIsGrounded ==
    /\ \A w \in {workflow, saved} :
           /\ Grounded(w.nodes)
           /\ w.status = "accepted" => \A n \in Node : w.nodes[n] = "accepted"
    /\ \A r \in Run :
           /\ Grounded(result[r])
           /\ \A n \in busy[r] : \A d \in dependsOn[n] : result[r][d] = "accepted"

(* What the status says and what runs there are belong together.           *)
(*   executeWorkflow refuses a running workflow, so one may say running    *)
(*   only while its latest run is under way, or was left by an exception   *)
(*   or a crash, which only a control of the user repairs.                 *)
(*   No run of a cancelled workflow goes on to another wave: workflowRuns  *)
(*   holds the controller of every run that was never under way together   *)
(*   with another.  For those that were this fails: the later run replaces *)
(*   the controller of the earlier one, and the end of either removes it.  *)
Latest(r) == \A q \in Run : q > r => phase[q] = "unused"
StatusTellsRuns ==
    /\ workflow.status = "running" =>
           \E r \in Run : Latest(r) /\ (Active(r) \/ phase[r] \in {"threw", "killed"})
    /\ \A r \in Run : Active(r) /\ r \notin overlapped =>
           /\ current = r
           /\ workflow.status = "cancelled" => aborted[r]

(* What the user decided while a run is under way is not undone by what    *)
(* the run brings later: a paused or cancelled workflow changes its status *)
(* only with another control, another execution, or a crash that brings an *)
(* older file back.                                                        *)
UserVerdictStands ==
    [][ /\ workflow.status \in {"paused", "cancelled"}
        /\ workflow'.status # workflow.status
        => \/ workflow'.control # workflow.control
           \/ workflow'.status = "running"
           \/ restarts' # restarts ]_vars

(* Every run comes to an end, whatever the graph, the answers of its nodes *)
(* and the controls are: no wave waits for a node that nothing starts.     *)
RunEnds == \A r \in Run : Active(r) ~> ~Active(r)
=============================================================================
