----------------------------- MODULE SwarmTasks ------------------------------
(***************************************************************************)
(* The tasks of the tool swarm (task-state.service): a plan of tools made  *)
(* from a request, steps run one request at a time, of which several may   *)
(* be under way (a tool is awaited), a failed step replaced by another     *)
(* tool at most once per task, and a verdict when nothing is left to run.  *)
(*                                                                         *)
(* Which words of a request select a tool is left out: a request is the    *)
(* sequence of tools it selects. So are the texts of tools and failures.   *)
(***************************************************************************)
EXTENDS Integers, Sequences, SequencesExt, FiniteSets, FiniteSetsExt

CONSTANTS
    Tools,
    Verifiers,    \* tools of the category VERIFICATION
    ChainCheck,   \* the verifier added to a plan that has none
    Fallback,     \* the first fallback of each tool that has one
    Sessions,     \* clients, each of one user
    Permitted,    \* tools each session's user may run
    Selections,   \* tools a request selects, in their order
    MaxReplans,   \* replanned steps of a task (1)
    MaxTasksInMemory,
    MaxTasks,     \* bound: tasks ever created
    MaxAttempts   \* bound: runs of the steps of a task

TaskIds == 1..MaxTasks   \* in the order of their creation
NoStep  == 0

ASSUME SwarmAssumption ==
    /\ Verifiers \subseteq Tools /\ ChainCheck \in Verifiers
    /\ DOMAIN Fallback \subseteq Tools /\ Fallback \in [DOMAIN Fallback -> Tools]
    /\ Permitted \in [Sessions -> SUBSET Tools]
    /\ \A q \in Selections : q \in Seq(Tools)
    /\ MaxReplans \in Nat /\ MaxTasksInMemory \in Nat \ {0}
    /\ MaxTasks \in Nat /\ MaxAttempts \in Nat

VARIABLES
    tasks,     \* the tasks, by id: those in memory, or some run still holds
    calls      \* the run of each session: its task and step

swarmVars == <<tasks, calls>>

(* replanned: the step was added in the place of one that failed. *)
Step == [id: Nat \ {0}, tool: Tools, replanned: BOOLEAN, attempts: 0..MaxAttempts,
         status: {"PENDING", "RUNNING", "DONE", "FAILED", "SKIPPED"}]

NoTask == [plan |-> << >>, status |-> "ABSENT", verification |-> "PENDING",
           evidence |-> FALSE, replans |-> 0]
NoCall   == [task |-> 0, step |-> NoStep, all |-> FALSE]

SwarmTypeOK ==
    /\ \A t \in TaskIds :
         /\ tasks[t].plan \in Seq(Step)
         /\ tasks[t].status \in {"ABSENT", "GONE", "PLANNED", "VERIFIED", "FAILED", "BLOCKED"}
         /\ tasks[t].verification \in {"PENDING", "PASSED", "FAILED"}
         /\ tasks[t].evidence \in BOOLEAN /\ tasks[t].replans \in Nat
    /\ \A s \in Sessions : calls[s].task \in {0} \union TaskIds /\ calls[s].all \in BOOLEAN

SwarmInit ==
    /\ tasks = [t \in TaskIds |-> NoTask]
    /\ calls = [s \in Sessions |-> NoCall]

-----------------------------------------------------------------------------
Created  == {t \in TaskIds : tasks[t].status # "ABSENT"}
InMemory == {t \in Created : Cardinality({u \in Created : u > t}) < MaxTasksInMemory}

StatusFor(s, tool) == IF tool \in Permitted[s] THEN "PENDING" ELSE "SKIPPED"

NewStep(s, tool, i, replanned) ==
    [id |-> i, tool |-> tool, replanned |-> replanned, attempts |-> 0, status |-> StatusFor(s, tool)]

PlanOf(s, q) ==
    LET plan == [i \in DOMAIN q |-> NewStep(s, q[i], i, FALSE)]
    IN  IF q = << >> \/ Range(q) \intersect Verifiers # {}
        THEN plan
        ELSE Append(plan, NewStep(s, ChainCheck, Len(q) + 1, FALSE))

(* The oldest tasks leave the memory; a run that holds one goes on with it, *)
(* and is the last to know of it.                                          *)
Gone == [NoTask EXCEPT !.status = "GONE"]

Kept(ts, cs) ==
    [t \in TaskIds |->
        IF /\ ts[t].status # "ABSENT"
           /\ Cardinality({u \in TaskIds : u > t /\ ts[u].status # "ABSENT"}) >= MaxTasksInMemory
           /\ \A s \in Sessions : cs[s].task # t
        THEN Gone
        ELSE ts[t]]

NewTask(s, q) ==
    [NoTask EXCEPT !.plan = PlanOf(s, q),
                   !.status = IF q = << >> THEN "BLOCKED" ELSE "PLANNED"]

CreateSwarmTask(s, q) ==
    /\ calls[s] = NoCall
    /\ \E t \in TaskIds \ Created :
         /\ \A u \in TaskIds \ Created : t <= u
         /\ tasks' = Kept([tasks EXCEPT ![t] = NewTask(s, q)], calls)
    /\ UNCHANGED calls

-----------------------------------------------------------------------------
(* A run of a step, up to the moment its tool is awaited *)

At(task, id)        == CHOOSE i \in DOMAIN task.plan : task.plan[i].id = id
PendingSteps(task)  == {i \in DOMAIN task.plan : task.plan[i].status = "PENDING"}
Attempts(task) ==
    LET attempts == [i \in DOMAIN task.plan |-> task.plan[i].attempts]
    IN  MapThenSumSet(LAMBDA i : attempts[i], DOMAIN task.plan)
FirstPending(task)  == CHOOSE i \in PendingSteps(task) : \A j \in PendingSteps(task) : i <= j

(* A user who may not run the tool has the step skipped, whatever it was.  *)
Begin(s, t, i, all) ==
    LET step == tasks[t].plan[i]
    IN  IF step.tool \in Permitted[s]
        THEN /\ Attempts(tasks[t]) < MaxAttempts
             /\ tasks' = [tasks EXCEPT ![t].plan[i].status = "RUNNING", ![t].plan[i].attempts = @ + 1]
             /\ calls' = [calls EXCEPT ![s] = [task |-> t, step |-> step.id, all |-> all]]
        ELSE /\ tasks' = [tasks EXCEPT ![t].plan[i].status = "SKIPPED", ![t].status = "BLOCKED"]
             /\ calls' = [calls EXCEPT ![s] = IF all THEN [task |-> t, step |-> NoStep, all |-> TRUE] ELSE NoCall]

(* Any step may be named, whatever its status. *)
RunStep(s, t) ==
    /\ calls[s] = NoCall
    /\ t \in InMemory
    /\ \E i \in DOMAIN tasks[t].plan : Begin(s, t, i, FALSE)

-----------------------------------------------------------------------------
(* The verdict *)

StepsWith(task, status) == {i \in DOMAIN task.plan : task.plan[i].status = status}

Verdict(task) ==
    IF /\ StepsWith(task, "FAILED") = {}
       /\ \E i \in StepsWith(task, "DONE") : task.plan[i].tool \in Verifiers
       /\ task.evidence
    THEN "VERIFIED"
    ELSE "FAILED"

(* finalizeTask, called when no step is pending; one may be running. *)
Finalized(task) ==
    IF PendingSteps(task) # {}
    THEN task
    ELSE [task EXCEPT !.status = Verdict(task),
                      !.verification = IF Verdict(task) = "VERIFIED" THEN "PASSED" ELSE "FAILED"]

(* Slip: the limit is one replanned step for each step, not for the task. *)
MayReplanEach(task, step) == step.tool \in DOMAIN Fallback /\ ~step.replanned

(* A replanned step has no fallback of its own. *)
MayReplan(task, step) ==
    task.replans < MaxReplans /\ step.tool \in DOMAIN Fallback /\ ~step.replanned

(* The fallback tool goes behind the failed step; a task whose fallback is *)
(* skipped is not finalized, even if nothing is left to run.               *)
Replanned(s, task, i) ==
    [task EXCEPT !.replans = @ + 1,
                 !.plan = InsertAt(@, i + 1,
                     NewStep(s, Fallback[task.plan[i].tool], Len(@) + 1, TRUE))]

(* The tool has answered, with or without evidence, or has failed. A        *)
(* verifier is believed without evidence, unless it replaces another tool.  *)
Answered(s, task, i, ok, evidence) ==
    LET believed == task.plan[i].tool \in Verifiers /\ ~task.plan[i].replanned
        passed == ok /\ (believed \/ evidence)
        after  == [task EXCEPT !.plan[i].status = IF passed THEN "DONE" ELSE "FAILED",
                               !.evidence = @ \/ evidence]
    IN  IF ~passed /\ MayReplan(task, task.plan[i])
        THEN Replanned(s, after, i)
        ELSE Finalized(after)

ToolAnswers(s) ==
    LET c == calls[s]
        t == c.task
    IN  /\ c.step # NoStep
        /\ calls' = [calls EXCEPT ![s] = IF c.all THEN [c EXCEPT !.step = NoStep] ELSE NoCall]
        /\ \E ok, evidence \in BOOLEAN :
             tasks' = Kept([tasks EXCEPT ![t] = Answered(s, @, At(@, c.step), ok, evidence)], calls')

-----------------------------------------------------------------------------
(* run-all: one pending step after the other, then an explicit end *)

RunAll(s, t) ==
    /\ calls[s] = NoCall
    /\ t \in InMemory
    /\ calls' = [calls EXCEPT ![s] = [task |-> t, step |-> NoStep, all |-> TRUE]]
    /\ UNCHANGED tasks

(* Whoever runs everything goes on as long as no step was refused, the task *)
(* has not failed, and is in memory.                                        *)
Continues(t) ==
    t \in InMemory /\ PendingSteps(tasks[t]) # {} /\ tasks[t].status \notin {"BLOCKED", "FAILED"}

RunNext(s) ==
    LET t == calls[s].task
    IN  /\ calls[s].all /\ calls[s].step = NoStep
        /\ Continues(t)
        /\ Begin(s, t, FirstPending(tasks[t]), TRUE)

EndRunAll(s) ==
    LET t == calls[s].task
        open == /\ PendingSteps(tasks[t]) = {}
                /\ tasks[t].status # "BLOCKED"
                /\ tasks[t].verification = "PENDING"
    IN  /\ calls[s].all /\ calls[s].step = NoStep
        /\ ~Continues(t)
        /\ calls' = [calls EXCEPT ![s] = NoCall]
        /\ tasks' = IF open
                    THEN Kept([tasks EXCEPT ![t].status = "FAILED", ![t].verification = "FAILED"], calls')
                    ELSE Kept(tasks, calls')

SwarmNext == \E s \in Sessions :
    \/ \E q \in Selections : CreateSwarmTask(s, q)
    \/ \E t \in TaskIds : RunStep(s, t) \/ RunAll(s, t)
    \/ ToolAnswers(s) \/ RunNext(s) \/ EndRunAll(s)

SwarmSpec == SwarmInit /\ [][SwarmNext]_swarmVars

-----------------------------------------------------------------------------
(* Properties *)

(* "The plan is modified once": however the runs of a task's steps overlap, *)
(* no more steps are added to it than the limit, and every step keeps an id *)
(* of its own, by which clients name it (runSwarmStep, which counts after   *)
(* the tool was awaited).                                                   *)
ReplansBounded ==
    \A t \in Created :
        LET plan == tasks[t].plan
        IN  /\ \A i, j \in DOMAIN plan : plan[i].id = plan[j].id => i = j
            /\ Cardinality({i \in DOMAIN plan : plan[i].replanned}) <= MaxReplans

(* No verdict in suspense, and no stale one: when no step is pending or     *)
(* running, a task of which a step was run has the verdict its plan now     *)
(* deserves, or is blocked for a lacking permission, although steps may be  *)
(* run again and a verdict may have been given while one was running. One   *)
(* exception: a step was replanned to a tool the caller may not run.        *)
Settled(task) == StepsWith(task, "PENDING") \union StepsWith(task, "RUNNING") = {}

Stuck(task) == \E i \in StepsWith(task, "SKIPPED") : task.plan[i].replanned

PlanEndsInVerdict ==
    \A t \in Created :
        /\ Settled(tasks[t]) /\ ~Stuck(tasks[t])
        /\ \E i \in DOMAIN tasks[t].plan : tasks[t].plan[i].attempts > 0
        => tasks[t].status \in {Verdict(tasks[t]), "BLOCKED"}

(* Runs of the steps of a task may overlap, fail and be repeated: its plan  *)
(* grows within the limit, and ends in the verdict it deserves.             *)
PlansSettle == ReplansBounded /\ PlanEndsInVerdict
=============================================================================
