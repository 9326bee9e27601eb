------------------------------- MODULE TaskRuns -------------------------------
(***************************************************************************)
(* The Runs of one Task: TaskRunController.launch and continue             *)
(* (bridge/src/task-run-controller.js), the transitions it asks of         *)
(* TaskRunStore (task-run-store.js) and the file they are written to       *)
(* (task-store.js), the prompt and its callbacks (task-launcher.js), and   *)
(* what goes on beside a Run: Stop and the polling reconciliation          *)
(* (work-thread-controller.js), the release of the worktree, a restart of  *)
(* the daemon and its reconciliation.                                      *)
(*                                                                         *)
(* An actor is one call, and stops where it awaits the disk, git or an     *)
(* agent; two launches that wait for the reconciliation together resume in *)
(* turns, so reading the Task and accepting the Run are two steps.  A      *)
(* launch is named by the Run it makes.  The store is one object in memory *)
(* that every actor changes at once; writing it to the file is not         *)
(* serialised.                                                             *)
(***************************************************************************)
EXTENDS Integers, FiniteSets

CONSTANTS
    Launches,         \* launch and continue requests, and the Runs they make
    Continues,        \* those that are continue requests
    RequestId,        \* their clientRequestId
    NoRequestId,      \* the request carries none
    NoRun,            \* no Run yet
    Stops,            \* calls of markCancelled
    Polls,            \* calls of WorkThreadController.reconcile
    Cleanups,         \* calls of cleanupWorkspace
    Boot,             \* reconcileAll, which the daemon runs when it starts
    NoText,           \* nothing serialised
    Scenes            \* bounds: who calls, restarts of the daemon, failing writes

Observers == Stops \cup Polls \cup {Boot}
Actors == Launches \cup Observers \cup Cleanups

ASSUME TaskRunsAssumption ==
    /\ Continues \subseteq Launches
    /\ DOMAIN RequestId = Launches
    /\ NoRun \notin Launches
    /\ Scenes \subseteq [callers : SUBSET (Actors \ {Boot}), crashes : Nat, writeFailures : Nat]
    /\ Launches \cap (Observers \cup Cleanups) = {} /\ Cleanups \cap Observers = {}
    /\ Stops \cap Polls = {} /\ Boot \notin Stops \cup Polls

VARIABLES
    task,       \* the Task in memory
    disk,       \* the Task in the file
    text,       \* what each actor has serialised and is writing
    pc,         \* where each actor is
    seen,       \* the Run an actor read before it awaited something else
    turn,       \* what the native Session makes of each Run's prompt
    aged,       \* the Runs started longer ago than STARTUP_RECONCILE_GRACE_MS
    tree,       \* the Task's worktree exists
    overtaken,  \* history: an older text replaced a younger one in the file
    abandoned,  \* history: the Runs whose launch lost track of them
    superseded, \* history: the Runs that were prompted when another one was the Task's
    crashes, writeFailures,
    scene       \* the scene of this behaviour

storeVars == <<task, text, disk, overtaken>>
bounds == <<crashes, writeFailures, scene>>
vars == <<storeVars, pc, seen, turn, aged, tree, abandoned, superseded, bounds>>

-----------------------------------------------------------------------------
Active == {"starting", "running"}
Terminal == {"completed", "failed", "cancelled"}
Startable == {"draft"} \cup Terminal

(* "edits" numbers the changes, so as to tell an old text from a young one. *)
Task == [status: Startable \cup Active, run: Launches \cup {NoRun},
         runs: [Launches -> {"none"} \cup Active \cup Terminal],
         linked: SUBSET Launches, worktree: BOOLEAN, edits: Nat]

Saving == {"accepting", "linking", "starting", "ending"}

Stages == Saving \cup
    {"idle", "continued", "checked", "creating", "linked", "ready", "watching",
     "aborting", "aborted", "inspecting", "inspected", "removing", "removed", "done"}

TypeOK ==
    /\ task \in Task
    /\ disk \in Task
    /\ text \in [Actors -> Task \cup {NoText}]
    /\ \A a \in Actors : text[a] # NoText => pc[a] \in Saving
    /\ pc \in [Actors -> Stages]
    /\ seen \in [Observers -> Launches \cup {NoRun}]
    /\ turn \in [Launches -> {"none", "sent", "working", "over"}]
    /\ aged \subseteq Launches
    /\ tree \in BOOLEAN
    /\ overtaken \in BOOLEAN
    /\ abandoned \subseteq Launches /\ superseded \subseteq Launches
    /\ scene \in Scenes
    /\ crashes \in 0..scene.crashes
    /\ writeFailures \in 0..scene.writeFailures

(* A new Task in a worktree of its own, in a daemon that has just started. *)
Init ==
    /\ task = [status |-> "draft", run |-> NoRun, runs |-> [l \in Launches |-> "none"],
               linked |-> {}, worktree |-> TRUE, edits |-> 0]
    /\ disk = task
    /\ text = [a \in Actors |-> NoText]
    /\ scene \in Scenes
    /\ pc = [a \in Actors |-> IF a \in scene.callers \cup {Boot} THEN "idle" ELSE "done"]
    /\ seen = [a \in Observers |-> NoRun]
    /\ turn = [l \in Launches |-> "none"]
    /\ aged = {}
    /\ tree = TRUE
    /\ overtaken = FALSE
    /\ abandoned = {} /\ superseded = {}
    /\ crashes = 0
    /\ writeFailures = 0

-----------------------------------------------------------------------------
Goto(a, stage) == pc' = [pc EXCEPT ![a] = stage]

(* A change of the store; it is then written, while others change it again. *)
Change(updated) == task' = [updated EXCEPT !.edits = @ + 1]

(* setRunState on the current Run: the Task, the Run and its history entry. *)
Enters(l, status) == [task EXCEPT !.status = status, !.run = l, !.runs[l] = status]

Links(updated, l) == [updated EXCEPT !.linked = @ \cup {l}]

StoreKept == UNCHANGED <<text, disk, overtaken>>
WorldKept == UNCHANGED <<turn, aged, tree>>
HistoryKept == UNCHANGED <<abandoned, superseded, bounds>>

(* Slip: a terminal transition does not ask whose Run it ends. *)
EndRunAny(a, l, status) ==
    IF task.status \in Active
    THEN Change(Enters(task.run, status)) /\ Goto(a, "ending")
    ELSE UNCHANGED task /\ Goto(a, "done")

(* setRunState to a terminal status with expectedRunId: another Run, or a  *)
(* Task that is not active, is left alone.                                 *)
EndRun(a, l, status) ==
    IF task.run = l /\ task.status \in Active
    THEN Change(Enters(l, status)) /\ Goto(a, "ending")
    ELSE UNCHANGED task /\ Goto(a, "done")

-----------------------------------------------------------------------------
(* persist: once the directory is there, the whole store is serialised,    *)
(* written to a file of its own, and renamed over the old one.             *)

Serialise(a) ==
    /\ pc[a] \in Saving /\ text[a] = NoText
    /\ text' = [text EXCEPT ![a] = task]
    /\ UNCHANGED <<task, disk, overtaken, pc, seen>> /\ WorldKept /\ HistoryKept

(* Where a launch goes when its write has succeeded. *)
AfterSave == [accepting |-> "creating", linking |-> "linked", starting |-> "ready", ending |-> "done"]

Saved(a) ==
    /\ text[a] # NoText
    /\ disk' = text[a]
    /\ overtaken' = (overtaken \/ text[a].edits < disk.edits)
    /\ text' = [text EXCEPT ![a] = NoText]
    /\ Goto(a, AfterSave[pc[a]])
    /\ UNCHANGED <<task, seen>> /\ WorldKept /\ HistoryKept

(* The write fails.  A launch that was never acknowledged just throws, and *)
(* its Run stays in memory; one further on ends its Run as failed; every   *)
(* other actor gives up, with its change in memory.                        *)
SaveFails(a) ==
    /\ pc[a] \in Saving /\ writeFailures < scene.writeFailures
    /\ writeFailures' = writeFailures + 1
    /\ text' = [text EXCEPT ![a] = NoText]
    /\ \/ /\ pc[a] = "accepting"
          /\ abandoned' = abandoned \cup {a}
          /\ Goto(a, "done") /\ UNCHANGED task
       \/ /\ pc[a] \in {"linking", "starting"}
          /\ EndRun(a, a, "failed") /\ UNCHANGED abandoned
       \/ /\ pc[a] = "ending"
          /\ Goto(a, "done") /\ UNCHANGED <<task, abandoned>>
    /\ UNCHANGED <<disk, overtaken, seen, superseded, crashes, scene>> /\ WorldKept

-----------------------------------------------------------------------------
(* Some Run of the Task already carries this clientRequestId. *)
Known(l) ==
    RequestId[l] # NoRequestId /\
        \E m \in Launches : task.runs[m] # "none" /\ RequestId[m] = RequestId[l]

(* The daemon has reconciled the Tasks it found in its file. *)
Reconciled == pc[Boot] = "done"

(* continue, up to its call of launch. *)
Continue(l) ==
    /\ pc[l] = "idle" /\ l \in Continues /\ Reconciled
    /\ Goto(l, IF ~Known(l) /\ task.status \in Terminal THEN "continued" ELSE "done")
    /\ UNCHANGED <<task, seen>> /\ StoreKept /\ WorldKept /\ HistoryKept

(* launch reads the Task: "Only draft or terminal tasks can start a run". *)
Check(l) ==
    /\ pc[l] = IF l \in Continues THEN "continued" ELSE "idle"
    /\ Reconciled
    /\ Goto(l, IF task.status \in Startable THEN "checked" ELSE "done")
    /\ UNCHANGED <<task, seen>> /\ StoreKept /\ WorldKept /\ HistoryKept

(* Slip: the store does not look for the clientRequestId. *)
AcceptAgain(l) ==
    /\ pc[l] = "checked"
    /\ IF task.status = "running"
       THEN UNCHANGED task /\ Goto(l, "done")
       ELSE Change(Enters(l, "starting")) /\ Goto(l, "accepting")
    /\ UNCHANGED seen /\ StoreKept /\ WorldKept /\ HistoryKept

(* The acceptance boundary, setRunState "starting": a known request is     *)
(* answered with the Task, a running Task refuses, anything else starts.   *)
Accept(l) ==
    /\ pc[l] = "checked"
    /\ IF Known(l) \/ task.status = "running"
       THEN UNCHANGED task /\ Goto(l, "done")
       ELSE Change(Enters(l, "starting")) /\ Goto(l, "accepting")
    /\ UNCHANGED seen /\ StoreKept /\ WorldKept /\ HistoryKept

(* Slip: an error on the way to the prompt is only rethrown. *)
LaunchThrows(l) ==
    /\ pc[l] \in {"creating", "ready"}
    /\ UNCHANGED task /\ Goto(l, "done")
    /\ UNCHANGED seen /\ StoreKept /\ WorldKept /\ HistoryKept

(* The model, the Session or, before the prompt, the agent is unavailable. *)
LaunchFails(l) ==
    /\ pc[l] \in {"creating", "ready"}
    /\ EndRun(l, l, "failed")
    /\ UNCHANGED seen /\ StoreKept /\ WorldKept /\ HistoryKept

(* The native Session was created or resumed: setRunState "starting" with  *)
(* it.  A Run with a clientRequestId finds itself in the history and       *)
(* changes nothing; any other is set to "starting" whatever happened to it *)
(* meanwhile.                                                              *)
Link(l) ==
    /\ pc[l] = "creating"
    /\ \/ /\ Known(l) \/ task.run # l
          /\ UNCHANGED task /\ Goto(l, "linked")
       \/ /\ ~Known(l) /\ task.run = l /\ task.status # "running"
          /\ Change(Links(Enters(l, "starting"), l)) /\ Goto(l, "linking")
    /\ UNCHANGED seen /\ StoreKept /\ WorldKept /\ HistoryKept

(* setRunState "running": skipped when another Run took over, refused when *)
(* this one is no longer starting.                                         *)
MarkRunning(l) ==
    /\ pc[l] = "linked"
    /\ \/ /\ task.run # l
          /\ UNCHANGED task /\ Goto(l, "ready")
       \/ /\ task.run = l /\ task.status = "starting"
          /\ Change(Links(Enters(l, "running"), l)) /\ Goto(l, "starting")
       \/ /\ task.run = l /\ task.status # "starting"
          /\ EndRun(l, l, "failed")
    /\ UNCHANGED seen /\ StoreKept /\ WorldKept /\ HistoryKept

(* startPrompt: the prompt is on its way, with callbacks for its end. *)
StartPrompt(l) ==
    /\ pc[l] = "ready"
    /\ turn' = [turn EXCEPT ![l] = "sent"]
    /\ superseded' = IF task.run = l THEN superseded ELSE superseded \cup {l}
    /\ Goto(l, "watching")
    /\ UNCHANGED <<task, seen, aged, tree, abandoned, bounds>> /\ StoreKept

TurnBegins(l) ==
    /\ turn[l] = "sent"
    /\ turn' = [turn EXCEPT ![l] = "working"]
    /\ UNCHANGED <<task, pc, seen, aged, tree>> /\ StoreKept /\ HistoryKept

(* The turn completes, fails, or never begins. *)
TurnEnds(l) ==
    /\ turn[l] \in {"sent", "working"}
    /\ turn' = [turn EXCEPT ![l] = "over"]
    /\ UNCHANGED <<task, pc, seen, aged, tree>> /\ StoreKept /\ HistoryKept

(* onCompleted, once the outcome was read from the transcript, or onFailed. *)
Callback(l) ==
    /\ pc[l] = "watching" /\ turn[l] = "over"
    /\ \E status \in {"completed", "failed"} : EndRun(l, l, status)
    /\ UNCHANGED seen /\ StoreKept /\ WorldKept /\ HistoryKept

-----------------------------------------------------------------------------
(* Slip: the cancellation is not written. *)
CancelsUnsaved(s) ==
    Change(Enters(task.run, "cancelled")) /\ Goto(s, "done")

(* #mutate: whatever Run is current by now is cancelled. *)
Cancels(s) ==
    Change(Enters(task.run, "cancelled")) /\ Goto(s, "ending")

(* markCancelled reads the Task, and has a linked Run's Session aborted. *)
StopRead(s) ==
    /\ pc[s] = "idle"
    /\ \/ /\ task.status \notin Active
          /\ Goto(s, "done") /\ UNCHANGED <<task, seen>>
       \/ /\ task.status \in Active /\ task.run \notin task.linked
          /\ Cancels(s) /\ UNCHANGED seen
       \/ /\ task.status \in Active /\ task.run \in task.linked
          /\ seen' = [seen EXCEPT ![s] = task.run]
          /\ Goto(s, "aborting") /\ UNCHANGED task
    /\ StoreKept /\ WorldKept /\ HistoryKept

(* abortWorkThreadRun: a turn that runs is ended, or the abort fails. *)
StopAbort(s) ==
    /\ pc[s] = "aborting"
    /\ \/ /\ turn' = [turn EXCEPT ![seen[s]] = IF @ = "working" THEN "over" ELSE @]
          /\ Goto(s, "aborted")
       \/ UNCHANGED turn /\ Goto(s, "done")
    /\ UNCHANGED <<task, seen, aged, tree>> /\ StoreKept /\ HistoryKept

(* The Task is read again, and if it is still active marked. *)
StopMark(s) ==
    /\ pc[s] = "aborted"
    /\ IF task.status \in Active THEN Cancels(s) ELSE UNCHANGED task /\ Goto(s, "done")
    /\ UNCHANGED seen /\ StoreKept /\ WorldKept /\ HistoryKept

(* reconcile of an active Task, one at a time. *)
PollRead(p) ==
    /\ pc[p] = "idle"
    /\ \A q \in Polls : pc[q] \in {"idle", "done"}
    /\ task.status \in Active
    /\ seen' = [seen EXCEPT ![p] = task.run]
    /\ Goto(p, IF task.run \in task.linked THEN "inspecting" ELSE "done")
    /\ UNCHANGED task /\ StoreKept /\ WorldKept /\ HistoryKept

(* #inspectActive: a Session that is not busy has completed, unless its    *)
(* Run is still within the startup grace.                                  *)
PollInspect(p) ==
    /\ pc[p] = "inspecting"
    /\ Goto(p, IF turn[seen[p]] # "working" /\ seen[p] \in aged THEN "inspected" ELSE "done")
    /\ UNCHANGED <<task, seen>> /\ StoreKept /\ WorldKept /\ HistoryKept

PollComplete(p) ==
    /\ pc[p] = "inspected"
    /\ EndRun(p, seen[p], "completed")
    /\ UNCHANGED seen /\ StoreKept /\ WorldKept /\ HistoryKept

(* Time passes. *)
Age ==
    /\ task.status \in Active /\ task.run \notin aged
    /\ aged' = aged \cup {task.run}
    /\ UNCHANGED <<task, pc, seen, turn, tree>> /\ StoreKept /\ HistoryKept

(* cleanupWorkspace. *)
CleanupRead(c) ==
    /\ pc[c] = "idle" /\ Reconciled
    /\ Goto(c, IF task.status \notin Active /\ task.worktree THEN "removing" ELSE "done")
    /\ UNCHANGED <<task, seen>> /\ StoreKept /\ WorldKept /\ HistoryKept

(* git removes the worktree, unless it is dirty or gone. *)
CleanupRemove(c) ==
    /\ pc[c] = "removing"
    /\ \/ tree /\ tree' = FALSE /\ Goto(c, "removed")
       \/ UNCHANGED tree /\ Goto(c, "done")
    /\ UNCHANGED <<task, seen, turn, aged>> /\ StoreKept /\ HistoryKept

(* clearWorkspace. *)
CleanupClear(c) ==
    /\ pc[c] = "removed"
    /\ IF task.status \in Active \/ ~task.worktree
       THEN UNCHANGED task /\ Goto(c, "done")
       ELSE Change([task EXCEPT !.worktree = FALSE]) /\ Goto(c, "ending")
    /\ UNCHANGED seen /\ StoreKept /\ WorldKept /\ HistoryKept

-----------------------------------------------------------------------------
(* The daemon dies with its calls; a turn may outlive it or not.  The next *)
(* daemon finds the file and reconciles.                                   *)
Crash ==
    /\ crashes < scene.crashes
    /\ crashes' = crashes + 1
    /\ task' = disk
    /\ text' = [a \in Actors |-> NoText]
    /\ pc' = [a \in Actors |-> IF a = Boot \/ pc[a] = "idle" THEN "idle" ELSE "done"]
    /\ seen' = [a \in Observers |-> NoRun]
    /\ \E lost \in SUBSET {l \in Launches : turn[l] \in {"sent", "working"}} :
          turn' = [l \in Launches |-> IF l \in lost THEN "over" ELSE turn[l]]
    /\ abandoned' = Launches \ {l \in Launches : pc[l] = "idle"}
    /\ UNCHANGED <<disk, overtaken, aged, tree, superseded, writeFailures, scene>>

BootRead ==
    /\ pc[Boot] = "idle"
    /\ seen' = [seen EXCEPT ![Boot] = task.run]
    /\ Goto(Boot, IF task.status \in Active /\ task.run \in task.linked THEN "inspecting" ELSE "done")
    /\ UNCHANGED task /\ StoreKept /\ WorldKept /\ HistoryKept

(* reconcileAll: the Session is gone, or idle, or nothing is known of it. *)
BootInspect ==
    /\ pc[Boot] = "inspecting"
    /\ \/ turn[seen[Boot]] # "working" /\ \E status \in {"completed", "failed"} : EndRun(Boot, seen[Boot], status)
       \/ UNCHANGED task /\ Goto(Boot, "done")
    /\ UNCHANGED seen /\ StoreKept /\ WorldKept /\ HistoryKept

-----------------------------------------------------------------------------
Save(a) == Serialise(a) \/ Saved(a) \/ SaveFails(a)

Launch(l) ==
    \/ Check(l) \/ Accept(l) \/ LaunchFails(l)
    \/ Link(l) \/ MarkRunning(l) \/ StartPrompt(l) \/ Callback(l)

Next ==
    \/ \E l \in Launches : Continue(l) \/ Launch(l) \/ TurnBegins(l) \/ TurnEnds(l)
    \/ \E a \in Actors : Save(a)
    \/ \E s \in Stops : StopRead(s) \/ StopAbort(s) \/ StopMark(s)
    \/ \E p \in Polls : PollRead(p) \/ PollInspect(p) \/ PollComplete(p)
    \/ \E c \in Cleanups : CleanupRead(c) \/ CleanupRemove(c) \/ CleanupClear(c)
    \/ Age
    \/ Crash \/ BootRead \/ BootInspect

Spec == Init /\ [][Next]_vars

(* The awaits of a launch that was accepted end, and so does its turn: the *)
(* agent answers, or the client's timeouts do.                             *)
FairSpec ==
    /\ Spec
    /\ \A l \in Launches :
          /\ WF_vars(Launch(l) /\ pc[l] # "idle")
          /\ WF_vars(TurnEnds(l))
    /\ \A a \in Actors : WF_vars(Serialise(a)) /\ WF_vars(Saved(a))

-----------------------------------------------------------------------------
Prompted(l) == turn[l] # "none"

(* "launch persists run identity before starting the prompt": a Run that   *)
(* was prompted is in the file, and with its Session unless another one    *)
(* had taken over, so that however often a continue request is resent, and *)
(* whenever the daemon restarts, one Run is prompted for it; as long as no *)
(* write of the file was overtaken by an older one.                        *)
OnePromptPerRequest ==
    ~overtaken =>
        /\ \A l \in Launches :
            Prompted(l) => disk.runs[l] # "none" /\ l \in disk.linked \cup superseded
        /\ \A l, m \in Launches :
            /\ RequestId[l] # NoRequestId /\ RequestId[l] = RequestId[m]
            /\ Prompted(l) /\ Prompted(m)
            => l = m

(* When nobody is writing, the file holds what the memory does, unless a   *)
(* write failed or was overtaken.                                          *)
FileCatchesUp ==
    /\ ~overtaken /\ writeFailures = 0
    /\ \A a \in Actors : pc[a] \notin Saving
    => disk = task

(* A launch whose Run was superseded, in whatever it still does, its end   *)
(* and its failure included, leaves the Run that took over alone, and so   *)
(* does a poll that looked at a superseded Run.                            *)
SupersededRunsAreInert ==
    [][ crashes' = crashes =>
          /\ \A l \in Launches :
                /\ pc[l] \notin {"idle", "continued", "checked"} /\ pc'[l] # pc[l]
                /\ task.run # l
                => UNCHANGED task
          /\ \A p \in Polls :
                pc[p] = "inspected" /\ pc'[p] # pc[p] /\ task.run # seen[p] => UNCHANGED task ]_vars

(* A Task does not stay active for ever, if nothing fails. *)
TaskSettles ==
    [](abandoned = {}) => (task.status \in Active ~> task.status \notin Active)

=============================================================================
