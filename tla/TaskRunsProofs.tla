----------------------------- MODULE TaskRunsProofs -----------------------------
(***************************************************************************)
(* What TLAPS proves of TaskRuns: its two safety invariants,               *)
(* OnePromptPerRequest and FileCatchesUp, and SupersededRunsAreInert, for  *)
(* every value of the constants.                                           *)
(*                                                                         *)
(* The Task in memory, the Task in the file and the texts that are being   *)
(* written are versions of one Task.  The inductive invariant says that    *)
(* each of them is sound, that a younger one has everything an older one   *)
(* had, and how far a launch is when the file has its Run.                 *)
(***************************************************************************)
EXTENDS TaskRuns, TLAPS

-----------------------------------------------------------------------------
(* The types, by the parts of the state. *)
StoreTypes ==
    /\ task \in Task /\ disk \in Task
    /\ text \in [Actors -> Task \cup {NoText}]
    /\ overtaken \in BOOLEAN

FlowTypes ==
    /\ pc \in [Actors -> Stages]
    /\ seen \in [Observers -> Launches \cup {NoRun}]
    /\ \A a \in Actors : text[a] # NoText => pc[a] \in Saving
    /\ \A a \in Actors : pc[a] = "accepting" => a \in Launches

WorldTypes ==
    /\ turn \in [Launches -> {"none", "sent", "working", "over"}]
    /\ aged \subseteq Launches /\ tree \in BOOLEAN

BoundTypes ==
    /\ abandoned \subseteq Launches /\ superseded \subseteq Launches
    /\ scene \in Scenes
    /\ crashes \in 0..scene.crashes /\ writeFailures \in 0..scene.writeFailures

Types == StoreTypes /\ FlowTypes /\ WorldTypes /\ BoundTypes

-----------------------------------------------------------------------------
(* A version of the Task is sound: its current Run is in its history, an   *)
(* active one has a current Run, and no request made two Runs.             *)
Sound(v) ==
    /\ v.run # NoRun => v.runs[v.run] # "none"
    /\ v.status \in Active => v.run # NoRun
    /\ \A l, m \in Launches :
           /\ RequestId[l] # NoRequestId /\ RequestId[l] = RequestId[m]
           /\ v.runs[l] # "none" /\ v.runs[m] # "none"
           => l = m

(* A Run that is in the history stays there, and keeps its Session. *)
Extends(v, w) ==
    /\ \A l \in Launches : v.runs[l] # "none" => w.runs[l] # "none"
    /\ v.linked \subseteq w.linked

Written == {text[a] : a \in {b \in Actors : text[b] # NoText}}
Versions == {task, disk} \cup Written

(* The number of changes tells which of two versions is the younger. *)
InOrder(v, w) ==
    /\ v.edits = w.edits => v = w
    /\ v.edits <= w.edits => Extends(v, w)

VersionsInv ==
    /\ \A v \in Versions : Sound(v) /\ v.edits <= task.edits
    /\ \A v, w \in Versions : InOrder(v, w)

(* While nothing failed and nothing was overtaken: what the file lacks,    *)
(* somebody is about to write.                                             *)
FileInv ==
    ~overtaken /\ writeFailures = 0 =>
        \/ disk = task
        \/ \E a \in Actors : pc[a] \in Saving /\ text[a] \in {NoText, task}

Onward == {"creating", "linking", "linked", "starting", "ready", "watching"}

(* A launch goes on once its Run is in the file, and prompts once its      *)
(* Session is, unless another Run took over.                               *)
Follows(l) ==
    /\ pc[l] = "accepting" => task.runs[l] # "none" /\ (text[l] # NoText => text[l].runs[l] # "none")
    /\ pc[l] = "starting" => l \in task.linked /\ (text[l] # NoText => l \in text[l].linked)
    /\ ~overtaken =>
          /\ pc[l] \in Onward \/ Prompted(l) => disk.runs[l] # "none"
          /\ pc[l] = "ready" /\ task.run = l => l \in disk.linked
          /\ Prompted(l) /\ l \notin superseded => l \in disk.linked

LaunchInv == \A l \in Launches : Follows(l)

RunsInv == Types /\ VersionsInv /\ FileInv /\ LaunchInv

-----------------------------------------------------------------------------
(* Versions. *)

LEMMA Sets ==
    /\ Launches \subseteq Actors /\ Observers \subseteq Actors /\ Cleanups \subseteq Actors
    /\ Stops \subseteq Observers /\ Polls \subseteq Observers /\ Boot \in Observers
    /\ NoRun \notin Launches
    /\ Saving \subseteq Stages /\ Active \cup Terminal \subseteq Startable \cup Active
BY TaskRunsAssumption DEF Actors, Observers, Saving, Stages, Active, Terminal, Startable

LEMMA AreTasks ==
    ASSUME StoreTypes PROVE \A v \in Versions : v \in Task /\ v.edits \in Nat
<1>1. \A v \in Written : v \in Task
  BY DEF StoreTypes, Written
<1> QED
  BY <1>1 DEF StoreTypes, Versions, Task

(* What is left of the versions when none is made. *)
LEMMA FewerVersions ==
    ASSUME StoreTypes, VersionsInv, Versions' \subseteq Versions,
           task' = task \/ (task' = disk /\ Versions' = {disk})
    PROVE  VersionsInv'
<1>1. \A v \in Versions' : Sound(v)' /\ v.edits <= task'.edits
  <2> TAKE v \in Versions'
  <2>1. Sound(v)
    BY DEF VersionsInv
  <2>2. v.edits \in Nat
    BY AreTasks
  <2>3. CASE task' = task
    BY <2>1, <2>3 DEF VersionsInv, Sound
  <2>4. CASE task' = disk /\ Versions' = {disk}
    BY <2>1, <2>2, <2>4 DEF Sound
  <2> QED
    BY <2>3, <2>4
<1>2. \A v, w \in Versions' : InOrder(v, w)'
  BY DEF VersionsInv, InOrder, Extends
<1> QED
  BY <1>1, <1>2 DEF VersionsInv

(* A change makes a version that is younger than all others. *)
LEMMA YoungerVersion ==
    ASSUME StoreTypes, VersionsInv,
           NEW v \in Task, v.edits = task.edits, Sound(v), Extends(task, v), Change(v),
           disk' = disk, Written' \subseteq Written
    PROVE  VersionsInv' /\ task' \in Task /\ Extends(task, task') /\ task'.run = v.run
<1>1. /\ task' \in Task /\ task'.edits = task.edits + 1
      /\ task'.status = v.status /\ task'.run = v.run /\ task'.runs = v.runs /\ task'.linked = v.linked
  BY DEF Change, Task
<1>2. Sound(task') /\ Extends(task, task')
  BY <1>1 DEF Sound, Extends
<1>3. \A w \in Versions' : w = task' \/ w \in Versions
  BY DEF Versions
<1>4. \A w \in Versions : w.edits \in Nat /\ w.edits <= task.edits /\ Sound(w) /\ Extends(w, task)
  BY AreTasks DEF VersionsInv, InOrder, Versions
<1>5. task.edits \in Nat
  BY AreTasks DEF Versions
<1>6. \A w \in Versions : w.edits < task'.edits /\ Extends(w, task')
  BY <1>1, <1>2, <1>4, <1>5 DEF Extends
<1>7. \A w \in Versions' : Sound(w) /\ w.edits <= task'.edits
  BY <1>1, <1>2, <1>3, <1>4, <1>5
<1>8. \A w, x \in Versions' : InOrder(w, x)
  <2>1. ASSUME NEW w \in Versions', NEW x \in Versions' PROVE InOrder(w, x)
    <3>1. CASE w \in Versions /\ x \in Versions
      BY <3>1 DEF VersionsInv
    <3>2. CASE w \in Versions /\ x = task'
      BY <1>1, <1>4, <1>5, <1>6, <3>2 DEF InOrder
    <3>3. CASE w = task' /\ x \in Versions
      BY <1>1, <1>4, <1>5, <1>6, <3>3 DEF InOrder
    <3>4. CASE w = task' /\ x = task'
      BY <3>4 DEF InOrder, Extends
    <3> QED
      BY <1>3, <3>1, <3>2, <3>3, <3>4
  <2> QED
    BY <2>1
<1> QED
  BY <1>1, <1>2, <1>7, <1>8 DEF VersionsInv, Sound, InOrder, Extends

-----------------------------------------------------------------------------
(* The changes of the store. *)

(* A change that is sound, and loses nothing. *)
Grows(v) == v \in Task /\ v.edits = task.edits /\ Sound(v) /\ Extends(task, v)

(* A Run enters a state when it is the current one, or a new one whose     *)
(* request is not known.                                                   *)
LEMMA EntersGrows ==
    ASSUME StoreTypes, VersionsInv, NEW l \in Launches, NEW status \in Active \cup Terminal,
           task.run = l \/ ~Known(l)
    PROVE  /\ Grows(Enters(l, status)) /\ Grows(Links(Enters(l, status), l))
           /\ Enters(l, status).run = l /\ Enters(l, status).runs[l] # "none"
           /\ Links(Enters(l, status), l).run = l /\ l \in Links(Enters(l, status), l).linked
<1> DEFINE v == Enters(l, status)
           w == Links(Enters(l, status), l)
<1> USE Sets
<1>1. task \in Task /\ Sound(task)
  BY DEF StoreTypes, VersionsInv, Versions
<1>2. /\ v \in Task /\ v.edits = task.edits /\ v.run = l /\ v.status = status
      /\ v.runs = [task.runs EXCEPT ![l] = status] /\ v.linked = task.linked
  BY <1>1 DEF Enters, Task
<1>3. /\ w \in Task /\ w.edits = v.edits /\ w.run = v.run /\ w.status = v.status
      /\ w.runs = v.runs /\ w.linked = v.linked \cup {l}
  BY <1>2 DEF Links, Task
<1> HIDE DEF v, w
<1>4. task.runs \in [Launches -> {"none"} \cup Active \cup Terminal] /\ status # "none"
  BY <1>1 DEF Task, Active, Terminal
<1>5. v.runs[l] # "none" /\ \A m \in Launches : m # l => v.runs[m] = task.runs[m]
  BY <1>2, <1>4
<1>6. \A m \in Launches :
          RequestId[m] # NoRequestId /\ RequestId[l] = RequestId[m] /\ v.runs[m] # "none" => m = l
  <2> TAKE m \in Launches
  <2>1. CASE task.run = l
    BY <1>1, <1>5, <2>1 DEF Sound
  <2>2. CASE ~Known(l)
    BY <1>5, <2>2 DEF Known
  <2> QED
    BY <2>1, <2>2
<1>7. Sound(v)
  <2>1. ASSUME NEW k \in Launches, NEW m \in Launches,
               RequestId[k] # NoRequestId, RequestId[k] = RequestId[m],
               v.runs[k] # "none", v.runs[m] # "none"
        PROVE  k = m
    <3>1. CASE k = l \/ m = l
      BY <1>6, <2>1, <3>1
    <3>2. CASE k # l /\ m # l
      BY <1>1, <1>5, <2>1, <3>2 DEF Sound
    <3> QED
      BY <3>1, <3>2
  <2> QED
    BY <1>2, <1>5, <2>1 DEF Sound
<1>8. Sound(w)
  BY <1>3, <1>7 DEF Sound
<1>9. Extends(task, v) /\ Extends(task, w)
  BY <1>2, <1>3, <1>5 DEF Extends
<1>10. Grows(v) /\ v.run = l /\ v.runs[l] # "none"
  BY <1>2, <1>5, <1>7, <1>9 DEF Grows
<1>11. Grows(w) /\ w.run = l /\ l \in w.linked
  BY <1>2, <1>3, <1>8, <1>9 DEF Grows
<1> QED
  BY <1>10, <1>11 DEF v, w

LEMMA ClearsGrows ==
    ASSUME StoreTypes, VersionsInv
    PROVE  Grows([task EXCEPT !.worktree = FALSE]) /\ [task EXCEPT !.worktree = FALSE].run = task.run
<1> DEFINE v == [task EXCEPT !.worktree = FALSE]
<1>1. task \in Task /\ Sound(task)
  BY DEF StoreTypes, VersionsInv, Versions
<1>2. /\ v \in Task /\ v.edits = task.edits /\ v.run = task.run /\ v.status = task.status
      /\ v.runs = task.runs /\ v.linked = task.linked
  BY <1>1 DEF Task
<1> HIDE DEF v
<1>3. Sound(v) /\ Extends(task, v)
  BY <1>1, <1>2 DEF Sound, Extends
<1>4. Grows(v) /\ v.run = task.run
  BY <1>2, <1>3 DEF Grows
<1> QED
  BY <1>4 DEF v

-----------------------------------------------------------------------------
(* The steps of an actor between its writes. *)

(* It goes on without a change, or changes the Task and has it written.    *)
Idles(a) == UNCHANGED task /\ \E s \in Stages \ Saving : Goto(a, s)
Writes(a) == /\ \E v \in Task : Grows(v) /\ Change(v)
             /\ \E s \in Saving : Goto(a, s) /\ (s = "accepting" => a \in Launches)

(* Ending a Run: only the current one, which remains so. *)
LEMMA Ends ==
    ASSUME StoreTypes, VersionsInv, NEW a \in Actors, pc \in [Actors -> Stages],
           NEW l, NEW status \in Terminal, EndRun(a, l, status)
    PROVE  /\ Idles(a) \/ Writes(a)
           /\ task'.run = task.run /\ (task.run # l => UNCHANGED task)
           /\ pc' = [pc EXCEPT ![a] = pc'[a]] /\ pc'[a] \in {"ending", "done"}
<1>1. CASE task.run = l /\ task.status \in Active
  <2>1. l \in Launches
    BY <1>1 DEF VersionsInv, Versions, Sound, StoreTypes, Task
  <2>2. Grows(Enters(l, status)) /\ Enters(l, status).run = l
    BY <1>1, <2>1, EntersGrows
  <2>3. Change(Enters(l, status)) /\ Goto(a, "ending")
    BY <1>1 DEF EndRun
  <2>4. task'.run = task.run
    BY <1>1, <2>2, <2>3 DEF Change, Grows, Task
  <2>5. pc' = [pc EXCEPT ![a] = pc'[a]] /\ pc'[a] = "ending"
    BY <2>3 DEF Goto
  <2> QED
    BY <1>1, <2>2, <2>3, <2>4, <2>5 DEF Writes, Saving, Grows
<1>2. CASE ~(task.run = l /\ task.status \in Active)
  <2>1. UNCHANGED task /\ Goto(a, "done")
    BY <1>2 DEF EndRun
  <2>2. pc' = [pc EXCEPT ![a] = pc'[a]] /\ pc'[a] = "done"
    BY <2>1 DEF Goto
  <2> QED
    BY <2>1, <2>2 DEF Idles, Stages, Saving
<1> QED
  BY <1>1, <1>2

(* A stopped Run is the current one, which remains so. *)
LEMMA CancelsWrites ==
    ASSUME StoreTypes, VersionsInv, NEW a \in Actors, task.status \in Active, Cancels(a)
    PROVE  Writes(a) /\ task'.run = task.run
<1>1. task.run \in Launches
  BY DEF VersionsInv, Versions, Sound, StoreTypes, Task
<1>2. Grows(Enters(task.run, "cancelled")) /\ Enters(task.run, "cancelled").run = task.run
  BY <1>1, EntersGrows DEF Terminal
<1>3. task'.run = task.run
  BY <1>2 DEF Cancels, Change, Grows, Task
<1> QED
  BY <1>2, <1>3 DEF Cancels, Writes, Saving, Grows

(* What such a step does to the store and to the other actors. *)
LEMMA ActorStep ==
    ASSUME RunsInv, NEW a \in Actors, pc[a] \notin Saving, Idles(a) \/ Writes(a), StoreKept,
           seen' \in [Observers -> Launches \cup {NoRun}], WorldTypes', BoundTypes',
           writeFailures' = writeFailures
    PROVE  /\ Types' /\ VersionsInv' /\ FileInv' /\ Extends(task, task')
           /\ \A b \in Actors : b # a => pc'[b] = pc[b]
<1> USE Sets DEF RunsInv, Types
<1>1. PICK s \in Stages : /\ Goto(a, s) /\ (s = "accepting" => a \in Launches)
                         /\ ((UNCHANGED task /\ s \notin Saving) \/ (Writes(a) /\ s \in Saving))
  <2>1. CASE Idles(a)
    BY <2>1 DEF Idles, Saving
  <2>2. CASE Writes(a)
    BY <2>2 DEF Writes
  <2> QED
    BY <2>1, <2>2
<1>2. /\ pc' \in [Actors -> Stages] /\ pc'[a] = s
      /\ \A b \in Actors : b # a => pc'[b] = pc[b]
  BY <1>1 DEF Goto, FlowTypes
<1>3. UNCHANGED <<text, disk, overtaken>> /\ Written' = Written
  BY DEF StoreKept, Written
<1>4. text[a] = NoText
  BY DEF FlowTypes
<1>5. FlowTypes'
  <2>1. \A b \in Actors : pc'[b] = "accepting" => b \in Launches
    BY <1>1, <1>2 DEF FlowTypes
  <2>2. \A b \in Actors : text'[b] # NoText => pc'[b] \in Saving
    BY <1>2, <1>3, <1>4 DEF FlowTypes
  <2> QED
    BY <1>2, <2>1, <2>2 DEF FlowTypes
<1>6. CASE UNCHANGED task /\ s \notin Saving
  <2>1. StoreTypes' /\ Extends(task, task')
    BY <1>3, <1>6 DEF StoreTypes, Extends
  <2>2. VersionsInv'
    BY <1>3, <1>6, FewerVersions DEF Versions
  <2>3. FileInv'
    BY <1>2, <1>3, <1>6 DEF FileInv
  <2> QED
    BY <1>2, <1>5, <2>1, <2>2, <2>3
<1>7. CASE Writes(a) /\ s \in Saving
  <2>1. PICK v \in Task : Grows(v) /\ Change(v)
    BY <1>7 DEF Writes
  <2>2. VersionsInv' /\ task' \in Task /\ Extends(task, task')
    BY <1>3, <2>1, YoungerVersion DEF Grows
  <2>3. StoreTypes'
    BY <1>3, <2>2 DEF StoreTypes
  <2>4. FileInv'
    BY <1>2, <1>3, <1>4, <1>7 DEF FileInv
  <2> QED
    BY <1>2, <1>5, <2>2, <2>3, <2>4
<1> QED
  BY <1>1, <1>6, <1>7

(* What a launch relies on stays, whatever others do. *)
LEMMA FollowsKeeps ==
    ASSUME NEW l \in Launches, Follows(l),
           pc'[l] = pc[l] \/ pc'[l] \notin Onward \cup {"accepting"},
           pc'[l] \in {"accepting", "starting"} => Extends(task, task') /\ text'[l] \in {text[l], NoText},
           Prompted(l)' => Prompted(l), l \in superseded => l \in superseded',
           ~overtaken' => ~overtaken /\ Extends(disk, disk'),
           pc'[l] = "ready" /\ task'.run = l => task.run = l
    PROVE  Follows(l)'
<1>1. pc'[l] = "accepting" => /\ task'.runs[l] # "none"
                              /\ (text'[l] # NoText => text'[l].runs[l] # "none")
  BY DEF Follows, Extends, Onward
<1>2. pc'[l] = "starting" => /\ l \in task'.linked
                             /\ (text'[l] # NoText => l \in text'[l].linked)
  BY DEF Follows, Extends, Onward
<1>3. ~overtaken' =>
          /\ pc'[l] \in Onward \/ Prompted(l)' => disk'.runs[l] # "none"
          /\ pc'[l] = "ready" /\ task'.run = l => l \in disk'.linked
          /\ Prompted(l)' /\ l \notin superseded' => l \in disk'.linked
  BY DEF Follows, Extends, Onward
<1> QED
  BY <1>1, <1>2, <1>3 DEF Follows

LEMMA SameDisk ==
    ASSUME UNCHANGED <<disk, overtaken>> PROVE ~overtaken' => ~overtaken /\ Extends(disk, disk')
BY DEF Extends

(* A step of a call that is not a launch. *)
LEMMA ObserverStep ==
    ASSUME RunsInv, NEW a \in Observers \cup Cleanups, pc[a] \notin Saving, Idles(a) \/ Writes(a),
           task'.run = task.run, StoreKept,
           seen' \in [Observers -> Launches \cup {NoRun}], WorldTypes', BoundTypes',
           UNCHANGED <<writeFailures, superseded>>,
           \A l \in Launches : Prompted(l)' => Prompted(l)
    PROVE  RunsInv'
<1>1. a \in Actors /\ a \notin Launches
  BY Sets, TaskRunsAssumption
<1>2. /\ Types' /\ VersionsInv' /\ FileInv' /\ Extends(task, task')
      /\ \A b \in Actors : b # a => pc'[b] = pc[b]
  BY <1>1, ActorStep
<1>3. LaunchInv'
  <2>1. ASSUME NEW l \in Launches PROVE Follows(l)'
    BY <1>1, <1>2, Sets, FollowsKeeps, SameDisk DEF StoreKept, RunsInv, LaunchInv
  <2> QED
    BY <2>1 DEF LaunchInv
<1> QED
  BY <1>2, <1>3 DEF RunsInv

(* A step of a launch, which may make its Run the current one. *)
LEMMA LaunchStep ==
    ASSUME RunsInv, NEW l \in Launches, pc[l] \notin Saving, Idles(l) \/ Writes(l),
           task'.run \in {task.run, l}, StoreKept, WorldTypes', BoundTypes',
           UNCHANGED <<writeFailures, seen>>,
           \A m \in Launches : m # l => /\ Prompted(m)' => Prompted(m)
                                        /\ m \in superseded => m \in superseded',
           Follows(l)'
    PROVE  RunsInv'
<1>1. l \in Actors
  BY Sets
<1>a. seen' \in [Observers -> Launches \cup {NoRun}]
  BY DEF RunsInv, Types, FlowTypes
<1>2. /\ Types' /\ VersionsInv' /\ FileInv' /\ Extends(task, task')
      /\ \A b \in Actors : b # l => pc'[b] = pc[b]
  BY <1>1, <1>a, ActorStep
<1>3. LaunchInv'
  <2>1. ASSUME NEW m \in Launches, m # l PROVE Follows(m)'
    <3>1. /\ Follows(m) /\ pc'[m] = pc[m] /\ text'[m] = text[m]
          /\ Prompted(m)' => Prompted(m)
      BY <1>2, <2>1, Sets DEF StoreKept, RunsInv, LaunchInv
    <3>2. m \in superseded => m \in superseded'
      BY <2>1
    <3>3. task'.run = m => task.run = m
      BY <2>1
    <3> QED
      BY <1>2, <3>1, <3>2, <3>3, FollowsKeeps, SameDisk DEF StoreKept
  <2> QED
    BY <2>1 DEF LaunchInv
<1> QED
  BY <1>2, <1>3 DEF RunsInv

-----------------------------------------------------------------------------
(* The actions. *)

LEMMA Kept ==
    /\ WorldKept => (WorldTypes' <=> WorldTypes) /\ \A l \in Launches : Prompted(l)' = Prompted(l)
    /\ HistoryKept => (BoundTypes' <=> BoundTypes) /\ UNCHANGED <<writeFailures, superseded>>
    /\ StoreKept => UNCHANGED <<text, disk, overtaken>>
BY DEF WorldKept, WorldTypes, Prompted, HistoryKept, bounds, BoundTypes, StoreKept

LEMMA LaunchActions ==
    ASSUME RunsInv, NEW l \in Launches, Continue(l) \/ Launch(l) PROVE RunsInv'
<1> USE Sets DEF RunsInv, Types
<1>1. l \in Actors /\ pc \in [Actors -> Stages] /\ StoreTypes /\ Follows(l)
  BY DEF FlowTypes, LaunchInv
<1>2. ASSUME StoreKept, HistoryKept, WorldKept, UNCHANGED seen,
             Idles(l) \/ Writes(l), pc[l] \notin Saving,
             pc' = [pc EXCEPT ![l] = pc'[l]], pc'[l] \notin Onward \cup {"accepting"},
             task'.run = task.run
      PROVE  RunsInv'
  <2>1. Follows(l)'
    BY <1>1, <1>2, Kept, FollowsKeeps, SameDisk DEF Onward
  <2> QED
    BY <1>2, <2>1, Kept, LaunchStep
<1>3. CASE Continue(l) \/ Check(l)
  <2>1. PICK s \in {"continued", "checked", "done"} : Goto(l, s)
    BY <1>3 DEF Continue, Check
  <2>2. pc' = [pc EXCEPT ![l] = pc'[l]] /\ pc'[l] = s /\ Idles(l) /\ UNCHANGED task
    BY <1>1, <1>3, <2>1 DEF Goto, Idles, Stages, Saving, Continue, Check
  <2>3. pc[l] \notin Saving
    BY <1>3 DEF Continue, Check, Saving
  <2> QED
    BY <1>2, <1>3, <2>1, <2>2, <2>3 DEF Continue, Check, Onward
<1>4. CASE LaunchFails(l) \/ Callback(l)
  <2>1. PICK status \in Terminal : EndRun(l, l, status)
    BY <1>4 DEF LaunchFails, Callback, Terminal
  <2>2. pc[l] \notin Saving
    BY <1>4 DEF LaunchFails, Callback, Saving
  <2>3. /\ Idles(l) \/ Writes(l)
        /\ task'.run = task.run
        /\ pc' = [pc EXCEPT ![l] = pc'[l]] /\ pc'[l] \in {"ending", "done"}
    BY <1>1, <2>1, Ends
  <2> QED
    BY <1>2, <1>4, <2>2, <2>3 DEF LaunchFails, Callback, Onward
<1>5. CASE Accept(l)
  <2>1. pc[l] \notin Saving /\ text[l] = NoText
    BY <1>1, <1>5 DEF Accept, Saving, FlowTypes
  <2>2. CASE Known(l) \/ task.status = "running"
    <3>1. UNCHANGED task /\ Goto(l, "done")
      BY <1>5, <2>2 DEF Accept
    <3>2. pc' = [pc EXCEPT ![l] = pc'[l]] /\ pc'[l] = "done" /\ Idles(l)
      BY <1>1, <3>1 DEF Goto, Idles, Stages, Saving
    <3> QED
      BY <1>2, <1>5, <2>1, <3>1, <3>2 DEF Accept, Onward
  <2>3. CASE ~(Known(l) \/ task.status = "running")
    <3>1. Change(Enters(l, "starting")) /\ Goto(l, "accepting")
      BY <1>5, <2>3 DEF Accept
    <3>2. Grows(Enters(l, "starting")) /\ Enters(l, "starting").run = l /\ Enters(l, "starting").runs[l] # "none"
      BY <1>1, <2>3, EntersGrows DEF Active
    <3>3. task'.run = l /\ task'.runs[l] # "none"
      BY <3>1, <3>2 DEF Change, Grows, Task
    <3>4. Writes(l) /\ pc'[l] = "accepting"
      BY <1>1, <3>1, <3>2 DEF Writes, Grows, Goto, Saving
    <3>5. Follows(l)'
      BY <1>1, <1>5, <2>1, <3>3, <3>4, Kept DEF Follows, Accept, Onward
    <3> QED
      BY <1>5, <2>1, <3>3, <3>4, <3>5, Kept, LaunchStep DEF Accept
  <2> QED
    BY <2>2, <2>3
<1>6. CASE Link(l)
  <2>1. pc[l] \notin Saving /\ text[l] = NoText /\ pc[l] \in Onward
    BY <1>1, <1>6 DEF Link, Saving, Onward, FlowTypes
  <2>2. CASE UNCHANGED task /\ Goto(l, "linked")
    <3>1. pc'[l] = "linked" /\ Idles(l)
      BY <1>1, <2>2 DEF Goto, Idles, Stages, Saving
    <3>2. Follows(l)'
      BY <1>1, <1>6, <2>1, <3>1, Kept DEF Follows, Link, Onward
    <3> QED
      BY <1>6, <2>1, <2>2, <3>1, <3>2, Kept, LaunchStep DEF Link
  <2>3. CASE task.run = l /\ Change(Links(Enters(l, "starting"), l)) /\ Goto(l, "linking")
    <3>1. Grows(Links(Enters(l, "starting"), l)) /\ Links(Enters(l, "starting"), l).run = l
      BY <1>1, <2>3, EntersGrows DEF Active
    <3>2. task'.run = l
      BY <2>3, <3>1 DEF Change, Grows, Task
    <3>3. Writes(l) /\ pc'[l] = "linking"
      BY <1>1, <2>3, <3>1 DEF Writes, Grows, Goto, Saving
    <3>4. Follows(l)'
      BY <1>1, <1>6, <2>1, <3>3, Kept DEF Follows, Link, Onward
    <3> QED
      BY <1>6, <2>1, <3>2, <3>3, <3>4, Kept, LaunchStep DEF Link
  <2> QED
    BY <1>6, <2>2, <2>3 DEF Link
<1>7. CASE MarkRunning(l)
  <2>1. pc[l] \notin Saving /\ text[l] = NoText /\ pc[l] \in Onward
    BY <1>1, <1>7 DEF MarkRunning, Saving, Onward, FlowTypes
  <2>2. CASE task.run # l /\ UNCHANGED task /\ Goto(l, "ready")
    <3>1. pc'[l] = "ready" /\ Idles(l)
      BY <1>1, <2>2 DEF Goto, Idles, Stages, Saving
    <3>2. Follows(l)'
      BY <1>1, <1>7, <2>1, <2>2, <3>1, Kept DEF Follows, MarkRunning, Onward
    <3> QED
      BY <1>7, <2>1, <2>2, <3>1, <3>2, Kept, LaunchStep DEF MarkRunning
  <2>3. CASE task.run = l /\ Change(Links(Enters(l, "running"), l)) /\ Goto(l, "starting")
    <3>1. /\ Grows(Links(Enters(l, "running"), l)) /\ Links(Enters(l, "running"), l).run = l
          /\ l \in Links(Enters(l, "running"), l).linked
      BY <1>1, <2>3, EntersGrows DEF Active
    <3>2. task'.run = l /\ l \in task'.linked
      BY <2>3, <3>1 DEF Change, Grows, Task
    <3>3. Writes(l) /\ pc'[l] = "starting"
      BY <1>1, <2>3, <3>1 DEF Writes, Grows, Goto, Saving
    <3>4. Follows(l)'
      BY <1>1, <1>7, <2>1, <3>2, <3>3, Kept DEF Follows, MarkRunning, Onward
    <3> QED
      BY <1>7, <2>1, <3>2, <3>3, <3>4, Kept, LaunchStep DEF MarkRunning
  <2>4. CASE EndRun(l, l, "failed")
    <3>1. /\ Idles(l) \/ Writes(l)
          /\ task'.run = task.run
          /\ pc' = [pc EXCEPT ![l] = pc'[l]] /\ pc'[l] \in {"ending", "done"}
      BY <1>1, <2>4, Ends DEF Terminal
    <3> QED
      BY <1>2, <1>7, <2>1, <3>1 DEF MarkRunning, Onward
  <2> QED
    BY <1>7, <2>2, <2>3, <2>4 DEF MarkRunning
<1>8. CASE StartPrompt(l)
  <2>1. pc[l] \notin Saving /\ pc[l] \in Onward /\ UNCHANGED task /\ Goto(l, "watching")
    BY <1>8 DEF StartPrompt, Saving, Onward
  <2>2. pc'[l] = "watching" /\ Idles(l)
    BY <1>1, <2>1 DEF Goto, Idles, Stages, Saving
  <2>3. WorldTypes' /\ \A m \in Launches : m # l => Prompted(m)' = Prompted(m)
    BY <1>8 DEF StartPrompt, WorldTypes, Prompted
  <2>4. /\ superseded' = IF task.run = l THEN superseded ELSE superseded \cup {l}
        /\ UNCHANGED writeFailures
    BY <1>8 DEF StartPrompt, bounds
  <2>5. BoundTypes'
    BY <1>8, <2>4 DEF StartPrompt, BoundTypes, bounds
  <2>6. Follows(l)'
    BY <1>1, <1>8, <2>1, <2>2, <2>4 DEF StartPrompt, Follows, Onward, StoreKept
  <2> QED
    BY <1>8, <2>1, <2>2, <2>3, <2>4, <2>5, <2>6, LaunchStep DEF StartPrompt
<1> QED
  BY <1>3, <1>4, <1>5, <1>6, <1>7, <1>8 DEF Launch

LEMMA ObserverActions ==
    ASSUME RunsInv,
           \/ \E s \in Stops : StopRead(s) \/ StopAbort(s) \/ StopMark(s)
           \/ \E p \in Polls : PollRead(p) \/ PollInspect(p) \/ PollComplete(p)
           \/ \E c \in Cleanups : CleanupRead(c) \/ CleanupRemove(c) \/ CleanupClear(c)
           \/ BootRead \/ BootInspect
    PROVE  RunsInv'
<1> USE Sets DEF RunsInv, Types
<1>1. /\ pc \in [Actors -> Stages] /\ StoreTypes
      /\ seen \in [Observers -> Launches \cup {NoRun}] /\ task.run \in Launches \cup {NoRun}
  BY DEF FlowTypes, StoreTypes, Task
<1>2. ASSUME NEW a \in Observers \cup Cleanups, pc[a] \notin Saving, Idles(a) \/ Writes(a),
             task'.run = task.run, StoreKept, HistoryKept, WorldKept,
             seen' = seen \/ (a \in Observers /\ seen' = [seen EXCEPT ![a] = task.run])
      PROVE  RunsInv'
  <2>1. seen' \in [Observers -> Launches \cup {NoRun}]
    BY <1>1, <1>2
  <2> QED
    BY <1>2, <2>1, Kept, ObserverStep
<1>s. {"idle", "done", "aborting", "aborted", "inspecting", "inspected", "removing", "removed"} \subseteq Stages \ Saving
  BY DEF Stages, Saving
<1>3. ASSUME NEW s \in Stops, StopRead(s) \/ StopMark(s) PROVE RunsInv'
  <2>1. /\ pc[s] \notin Saving /\ StoreKept /\ HistoryKept /\ WorldKept
        /\ seen' = seen \/ seen' = [seen EXCEPT ![s] = task.run]
    BY <1>3, <1>s DEF StopRead, StopMark
  <2>2. \/ UNCHANGED task /\ \E g \in {"done", "aborting"} : Goto(s, g)
        \/ task.status \in Active /\ Cancels(s)
    BY <1>3 DEF StopRead, StopMark
  <2>3. (Idles(s) \/ Writes(s)) /\ task'.run = task.run
    BY <1>1, <1>s, <2>2, CancelsWrites DEF Idles
  <2> QED
    BY <1>2, <2>1, <2>3
<1>4. ASSUME NEW s \in Stops, StopAbort(s) PROVE RunsInv'
  <2>1. /\ pc[s] \notin Saving /\ StoreKept /\ HistoryKept /\ UNCHANGED <<task, seen, aged, tree>>
        /\ \E g \in {"done", "aborted"} : Goto(s, g)
        /\ turn' = [turn EXCEPT ![seen[s]] = IF @ = "working" THEN "over" ELSE @] \/ UNCHANGED turn
    BY <1>4, <1>s DEF StopAbort
  <2>2. Idles(s)
    BY <1>s, <2>1 DEF Idles
  <2>3. \A l \in Launches : turn'[l] \in {turn[l], "over"} /\ (turn[l] = "none" => turn'[l] = "none")
    <3> TAKE l \in Launches
    <3>1. CASE seen[s] = l
      BY <2>1, <3>1 DEF WorldTypes
    <3>2. CASE seen[s] # l
      BY <2>1, <3>2 DEF WorldTypes
    <3> QED
      BY <3>1, <3>2
  <2>4. turn' \in [Launches -> {"none", "sent", "working", "over"}]
    <3>1. turn' = turn \/ turn' = [turn EXCEPT ![seen[s]] = IF turn[seen[s]] = "working" THEN "over" ELSE turn[seen[s]]]
      BY <2>1
    <3>2. DOMAIN turn' = Launches /\ turn' = [l \in Launches |-> turn'[l]]
      BY <3>1 DEF WorldTypes
    <3> QED
      BY <2>3, <3>2 DEF WorldTypes
  <2>5. WorldTypes' /\ \A l \in Launches : Prompted(l)' => Prompted(l)
    BY <2>1, <2>3, <2>4 DEF WorldTypes, Prompted
  <2> QED
    BY <1>1, <2>1, <2>2, <2>5, Kept, ObserverStep
<1>5. ASSUME NEW p \in Polls, PollRead(p) \/ PollInspect(p) PROVE RunsInv'
  <2>1. /\ pc[p] \notin Saving /\ StoreKept /\ HistoryKept /\ WorldKept /\ UNCHANGED task
        /\ seen' = seen \/ seen' = [seen EXCEPT ![p] = task.run]
        /\ \E g \in {"done", "inspecting", "inspected"} : Goto(p, g)
    BY <1>5, <1>s DEF PollRead, PollInspect
  <2>2. Idles(p)
    BY <1>s, <2>1 DEF Idles
  <2> QED
    BY <1>2, <2>1, <2>2
<1>6. ASSUME NEW p \in Polls, PollComplete(p) PROVE RunsInv'
  <2>1. /\ pc[p] \notin Saving /\ StoreKept /\ HistoryKept /\ WorldKept /\ seen' = seen
        /\ EndRun(p, seen[p], "completed")
    BY <1>6, <1>s DEF PollComplete
  <2>2. (Idles(p) \/ Writes(p)) /\ task'.run = task.run
    BY <1>1, <2>1, Ends DEF Terminal
  <2> QED
    BY <1>2, <2>1, <2>2
<1>7. ASSUME NEW c \in Cleanups, CleanupRead(c) \/ CleanupClear(c) PROVE RunsInv'
  <2>1. /\ pc[c] \notin Saving /\ StoreKept /\ HistoryKept /\ WorldKept /\ seen' = seen
        /\ \/ UNCHANGED task /\ \E g \in {"done", "removing"} : Goto(c, g)
           \/ Change([task EXCEPT !.worktree = FALSE]) /\ Goto(c, "ending")
    BY <1>7, <1>s DEF CleanupRead, CleanupClear
  <2>2. CASE UNCHANGED task /\ \E g \in {"done", "removing"} : Goto(c, g)
    BY <1>2, <1>s, <2>1, <2>2 DEF Idles
  <2>3. CASE Change([task EXCEPT !.worktree = FALSE]) /\ Goto(c, "ending")
    <3>1. Grows([task EXCEPT !.worktree = FALSE]) /\ [task EXCEPT !.worktree = FALSE].run = task.run
      BY ClearsGrows
    <3>2. Writes(c) /\ task'.run = task.run
      BY <2>3, <3>1 DEF Writes, Grows, Saving, Change, Task
    <3> QED
      BY <1>2, <2>1, <3>2
  <2> QED
    BY <2>1, <2>2, <2>3
<1>8. ASSUME NEW c \in Cleanups, CleanupRemove(c) PROVE RunsInv'
  <2>1. /\ pc[c] \notin Saving /\ StoreKept /\ HistoryKept /\ UNCHANGED <<task, seen, turn, aged>>
        /\ \E g \in {"done", "removed"} : Goto(c, g)
        /\ tree' \in {tree, FALSE}
    BY <1>8, <1>s DEF CleanupRemove
  <2>2. Idles(c)
    BY <1>s, <2>1 DEF Idles
  <2>3. WorldTypes' /\ \A l \in Launches : Prompted(l)' => Prompted(l)
    BY <2>1 DEF WorldTypes, Prompted
  <2> QED
    BY <1>1, <2>1, <2>2, <2>3, Kept, ObserverStep
<1>9. CASE BootRead
  <2>1. /\ pc[Boot] \notin Saving /\ StoreKept /\ HistoryKept /\ WorldKept /\ UNCHANGED task
        /\ seen' = [seen EXCEPT ![Boot] = task.run]
        /\ \E g \in {"done", "inspecting"} : Goto(Boot, g)
    BY <1>9, <1>s DEF BootRead
  <2>2. Idles(Boot)
    BY <1>s, <2>1 DEF Idles
  <2> QED
    BY <1>2, <2>1, <2>2
<1>10. CASE BootInspect
  <2>1. /\ pc[Boot] \notin Saving /\ StoreKept /\ HistoryKept /\ WorldKept /\ seen' = seen
        /\ \/ \E status \in Terminal : EndRun(Boot, seen[Boot], status)
           \/ UNCHANGED task /\ Goto(Boot, "done")
    BY <1>10, <1>s DEF BootInspect, Terminal
  <2>2. (Idles(Boot) \/ Writes(Boot)) /\ task'.run = task.run
    BY <1>1, <1>s, <2>1, Ends DEF Idles
  <2> QED
    BY <1>2, <2>1, <2>2
<1> QED
  BY <1>3, <1>4, <1>5, <1>6, <1>7, <1>8, <1>9, <1>10

(* The agent works, and time passes. *)
LEMMA WorldActions ==
    ASSUME RunsInv, Age \/ \E l \in Launches : TurnBegins(l) \/ TurnEnds(l)
    PROVE  RunsInv'
<1> USE DEF RunsInv, Types
<1>1. UNCHANGED <<task, pc, seen, text, disk, overtaken, tree, abandoned, superseded, bounds>>
  BY DEF Age, TurnBegins, TurnEnds, StoreKept, HistoryKept
<1>2. WorldTypes' /\ \A l \in Launches : Prompted(l)' => Prompted(l)
  <2>1. CASE Age
    BY <2>1 DEF Age, WorldTypes, StoreTypes, Task, Prompted, FileInv, VersionsInv, Versions, Sound
  <2>2. ASSUME NEW l \in Launches, TurnBegins(l) \/ TurnEnds(l)
        PROVE  WorldTypes' /\ \A m \in Launches : Prompted(m)' => Prompted(m)
    BY <2>2 DEF TurnBegins, TurnEnds, WorldTypes, Prompted
  <2> QED
    BY <2>1, <2>2
<1>3. StoreTypes' /\ FlowTypes' /\ BoundTypes' /\ VersionsInv' /\ FileInv'
  BY <1>1 DEF StoreTypes, FlowTypes, BoundTypes, VersionsInv, Versions, Written, Sound, InOrder, Extends,
              FileInv, bounds
<1>4. LaunchInv'
  BY <1>1, <1>2 DEF LaunchInv, Follows
<1> QED
  BY <1>2, <1>3, <1>4

-----------------------------------------------------------------------------
(* The writes. *)

LEMMA SaveSerialises ==
    ASSUME RunsInv, NEW a \in Actors, Serialise(a) PROVE RunsInv'
<1> USE Sets DEF RunsInv, Types
<1>1. /\ pc[a] \in Saving /\ text[a] = NoText /\ text' = [text EXCEPT ![a] = task]
      /\ UNCHANGED <<task, disk, overtaken, pc, seen>> /\ WorldKept /\ HistoryKept
  BY DEF Serialise
<1>2. text'[a] = task /\ \A b \in Actors : b # a => text'[b] = text[b]
  BY <1>1 DEF StoreTypes
<1>3. StoreTypes' /\ FlowTypes' /\ WorldTypes' /\ BoundTypes'
  BY <1>1, <1>2, Kept DEF StoreTypes, FlowTypes
<1>4. Versions' \subseteq Versions
  BY <1>1, <1>2 DEF Versions, Written
<1>5. VersionsInv'
  BY <1>1, <1>4, FewerVersions
<1>6. FileInv'
  BY <1>1, <1>2, Kept DEF FileInv
<1>7. LaunchInv'
  <2>1. ASSUME NEW l \in Launches PROVE Follows(l)'
    <3>1. Follows(l) /\ text'[l] \in {text[l], task} /\ pc'[l] = pc[l]
      BY <1>1, <1>2 DEF LaunchInv
    <3> QED
      BY <1>1, <3>1, Kept DEF Follows
  <2> QED
    BY <2>1 DEF LaunchInv
<1> QED
  BY <1>3, <1>5, <1>6, <1>7

LEMMA SaveSucceeds ==
    ASSUME RunsInv, NEW a \in Actors, Saved(a) PROVE RunsInv'
<1> USE Sets DEF RunsInv, Types
<1>1. /\ text[a] # NoText /\ pc[a] \in Saving /\ disk' = text[a]
      /\ overtaken' = (overtaken \/ text[a].edits < disk.edits)
      /\ text' = [text EXCEPT ![a] = NoText] /\ pc' = [pc EXCEPT ![a] = AfterSave[pc[a]]]
      /\ UNCHANGED <<task, seen>> /\ WorldKept /\ HistoryKept
  BY DEF Saved, Goto, FlowTypes
<1>2. /\ text'[a] = NoText /\ pc'[a] = AfterSave[pc[a]]
      /\ \A b \in Actors : b # a => text'[b] = text[b] /\ pc'[b] = pc[b]
  BY <1>1 DEF StoreTypes, FlowTypes
<1>3. pc' \in [Actors -> Stages] /\ text[a] \in Task /\ text' \in [Actors -> Task \cup {NoText}]
  BY <1>1 DEF StoreTypes, FlowTypes, AfterSave, Saving, Stages
<1>4. StoreTypes' /\ FlowTypes' /\ WorldTypes' /\ BoundTypes'
  <2>1. pc'[a] # "accepting"
    BY <1>1, <1>2 DEF AfterSave, Saving
  <2>2. StoreTypes'
    <3>1. overtaken' \in BOOLEAN
      BY <1>1
    <3> QED
      BY <1>1, <1>3, <3>1 DEF StoreTypes
  <2> QED
    BY <1>1, <1>2, <1>3, <2>1, <2>2, Kept DEF FlowTypes
<1>o. ~overtaken' => ~overtaken /\ ~(text[a].edits < disk.edits)
  BY <1>1, Zenon
<1>5. text[a] \in Versions /\ Versions' \subseteq Versions
  BY <1>1, <1>2 DEF Versions, Written
<1>6. VersionsInv'
  BY <1>1, <1>5, FewerVersions
<1>7. ~overtaken' => ~overtaken /\ Extends(disk, disk')
  <2>1. disk \in Versions /\ disk.edits \in Nat /\ text[a].edits \in Nat
    BY <1>5, AreTasks DEF Versions
  <2> QED
    BY <1>1, <1>5, <1>o, <2>1 DEF VersionsInv, InOrder
<1>8. FileInv'
  <2> SUFFICES ASSUME ~overtaken', writeFailures' = 0, disk' # task'
               PROVE  \E b \in Actors : pc'[b] \in Saving /\ text'[b] \in {NoText, task'}
    BY DEF FileInv
  <2>1. text[a] # task
    BY <1>1
  <2>2. disk # task
    <3>1. /\ text[a].edits <= task.edits /\ text[a].edits # task.edits
          /\ text[a].edits \in Nat /\ task.edits \in Nat
      BY <1>5, <2>1, AreTasks DEF VersionsInv, InOrder, Versions
    <3> QED
      BY <1>o, <3>1
  <2>3. PICK b \in Actors : pc[b] \in Saving /\ text[b] \in {NoText, task}
    BY <1>1, <2>2, Kept DEF FileInv
  <2> QED
    BY <1>1, <1>2, <2>1, <2>3
<1>9. LaunchInv'
  <2>1. ASSUME NEW l \in Launches PROVE Follows(l)'
    <3>1. Follows(l) /\ Prompted(l)' = Prompted(l) /\ UNCHANGED superseded
      BY <1>1, Kept DEF LaunchInv
    <3>2. CASE l # a \/ pc[a] = "ending"
      <4>1. pc'[l] = pc[l] \/ pc'[l] \notin Onward \cup {"accepting"}
        BY <1>1, <1>2, <3>2 DEF AfterSave, Saving, Onward
      <4>2. text'[l] \in {text[l], NoText} /\ Extends(task, task')
        BY <1>1, <1>2 DEF Extends
      <4> QED
        BY <1>1, <1>7, <3>1, <4>1, <4>2, FollowsKeeps
    <3>3. CASE l = a /\ pc[a] = "accepting"
      BY <1>1, <1>2, <1>7, <3>1, <3>3 DEF Follows, AfterSave, Onward, Extends
    <3>4. CASE l = a /\ pc[a] = "linking"
      BY <1>1, <1>2, <1>7, <3>1, <3>4 DEF Follows, AfterSave, Onward, Extends
    <3>5. CASE l = a /\ pc[a] = "starting"
      BY <1>1, <1>2, <1>7, <3>1, <3>5 DEF Follows, AfterSave, Onward, Extends
    <3> QED
      BY <1>1, <3>2, <3>3, <3>4, <3>5 DEF Saving
  <2> QED
    BY <2>1 DEF LaunchInv
<1> QED
  BY <1>4, <1>6, <1>8, <1>9

(* A write that fails leaves the change in memory, or fails the Run too. *)
LEMMA SaveGivesUp ==
    ASSUME RunsInv, NEW a \in Actors, SaveFails(a) PROVE RunsInv'
<1> USE Sets DEF RunsInv, Types
<1>1. /\ pc[a] \in Saving /\ writeFailures < scene.writeFailures /\ writeFailures' = writeFailures + 1
      /\ text' = [text EXCEPT ![a] = NoText]
      /\ UNCHANGED <<disk, overtaken, seen, superseded, crashes, scene>> /\ WorldKept
      /\ \/ UNCHANGED task /\ Goto(a, "done")
         \/ EndRun(a, a, "failed")
      /\ abandoned' = abandoned \/ (pc[a] = "accepting" /\ abandoned' = abandoned \cup {a})
  BY DEF SaveFails
<1>2. text'[a] = NoText /\ \A b \in Actors : b # a => text'[b] = text[b]
  BY <1>1 DEF StoreTypes
<1>3. /\ UNCHANGED task \/ \E v \in Task : Grows(v) /\ Change(v)
      /\ task'.run = task.run
      /\ pc' = [pc EXCEPT ![a] = pc'[a]] /\ pc'[a] \in {"ending", "done"}
  <2>1. CASE UNCHANGED task /\ Goto(a, "done")
    BY <2>1 DEF Goto, FlowTypes
  <2>2. CASE EndRun(a, a, "failed")
    BY <2>2, Ends DEF Terminal, Idles, Writes, FlowTypes
  <2> QED
    BY <1>1, <2>1, <2>2
<1>4. Written' \subseteq Written
  BY <1>2 DEF Written
<1>5. VersionsInv' /\ task' \in Task /\ Extends(task, task')
  <2>1. CASE UNCHANGED task
    <3>1. Versions' \subseteq Versions
      BY <1>1, <1>4, <2>1 DEF Versions
    <3> QED
      BY <2>1, <3>1, FewerVersions DEF StoreTypes, Extends
  <2>2. CASE \E v \in Task : Grows(v) /\ Change(v)
    BY <1>1, <1>4, <2>2, YoungerVersion DEF Grows
  <2> QED
    BY <1>3, <2>1, <2>2
<1>6. StoreTypes'
  BY <1>1, <1>5 DEF StoreTypes
<1>7. FlowTypes'
  BY <1>1, <1>2, <1>3 DEF FlowTypes, Stages, Saving
<1>8. BoundTypes' /\ writeFailures' # 0
  <2>1. scene.writeFailures \in Nat
    BY TaskRunsAssumption DEF BoundTypes
  <2>2. abandoned' \subseteq Launches
    BY <1>1 DEF BoundTypes, FlowTypes
  <2> QED
    BY <1>1, <2>1, <2>2 DEF BoundTypes
<1>9. FileInv'
  BY <1>8 DEF FileInv
<1>10. LaunchInv'
  <2>1. ASSUME NEW l \in Launches PROVE Follows(l)'
    <3>1. pc'[l] = pc[l] \/ pc'[l] \notin Onward \cup {"accepting"}
      BY <1>3 DEF Onward, FlowTypes
    <3>2. text'[l] \in {text[l], NoText}
      BY <1>2
    <3> QED
      BY <1>1, <1>3, <1>5, <3>1, <3>2, Kept, FollowsKeeps, SameDisk DEF LaunchInv
  <2> QED
    BY <2>1 DEF LaunchInv
<1> QED
  BY <1>1, <1>5, <1>6, <1>7, <1>8, <1>9, <1>10, Kept

(* The next daemon knows what the file holds. *)
LEMMA CrashAction ==
    ASSUME RunsInv, Crash PROVE RunsInv'
<1> USE Sets DEF RunsInv, Types
<1>1. /\ crashes < scene.crashes /\ crashes' = crashes + 1 /\ task' = disk
      /\ text' = [a \in Actors |-> NoText]
      /\ pc' = [a \in Actors |-> IF a = Boot \/ pc[a] = "idle" THEN "idle" ELSE "done"]
      /\ seen' = [a \in Observers |-> NoRun]
      /\ abandoned' \subseteq Launches
      /\ UNCHANGED <<disk, overtaken, aged, tree, superseded, writeFailures, scene>>
  BY DEF Crash
<1>2. PICK lost \in SUBSET {l \in Launches : turn[l] \in {"sent", "working"}} :
          turn' = [l \in Launches |-> IF l \in lost THEN "over" ELSE turn[l]]
  BY DEF Crash
<1>3. WorldTypes' /\ \A l \in Launches : Prompted(l)' => Prompted(l)
  BY <1>1, <1>2 DEF WorldTypes, Prompted
<1>4. StoreTypes' /\ FlowTypes'
  BY <1>1 DEF StoreTypes, FlowTypes, Stages
<1>5. BoundTypes'
  <2>1. scene.crashes \in Nat
    BY TaskRunsAssumption DEF BoundTypes
  <2> QED
    BY <1>1, <2>1 DEF BoundTypes
<1>6. Written' = {}
  BY <1>1 DEF Written
<1>7. VersionsInv' /\ FileInv'
  BY <1>1, <1>6, FewerVersions DEF Versions, FileInv
<1>8. LaunchInv'
  <2>1. ASSUME NEW l \in Launches PROVE Follows(l)'
    <3>1. pc'[l] \in {"idle", "done"}
      BY <1>1
    <3> QED
      BY <1>1, <1>3, <3>1, FollowsKeeps, SameDisk DEF LaunchInv, Onward
  <2> QED
    BY <2>1 DEF LaunchInv
<1> QED
  BY <1>3, <1>4, <1>5, <1>7, <1>8

-----------------------------------------------------------------------------
(* The results. *)

LEMMA RunsStep ==
    ASSUME RunsInv, [Next]_vars PROVE RunsInv'
<1>1. CASE UNCHANGED vars
  <2>1. UNCHANGED <<task, pc, seen, turn, aged, text, disk, overtaken, tree, abandoned, superseded, bounds>>
    BY <1>1 DEF vars, storeVars
  <2> QED
    BY <2>1
    DEF RunsInv, Types, StoreTypes, FlowTypes, WorldTypes, BoundTypes, VersionsInv, Versions, Written,
        Sound, InOrder, Extends, FileInv, LaunchInv, Follows, Prompted, bounds
<1> QED
  BY <1>1, LaunchActions, ObserverActions, WorldActions, SaveSerialises, SaveSucceeds, SaveGivesUp,
     CrashAction DEF Next, Save

LEMMA RunsInit ==
    ASSUME Init PROVE RunsInv
<1> USE Sets DEF Init
<1>1. task \in Task /\ disk = task
  BY DEF Task, Startable
<1>2. StoreTypes /\ WorldTypes
  BY <1>1 DEF StoreTypes, WorldTypes
<1>3. FlowTypes
  BY DEF FlowTypes, Stages
<1>4. BoundTypes
  <2>1. scene.crashes \in Nat /\ scene.writeFailures \in Nat
    BY TaskRunsAssumption
  <2> QED
    BY <2>1 DEF BoundTypes
<1>5. \A v \in Versions : v = task
  BY DEF Versions, Written
<1>6. Sound(task) /\ task.edits <= task.edits /\ InOrder(task, task)
  BY DEF Sound, InOrder, Extends, Active
<1>7. VersionsInv
  BY <1>5, <1>6 DEF VersionsInv
<1>8. FileInv
  BY <1>1 DEF FileInv
<1>9. LaunchInv
  BY DEF LaunchInv, Follows, Onward, Prompted
<1> QED
  BY <1>2, <1>3, <1>4, <1>7, <1>8, <1>9 DEF RunsInv, Types

(* What a reachable state of the Runs of a Task is like, whoever calls,    *)
(* however often the daemon dies or a write fails.                         *)
THEOREM RunsInvariant == Spec => []RunsInv
<1> QED
  BY RunsInit, RunsStep, PTL DEF Spec

(* The Task, its file and the actors keep their types. *)
THEOREM RunsTypeCorrect == Spec => []TypeOK
<1>1. RunsInv => TypeOK
  BY DEF RunsInv, Types, StoreTypes, FlowTypes, WorldTypes, BoundTypes, TypeOK
<1> QED
  BY <1>1, RunsInvariant, PTL

(* "launch persists run identity before starting the prompt": a Run that   *)
(* was prompted is in the file, with its Session unless another one had    *)
(* taken over, and no request has two Runs that were prompted, as long as  *)
(* no write was overtaken by an older one.                                 *)
THEOREM OnePromptPerRequestHolds == Spec => []OnePromptPerRequest
<1>1. RunsInv => OnePromptPerRequest
  BY DEF RunsInv, LaunchInv, Follows, VersionsInv, Versions, Sound, OnePromptPerRequest
<1> QED
  BY <1>1, RunsInvariant, PTL

(* When nobody is writing, the file holds what the memory does, unless a   *)
(* write failed or was overtaken.                                          *)
THEOREM FileCatchesUpHolds == Spec => []FileCatchesUp
<1>1. RunsInv => FileCatchesUp
  BY DEF RunsInv, FileInv, FileCatchesUp
<1> QED
  BY <1>1, RunsInvariant, PTL

(* A call goes on by a step of its own. *)
LEMMA OwnSteps ==
    ASSUME RunsInv, NEW a \in Actors, pc'[a] # pc[a], crashes' = crashes, [Next]_vars
    PROVE  \/ a \in Launches /\ (Continue(a) \/ Launch(a))
           \/ Saved(a) \/ SaveFails(a)
           \/ a \in Polls /\ (PollRead(a) \/ PollInspect(a) \/ PollComplete(a))
           \/ a \notin Launches \cup Polls
<1> USE Sets
<1>1. pc \in [Actors -> Stages]
  BY DEF RunsInv, Types, FlowTypes
<1>3. ~ UNCHANGED pc
  OBVIOUS
<1>4. \A b \in Actors : Saved(b) \/ SaveFails(b) => a = b
  <2>1. ASSUME NEW b \in Actors, Saved(b) \/ SaveFails(b) PROVE a = b
    <3>1. \E s : Goto(b, s)
      BY <2>1 DEF Saved, SaveFails, EndRun
    <3> QED
      BY <1>1, <3>1 DEF Goto
  <2> QED
    BY <2>1
<1>5. \A l \in Launches : Continue(l) \/ Launch(l) => a = l
  <2>1. ASSUME NEW l \in Launches, Continue(l) \/ Launch(l) PROVE a = l
    <3>1. \E s : Goto(l, s)
      BY <2>1 DEF Continue, Launch, Check, Accept, LaunchFails, Link, MarkRunning, StartPrompt, Callback,
                  EndRun
    <3> QED
      BY <1>1, <3>1 DEF Goto
  <2> QED
    BY <2>1
<1>6. \A p \in Polls : PollRead(p) \/ PollInspect(p) \/ PollComplete(p) => a = p
  <2>1. ASSUME NEW p \in Polls, PollRead(p) \/ PollInspect(p) \/ PollComplete(p) PROVE a = p
    <3>1. \E s : Goto(p, s)
      BY <2>1 DEF PollRead, PollInspect, PollComplete, EndRun
    <3> QED
      BY <1>1, <3>1 DEF Goto
  <2> QED
    BY <2>1
<1>7. \A b \in Stops \cup Cleanups \cup {Boot} :
          \/ StopRead(b) \/ StopAbort(b) \/ StopMark(b)
          \/ CleanupRead(b) \/ CleanupRemove(b) \/ CleanupClear(b)
          \/ b = Boot /\ (BootRead \/ BootInspect)
          => a = b
  <2>1. ASSUME NEW b \in Stops \cup Cleanups \cup {Boot},
               \/ StopRead(b) \/ StopAbort(b) \/ StopMark(b)
               \/ CleanupRead(b) \/ CleanupRemove(b) \/ CleanupClear(b)
               \/ b = Boot /\ (BootRead \/ BootInspect)
        PROVE  a = b
    <3>1. \E s : Goto(b, s)
      BY <2>1 DEF StopRead, StopAbort, StopMark, Cancels, CleanupRead, CleanupRemove, CleanupClear,
                  BootRead, BootInspect, EndRun
    <3> QED
      BY <1>1, <3>1, Sets DEF Goto
  <2> QED
    BY <2>1
<1>8. \A b \in Stops \cup Cleanups \cup {Boot} : b \notin Launches \cup Polls
  BY TaskRunsAssumption DEF Observers
<1>9. /\ ~Crash /\ ~Age /\ ~UNCHANGED vars
      /\ \A b \in Actors : ~Serialise(b)
      /\ \A l \in Launches : ~TurnBegins(l) /\ ~TurnEnds(l)
  <2>1. ~Crash
    <3>1. crashes \in Nat
      BY TaskRunsAssumption DEF RunsInv, Types, BoundTypes
    <3> QED
      BY <3>1 DEF Crash
  <2> QED
    BY <1>3, <2>1 DEF Age, vars, Serialise, TurnBegins, TurnEnds
<1> QED
  BY <1>4, <1>5, <1>6, <1>7, <1>8, <1>9 DEF Next, Save

(* A launch whose Run was superseded, in whatever it still does, and a     *)
(* poll that looked at a superseded Run, leave the Run that took over      *)
(* alone.                                                                  *)
THEOREM SupersededRunsAreInertHolds == Spec => SupersededRunsAreInert
<1> DEFINE Inert == crashes' = crashes =>
              /\ \A l \in Launches :
                    /\ pc[l] \notin {"idle", "continued", "checked"} /\ pc'[l] # pc[l]
                    /\ task.run # l
                    => UNCHANGED task
              /\ \A p \in Polls :
                    pc[p] = "inspected" /\ pc'[p] # pc[p] /\ task.run # seen[p] => UNCHANGED task
<1>1. RunsInv /\ [Next]_vars => Inert
  <2> SUFFICES ASSUME RunsInv, [Next]_vars, crashes' = crashes PROVE Inert
    OBVIOUS
  <2>1. ASSUME NEW a \in Actors, NEW l, NEW status \in Terminal, EndRun(a, l, status), task.run # l
        PROVE  UNCHANGED task
    BY <2>1 DEF EndRun
  <2>2. ASSUME NEW l \in Launches, pc[l] \notin {"idle", "continued", "checked"}, pc'[l] # pc[l], task.run # l
        PROVE  UNCHANGED task
    <3>1. l \in Actors /\ l \notin Polls
      BY Sets, TaskRunsAssumption
    <3>2. Continue(l) \/ Launch(l) \/ Saved(l) \/ SaveFails(l)
      BY <2>2, <3>1, OwnSteps
    <3>3. CASE Saved(l) \/ SaveFails(l)
      BY <2>1, <2>2, <3>1, <3>3 DEF Saved, SaveFails, Terminal
    <3>4. CASE Continue(l) \/ Launch(l)
      <4>1. ~Continue(l) /\ ~Check(l) /\ ~Accept(l)
        BY <2>2 DEF Continue, Check, Accept
      <4>2. CASE Link(l) \/ MarkRunning(l) \/ StartPrompt(l)
        BY <2>2, <4>2 DEF Link, MarkRunning, StartPrompt
      <4>3. CASE LaunchFails(l) \/ Callback(l)
        BY <2>1, <2>2, <3>1, <4>3 DEF LaunchFails, Callback, Terminal
      <4> QED
        BY <3>4, <4>1, <4>2, <4>3 DEF Launch
    <3> QED
      BY <3>2, <3>3, <3>4
  <2>3. ASSUME NEW p \in Polls, pc[p] = "inspected", pc'[p] # pc[p], task.run # seen[p]
        PROVE  UNCHANGED task
    <3>1. p \in Actors /\ p \notin Launches
      BY Sets, TaskRunsAssumption
    <3>2. ~Saved(p) /\ ~SaveFails(p) /\ ~PollRead(p) /\ ~PollInspect(p)
      BY <2>3, <3>1 DEF Saved, SaveFails, PollRead, PollInspect, Saving, RunsInv, Types, FlowTypes
    <3>3. PollComplete(p)
      BY <2>3, <3>1, <3>2, OwnSteps
    <3> QED
      BY <2>1, <2>3, <3>1, <3>3 DEF PollComplete, Terminal
  <2> QED
    BY <2>2, <2>3
<1> QED
  BY <1>1, RunsInvariant, PTL DEF Spec, SupersededRunsAreInert

=============================================================================
