----------------------------- MODULE SessionTurns -----------------------------
(***************************************************************************)
(* The turns of one ACP session (bridge/src/acp-service.js): prompt, the   *)
(* queue of prompts sent while a turn runs, abort, the turn generations    *)
(* that make a late completion harmless, the slash commands that           *)
(* invokeAction and renameSession send on the side, and the eviction of    *)
(* the session by TranscriptCache, which forgets its turn state; and what  *)
(* replaces the transcript under all this: reads of PI's journal, and      *)
(* forced loads with their replay, of which SessionLoads has the detail.   *)
(*                                                                         *)
(* Sessions do not share any of this state, so one is modelled.  A prompt  *)
(* is one call of prompt(); JavaScript runs it in steps that end at an     *)
(* await, and every such step is an action.                                *)
(***************************************************************************)
EXTENDS Naturals, Sequences, FiniteSets, SequencesExt

CONSTANTS
    Prompts,      \* the prompts sent to the session, of different texts
    HasModel,     \* those that name a model, applied before their turn
    MaxAborts,    \* bound: aborts
    MaxAsides     \* bound: what happens beside the prompts, of all kinds

ASSUME TurnsAssumption ==
    /\ IsFiniteSet(Prompts)
    /\ HasModel \subseteq Prompts
    /\ MaxAborts \in Nat
    /\ MaxAsides \in Nat

VARIABLES
    call,        \* where each prompt is
    queue,       \* #queues: prompts waiting for the running turn
    active,      \* #active: a turn or a command is believed to run
    generation,  \* #turnGenerations, 0 when the map has no entry
    turn,        \* the generation each turn captured when it started
    visible,     \* the prompts recorded in the transcript
    command,     \* the action or rename the agent is working on
    reload,      \* the forced load under way, and the transcript it kept
    cancelled,   \* history: the prompts whose turn an abort cancelled
    overlooked,  \* history: the prompts that a read or a load did not look at
    aborts,
    commands,    \* actions and native renames,
    evictions,   \* evictions of the session from the transcript cache,
    reads        \* reads of the journal and forced loads so far

turnVars == <<call, queue, active, generation, turn, visible>>
bounds == <<aborts, commands, evictions, reads>>
history == <<cancelled, overlooked>>
vars == <<turnVars, command, reload, history, bounds>>

-----------------------------------------------------------------------------
Calls == {"unsent", "loading", "settingModel", "queued", "dequeued", "sent",
          "failed", "ended", "refused", "dropped"}

Over == {"ended", "refused", "dropped"}

(* A request session/prompt is with the agent, or its outcome is being handled. *)
InFlight == {p \in Prompts : call[p] \in {"sent", "failed"}}

Live == InFlight \ cancelled

Command == [kind: {"none", "action", "rename"}, wasActive: BOOLEAN, before: SUBSET Prompts]

NoCommand == [kind |-> "none", wasActive |-> FALSE, before |-> {}]

Reload == [phase: {"none", "reading", "replaying"}, before: SUBSET Prompts]

NoReload == [phase |-> "none", before |-> {}]

(* The type invariant, with the queue holding every queued prompt once. *)
TypeOK ==
    /\ call \in [Prompts -> Calls]
    /\ queue \in Seq(Prompts)
    /\ IsInjective(queue)
    /\ ToSet(queue) = {p \in Prompts : call[p] = "queued"}
    /\ active \in BOOLEAN
    /\ generation \in Nat
    /\ turn \in [Prompts -> Nat]
    /\ visible \subseteq Prompts
    /\ command \in Command
    /\ reload \in Reload
    /\ cancelled \subseteq Prompts
    /\ overlooked \subseteq Prompts
    /\ aborts \in 0..MaxAborts
    /\ commands \in 0..MaxAsides
    /\ evictions \in 0..MaxAsides
    /\ reads \in 0..MaxAsides

Init ==
    /\ call = [p \in Prompts |-> "unsent"]
    /\ queue = <<>>
    /\ active = FALSE
    /\ generation = 0
    /\ turn = [p \in Prompts |-> 0]
    /\ visible = {}
    /\ command = NoCommand
    /\ reload = NoReload
    /\ cancelled = {}
    /\ overlooked = {}
    /\ aborts = 0
    /\ commands = 0
    /\ evictions = 0
    /\ reads = 0

CanTurnAside == commands + evictions + reads < MaxAsides

IsBusy == active \/ queue # <<>>

-----------------------------------------------------------------------------
(* #startTurn, in a step that has brought the calls to "calls". *)
StartTurn(calls, p) ==
    /\ call' = [calls EXCEPT ![p] = "sent"]
    /\ generation' = generation + 1
    /\ turn' = [turn EXCEPT ![p] = generation + 1]
    /\ active' = TRUE

(* What keeps the cache from evicting the session: it is busy, or is being *)
(* loaded, for one of these prompts or another caller.                     *)
Protected(prompts) ==
    IsBusy \/ reload # NoReload \/ \E p \in prompts : call[p] = "loading"

(* #startTurn of a prompt not recorded yet.  Recording it touches the      *)
(* cache before the session is active: a transcript above the budget is    *)
(* evicted there and then, with the generation just taken.                 *)
StartFresh(p) ==
    \/ /\ StartTurn(call, p)
       /\ visible' = visible \cup {p}
       /\ UNCHANGED <<queue, evictions>>
    \/ /\ ~Protected(Prompts \ {p}) /\ CanTurnAside
       /\ evictions' = evictions + 1
       /\ call' = [call EXCEPT ![p] = "sent"]
       /\ turn' = [turn EXCEPT ![p] = generation + 1]
       /\ generation' = 0
       /\ active' = TRUE
       /\ visible' = {}
       /\ UNCHANGED queue

(* Slip: the next prompt is looked at but not taken up. *)
RunNextNever(calls, activeNow) ==
    /\ call' = calls
    /\ active' = activeNow
    /\ UNCHANGED <<queue, generation, turn>>

(* #runNextQueued up to its first await: the oldest queued prompt starts   *)
(* its turn, or leaves the queue and waits for its model.                  *)
RunNextQueued(calls, activeNow) ==
    \/ /\ queue = <<>>
       /\ call' = calls
       /\ active' = activeNow
       /\ UNCHANGED <<queue, generation, turn>>
    \/ /\ queue # <<>> /\ Head(queue) \notin HasModel
       /\ queue' = Tail(queue)
       /\ StartTurn(calls, Head(queue))
    \/ /\ queue # <<>> /\ Head(queue) \in HasModel
       /\ queue' = Tail(queue)
       /\ call' = [calls EXCEPT ![Head(queue)] = "dequeued"]
       /\ active' = activeNow
       /\ UNCHANGED <<generation, turn>>

-----------------------------------------------------------------------------
(* prompt() is called: it waits for the session's transcript. *)
Send(p) ==
    /\ call[p] = "unsent"
    /\ call' = [call EXCEPT ![p] = "loading"]
    /\ UNCHANGED <<queue, active, generation, turn, visible, command, reload, history, bounds>>

(* The load fails, or the model does before anything was recorded: an error. *)
Refuse(p) ==
    /\ call[p] \in {"loading", "settingModel"}
    /\ call' = [call EXCEPT ![p] = "refused"]
    /\ UNCHANGED <<queue, active, generation, turn, visible, command, reload, history, bounds>>

(* The transcript is there and a turn runs: recorded, queued, answered. *)
Enqueue(p) ==
    /\ call[p] = "loading" /\ active
    /\ queue' = Append(queue, p)
    /\ call' = [call EXCEPT ![p] = "queued"]
    /\ visible' = visible \cup {p}
    /\ UNCHANGED <<active, generation, turn, command, reload, history, bounds>>

(* No turn runs and a model is named: applied before the turn. *)
SetModel(p) ==
    /\ call[p] = "loading" /\ ~active /\ p \in HasModel
    /\ call' = [call EXCEPT ![p] = "settingModel"]
    /\ UNCHANGED <<queue, active, generation, turn, visible, command, reload, history, bounds>>

(* Slip: a turn starts whether or not one runs. *)
StartUnchecked(p) ==
    /\ \/ call[p] = "loading" /\ p \notin HasModel
       \/ call[p] = "settingModel"
    /\ StartFresh(p)
    /\ UNCHANGED <<command, reload, history, aborts, commands, reads>>

(* The turn starts: at once, or when the model is set, and then without a  *)
(* second look at #active.                                                 *)
Start(p) ==
    /\ \/ call[p] = "loading" /\ ~active /\ p \notin HasModel
       \/ call[p] = "settingModel"
    /\ StartFresh(p)
    /\ UNCHANGED <<command, reload, history, aborts, commands, reads>>

(* The request is rejected: recorded in the transcript and emitted when    *)
(* the turn is still the current one; #active is untouched.                *)
TurnFails(p) ==
    /\ call[p] = "sent"
    /\ call' = [call EXCEPT ![p] = "failed"]
    /\ UNCHANGED <<queue, active, generation, turn, visible, command, reload, history, bounds>>

(* Slip: every completion ends the session's turn. *)
TurnEndsUnchecked(p) ==
    /\ call[p] \in {"sent", "failed"}
    /\ RunNextQueued([call EXCEPT ![p] = "ended"], FALSE)
    /\ UNCHANGED <<visible, command, reload, history, bounds>>

(* The request is settled.  The current turn clears #active and runs the   *)
(* next prompt; a turn of another generation changes nothing.              *)
TurnEnds(p) ==
    /\ call[p] \in {"sent", "failed"}
    /\ \/ /\ turn[p] = generation
          /\ RunNextQueued([call EXCEPT ![p] = "ended"], FALSE)
       \/ /\ turn[p] # generation
          /\ call' = [call EXCEPT ![p] = "ended"]
          /\ UNCHANGED <<queue, active, generation, turn>>
    /\ UNCHANGED <<visible, command, reload, history, bounds>>

(* The model of a dequeued prompt is set: its turn starts. *)
StartDequeued(p) ==
    /\ call[p] = "dequeued"
    /\ StartTurn(call, p)
    /\ UNCHANGED <<queue, visible, command, reload, history, bounds>>

(* Slip: the refusal of a model ends the queue's run. *)
DequeueRefusedLast(p) ==
    /\ call[p] = "dequeued"
    /\ call' = [call EXCEPT ![p] = "refused"]
    /\ UNCHANGED <<queue, active, generation, turn, visible, command, reload, history, bounds>>

(* The model is refused: a failure in the transcript, and the next prompt runs. *)
DequeueRefused(p) ==
    /\ call[p] = "dequeued"
    /\ RunNextQueued([call EXCEPT ![p] = "refused"], active)
    /\ UNCHANGED <<visible, command, reload, history, bounds>>

-----------------------------------------------------------------------------
(* Slip: the generation of the cancelled turn stays current. *)
AbortKeepsGeneration ==
    /\ aborts < MaxAborts
    /\ aborts' = aborts + 1
    /\ call' = [p \in Prompts |-> IF call[p] = "queued" THEN "dropped" ELSE call[p]]
    /\ queue' = <<>>
    /\ visible' = visible \ ToSet(queue)
    /\ active' = FALSE
    /\ cancelled' = cancelled \cup InFlight
    /\ UNCHANGED <<generation, turn, command, reload, overlooked, commands, evictions, reads>>

(* abort: queued prompts are dropped with their messages, the running turn *)
(* loses its generation, and the agent is told to cancel.                  *)
Abort ==
    /\ aborts < MaxAborts
    /\ aborts' = aborts + 1
    /\ call' = [p \in Prompts |-> IF call[p] = "queued" THEN "dropped" ELSE call[p]]
    /\ queue' = <<>>
    /\ visible' = visible \ ToSet(queue)
    /\ generation' = generation + 1
    /\ active' = FALSE
    /\ cancelled' = cancelled \cup InFlight
    /\ UNCHANGED <<turn, command, reload, overlooked, commands, evictions, reads>>

(* invokeAction: an enabled action is sent as a slash command. *)
ActionStarts ==
    /\ command = NoCommand /\ CanTurnAside
    /\ ~IsBusy
    /\ commands' = commands + 1
    /\ command' = [NoCommand EXCEPT !.kind = "action"]
    /\ active' = TRUE
    /\ UNCHANGED <<call, queue, generation, turn, visible, reload, history,
                   aborts, evictions, reads>>

(* It ends: #active is cleared whatever else runs by now, nobody looks at  *)
(* the queue, and after a success the transcript is what the agent replays. *)
ActionEnds ==
    /\ command.kind = "action"
    /\ command' = NoCommand
    /\ active' = FALSE
    /\ visible' \in {visible, visible \ {p \in Prompts : call[p] \in {"queued", "dequeued", "refused"}}}
    /\ UNCHANGED <<call, queue, generation, turn, reload, history, bounds>>

(* #sendNativeSessionName, with the session active meanwhile. *)
RenameStarts ==
    /\ command = NoCommand /\ CanTurnAside
    /\ commands' = commands + 1
    /\ command' = [kind |-> "rename", wasActive |-> active, before |-> visible]
    /\ active' = TRUE
    /\ UNCHANGED <<call, queue, generation, turn, visible, reload, history,
                   aborts, evictions, reads>>

(* The transcript goes back to what it was. *)
RenameEnds ==
    /\ command.kind = "rename"
    /\ command' = NoCommand
    /\ active' = (active /\ command.wasActive)
    /\ visible' = command.before
    /\ UNCHANGED <<call, queue, generation, turn, reload, history, bounds>>

(* Another session needs the room. *)
Evict ==
    /\ ~Protected(Prompts) /\ CanTurnAside
    /\ evictions' = evictions + 1
    /\ generation' = 0
    /\ visible' = {}
    /\ UNCHANGED <<call, queue, active, turn, command, reload, history,
                   aborts, commands, reads>>

-----------------------------------------------------------------------------
(* Reads and loads that replace the transcript *)

(* What the harness may have stored: some of what the agent was given. *)
Journals == SUBSET {p \in Prompts : call[p] \in {"sent", "failed", "ended"}}

(* Slip: the journal replaces the transcript of a busy session too. *)
ReadJournalOnly ==
    /\ CanTurnAside
    /\ reads' = reads + 1
    /\ \E stored \in Journals : visible' = stored
    /\ UNCHANGED <<call, queue, active, generation, turn, command, reload, history,
                   aborts, commands, evictions>>

(* messages() of PI.  A busy session shows the journal and what it showed; *)
(* an idle one the journal alone, with failures the journal has not yet:   *)
(* that overlooks a dequeued prompt, which waits for its model, and a turn *)
(* beside a newer one that has ended.                                      *)
ReadJournal ==
    /\ CanTurnAside
    /\ reads' = reads + 1
    /\ \E stored \in Journals :
         IF IsBusy
         THEN visible' = visible \cup stored /\ UNCHANGED overlooked
         ELSE /\ \E failed \in SUBSET {p \in visible : call[p] \in {"refused", "failed", "ended"}} :
                   visible' = stored \cup failed
              /\ overlooked' = overlooked \cup
                     {p \in Prompts : \/ call[p] = "dequeued"
                                      \/ p \in InFlight /\ turn[p] # generation}
    /\ UNCHANGED <<call, queue, active, generation, turn, command, reload, cancelled,
                   aborts, commands, evictions>>

(* A forced load, for the model list or the commands, notes the transcript *)
(* and reads the harness's journal, if there is one.                       *)
ReloadStarts ==
    /\ reload = NoReload /\ CanTurnAside
    /\ reads' = reads + 1
    /\ reload' = [phase |-> "reading", before |-> visible]
    /\ UNCHANGED <<turnVars, command, history, aborts, commands, evictions>>

(* What a load makes of the transcript it noted: the journal is merged     *)
(* into it, or taken instead of it (OMP, for a session the adapter has not *)
(* opened).  Prompts recorded since it was noted are overlooked.           *)
Kept == {reload.before \cup stored : stored \in Journals} \cup Journals

(* session/load is sent: the transcript is blank until the replay. *)
ReloadBlanks ==
    /\ reload.phase = "reading"
    /\ \E kept \in Kept :
         /\ reload' = [phase |-> "replaying", before |-> kept]
         /\ overlooked' = overlooked \cup (visible \ kept)
    /\ visible' = {}
    /\ UNCHANGED <<call, queue, active, generation, turn, command, cancelled, bounds>>

(* session/resume replays nothing; OMP's journal may have been taken. *)
ReloadResumes ==
    /\ reload.phase = "reading"
    /\ reload' = NoReload
    /\ visible' \in {visible} \cup Journals
    /\ overlooked' = overlooked \cup (visible \ visible')
    /\ UNCHANGED <<call, queue, active, generation, turn, command, cancelled, bounds>>

(* The replay is merged with what was kept, and with what was recorded     *)
(* while it arrived.                                                       *)
ReloadEnds ==
    /\ reload.phase = "replaying"
    /\ reload' = NoReload
    /\ \E replayed \in Journals : visible' = reload.before \cup visible \cup replayed
    /\ UNCHANGED <<call, queue, active, generation, turn, command, history, bounds>>

(* A load that fails puts back what it kept, over what was recorded since. *)
ReloadFails ==
    /\ reload # NoReload
    /\ reload' = NoReload
    /\ visible' = reload.before
    /\ overlooked' = overlooked \cup (visible \ reload.before)
    /\ UNCHANGED <<call, queue, active, generation, turn, command, cancelled, bounds>>

Reloading == ReloadStarts \/ ReloadBlanks \/ ReloadResumes \/ ReloadEnds \/ ReloadFails

-----------------------------------------------------------------------------
(* The steps of a prompt that follow from it having been sent. *)
Progress(p) ==
    \/ Refuse(p) \/ Enqueue(p) \/ SetModel(p) \/ Start(p)
    \/ TurnFails(p) \/ TurnEnds(p)
    \/ StartDequeued(p) \/ DequeueRefused(p)

CommandEnds == ActionEnds \/ RenameEnds

Next ==
    \/ \E p \in Prompts : Send(p) \/ Progress(p)
    \/ Abort
    \/ ActionStarts \/ RenameStarts \/ CommandEnds
    \/ Evict
    \/ ReadJournal \/ Reloading

Spec == Init /\ [][Next]_vars

(* Loads, model switches and prompts are requests that the adapter answers *)
(* or the ACP client's inactivity timer rejects.                           *)
FairSpec ==
    /\ Spec
    /\ \A p \in Prompts : WF_vars(Progress(p))
    /\ WF_vars(CommandEnds)

-----------------------------------------------------------------------------
(* No slash command ran on the side and the cache kept the session. *)
Undisturbed == commands = 0 /\ evictions = 0

(* "It is recorded straight away, which is what makes it visible in the    *)
(* conversation while it waits": between loads, a prompt that waits or     *)
(* that the agent works on is in the transcript, unless it was cancelled   *)
(* or overlooked: by a read of PI's journal as it was dequeued or ran      *)
(* beside a newer turn, or by a load that kept an older transcript.        *)
Waits(p) == call[p] \in {"queued", "dequeued", "sent", "failed"}

WaitingIsVisible ==
    Undisturbed /\ reload = NoReload =>
        \A p \in Prompts : Waits(p) => p \in visible \cup cancelled \cup overlooked

(* #active is exactly "the current turn is with the agent": it neither     *)
(* sticks after it, nor is cleared under it by an older one.               *)
ActiveIsTheCurrentTurn ==
    Undisturbed => (active <=> \E p \in InFlight : turn[p] = generation)

(* A queued prompt has somebody to run it: the turn it waits for, or the   *)
(* dequeued prompt before it.                                              *)
QueueHasARunner ==
    Undisturbed /\ queue # <<>> => active \/ \E p \in Prompts : call[p] = "dequeued"

(* On a session whose prompts name no model, one turn runs at a time: a    *)
(* second one is with the agent only beside turns that were cancelled.     *)
SerialOnOneModel ==
    Undisturbed /\ (\A p \in HasModel : call[p] = "unsent") => Cardinality(Live) <= 1

(* The late completion of a cancelled turn leaves the turn that runs now,  *)
(* and the queue behind it, alone.                                         *)
StaleTurnsAreInert ==
    [][ \A p \in InFlight \cap cancelled :
          evictions' = 0 /\ call'[p] = "ended" => UNCHANGED <<active, queue, generation>> ]_vars

(* Every prompt gets its turn, or is refused or dropped. *)
PromptsSettle ==
    []Undisturbed => \A p \in Prompts : call[p] # "unsent" ~> call[p] \in Over

-----------------------------------------------------------------------------
(* The inductive invariant behind the safety properties.                   *)

(* Only a prompt that names a model ever waits for one. *)
OnlyModelsWait ==
    \A p \in Prompts : call[p] \in {"settingModel", "dequeued"} => p \in HasModel

(* A generation is taken once, and the one in the map is the youngest. *)
GenerationsAreUnique ==
    evictions = 0 =>
        /\ \A p \in Prompts : turn[p] <= generation
        /\ \A p, q \in InFlight : turn[p] = turn[q] => p = q

(* Without models, a turn that is live is the current one. *)
LiveIsCurrent ==
    Undisturbed /\ (\A p \in HasModel : call[p] = "unsent") =>
        \A p \in Live : turn[p] = generation

(* The guard of every property: a command that runs was counted. *)
CommandIsCounted == command # NoCommand => commands > 0

TurnInv ==
    /\ OnlyModelsWait
    /\ CommandIsCounted
    /\ GenerationsAreUnique
    /\ LiveIsCurrent
    /\ ActiveIsTheCurrentTurn
    /\ QueueHasARunner

=============================================================================
