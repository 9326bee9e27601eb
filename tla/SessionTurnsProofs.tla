-------------------------- MODULE SessionTurnsProofs --------------------------
(***************************************************************************)
(* Proofs about an ACP session.  First SessionTurns: its types, that the   *)
(* busy flag is exactly the current turn, that a queue always has somebody *)
(* to run it, that a session whose prompts name no model runs one turn at  *)
(* a time, that what waits can be seen and that a cancelled turn is inert. *)
(* Then SessionLoads: its types, that the transcript is whole between      *)
(* loads, and that its snapshot catches up.                                *)
(***************************************************************************)
EXTENDS SessionTurns, SessionLoads, SequenceTheorems, FiniteSetTheorems, TLAPS

-----------------------------------------------------------------------------
(* Queues without duplicates. *)

LEMMA AppendKeeps ==
    ASSUME NEW S, NEW s \in Seq(S), IsInjective(s), NEW e \in S, e \notin ToSet(s)
    PROVE  /\ Append(s, e) \in Seq(S)
           /\ IsInjective(Append(s, e))
           /\ ToSet(Append(s, e)) = ToSet(s) \cup {e}
<1>1. /\ Append(s, e) \in Seq(S) /\ Len(Append(s, e)) = Len(s) + 1
      /\ \A i \in 1..Len(s) : Append(s, e)[i] = s[i]
      /\ Append(s, e)[Len(s) + 1] = e
  BY AppendProperties
<1>2. /\ DOMAIN s = 1..Len(s) /\ DOMAIN Append(s, e) = 1..(Len(s) + 1)
      /\ Len(s) \in Nat
  BY <1>1
<1>3. \A i \in 1..Len(s) : s[i] # e
  BY <1>2 DEF ToSet
<1>4. IsInjective(Append(s, e))
  <2> SUFFICES ASSUME NEW a \in 1..(Len(s) + 1), NEW b \in 1..(Len(s) + 1),
                      Append(s, e)[a] = Append(s, e)[b]
               PROVE  a = b
    BY <1>2 DEF IsInjective
  <2>1. CASE a = Len(s) + 1 \/ b = Len(s) + 1
    BY <1>1, <1>2, <1>3, <2>1
  <2>2. CASE a \in 1..Len(s) /\ b \in 1..Len(s)
    BY <1>1, <1>2, <2>2 DEF IsInjective
  <2> QED
    BY <1>2, <2>1, <2>2
<1>5. ToSet(Append(s, e)) = ToSet(s) \cup {e}
  <2>1. ASSUME NEW x \in ToSet(Append(s, e)) PROVE x \in ToSet(s) \cup {e}
    <3>1. PICK i \in 1..(Len(s) + 1) : x = Append(s, e)[i]
      BY <1>2, <2>1 DEF ToSet
    <3> QED
      BY <1>1, <1>2, <3>1 DEF ToSet
  <2>2. ASSUME NEW x \in ToSet(s) PROVE x \in ToSet(Append(s, e))
    <3>1. PICK i \in 1..Len(s) : x = s[i]
      BY <1>2, <2>2 DEF ToSet
    <3>2. i \in 1..(Len(s) + 1) /\ x = Append(s, e)[i]
      BY <1>1, <1>2, <3>1
    <3> QED
      BY <1>2, <3>2 DEF ToSet
  <2>3. e \in ToSet(Append(s, e))
    <3>1. Len(s) + 1 \in 1..(Len(s) + 1)
      BY <1>2
    <3> QED
      BY <1>1, <1>2, <3>1 DEF ToSet
  <2> QED
    BY <2>1, <2>2, <2>3
<1> QED
  BY <1>1, <1>4, <1>5

LEMMA TailKeeps ==
    ASSUME NEW S, NEW s \in Seq(S), IsInjective(s), s # <<>>
    PROVE  /\ Head(s) \in S /\ Head(s) \in ToSet(s)
           /\ Tail(s) \in Seq(S)
           /\ IsInjective(Tail(s))
           /\ ToSet(Tail(s)) = ToSet(s) \ {Head(s)}
<1>1. /\ Head(s) \in S /\ Tail(s) \in Seq(S) /\ Len(Tail(s)) = Len(s) - 1
      /\ \A i \in 1..Len(Tail(s)) : Tail(s)[i] = s[i + 1]
  BY HeadTailProperties
<1>2. /\ Len(s) \in Nat /\ Len(s) > 0 /\ DOMAIN s = 1..Len(s) /\ Head(s) = s[1]
      /\ DOMAIN Tail(s) = 1..(Len(s) - 1)
  BY <1>1, EmptySeq
<1>3. \A a, b \in 1..Len(s) : s[a] = s[b] => a = b
  BY <1>2 DEF IsInjective
<1>4. Head(s) \in ToSet(s)
  <2>1. 1 \in 1..Len(s)
    BY <1>2
  <2> QED
    BY <1>2, <2>1 DEF ToSet
<1>5. IsInjective(Tail(s))
  BY <1>1, <1>2, <1>3 DEF IsInjective
<1>6. ToSet(Tail(s)) = ToSet(s) \ {Head(s)}
  <2>1. ASSUME NEW x \in ToSet(Tail(s)) PROVE x \in ToSet(s) \ {Head(s)}
    <3>1. PICK i \in 1..(Len(s) - 1) : x = Tail(s)[i]
      BY <1>2, <2>1 DEF ToSet
    <3>2. i + 1 \in 1..Len(s) /\ x = s[i + 1] /\ i + 1 # 1 /\ 1 \in 1..Len(s)
      BY <1>1, <1>2, <3>1
    <3> QED
      BY <1>2, <1>3, <3>2 DEF ToSet
  <2>2. ASSUME NEW x \in ToSet(s) \ {Head(s)} PROVE x \in ToSet(Tail(s))
    <3>1. PICK i \in 1..Len(s) : x = s[i]
      BY <1>2, <2>2 DEF ToSet
    <3>2. i - 1 \in 1..(Len(s) - 1) /\ x = Tail(s)[i - 1]
      BY <1>1, <1>2, <2>2, <3>1
    <3> QED
      BY <1>2, <3>2 DEF ToSet
  <2> QED
    BY <2>1, <2>2
<1> QED
  BY <1>1, <1>4, <1>5, <1>6

-----------------------------------------------------------------------------
(* Type correctness. *)

Queued(calls) == {p \in Prompts : calls[p] = "queued"}

(* The part of the types that the turns change together. *)
TurnTypes ==
    /\ call \in [Prompts -> Calls]
    /\ queue \in Seq(Prompts)
    /\ IsInjective(queue)
    /\ ToSet(queue) = Queued(call)
    /\ active \in BOOLEAN
    /\ generation \in Nat
    /\ turn \in [Prompts -> Nat]

(* Running the next prompt keeps the queue and the calls in step. *)
LEMMA RunNextTypes ==
    ASSUME TypeOK, NEW calls \in [Prompts -> Calls], Queued(calls) = Queued(call),
           NEW b \in BOOLEAN, RunNextQueued(calls, b)
    PROVE  TurnTypes'
<1> USE DEF TypeOK, TurnTypes
<1>0. ToSet(queue) = Queued(calls)
  BY DEF Queued
<1>1. CASE queue = <<>>
  BY <1>0, <1>1 DEF RunNextQueued, Queued
<1>2. CASE queue # <<>>
  <2> DEFINE next == Head(queue)
  <2>1. /\ next \in Prompts /\ next \in ToSet(queue) /\ Tail(queue) \in Seq(Prompts)
        /\ IsInjective(Tail(queue)) /\ ToSet(Tail(queue)) = ToSet(queue) \ {next}
    BY <1>2, TailKeeps
  <2>2. queue' = Tail(queue)
    BY <1>2 DEF RunNextQueued
  <2>3. /\ call' \in [Prompts -> Calls] /\ call'[next] # "queued"
        /\ \A p \in Prompts \ {next} : call'[p] = calls[p]
        /\ active' \in BOOLEAN /\ generation' \in Nat /\ turn' \in [Prompts -> Nat]
    <3> HIDE DEF next
    <3>1. /\ \E stage \in {"sent", "dequeued"} : call' = [calls EXCEPT ![next] = stage]
          /\ active' \in BOOLEAN /\ generation' \in Nat /\ turn' \in [Prompts -> Nat]
      <4>1. CASE next \notin HasModel
        <5>1. StartTurn(calls, next)
          BY <1>2, <4>1 DEF RunNextQueued, next
        <5> QED
          BY <2>1, <5>1 DEF StartTurn
      <4>2. CASE next \in HasModel
        <5>1. /\ call' = [calls EXCEPT ![next] = "dequeued"] /\ active' = b
              /\ UNCHANGED <<generation, turn>>
          BY <1>2, <4>2 DEF RunNextQueued, next
        <5> QED
          BY <5>1
      <4> QED
        BY <4>1, <4>2
    <3> QED
      BY <2>1, <3>1 DEF Calls
  <2> HIDE DEF next
  <2>4. ToSet(queue)' = Queued(call)'
    BY <1>0, <2>1, <2>2, <2>3 DEF Queued
  <2> QED
    BY <2>1, <2>2, <2>3, <2>4
<1> QED
  BY <1>1, <1>2

(* A step that leaves the queue alone and queues nothing. *)
LEMMA CallTypes ==
    ASSUME TypeOK, UNCHANGED queue, NEW p \in Prompts, call[p] # "queued",
           NEW stage \in Calls \ {"queued"}, call' = [call EXCEPT ![p] = stage],
           active' \in BOOLEAN, generation' \in Nat, turn' \in [Prompts -> Nat]
    PROVE  TurnTypes'
BY DEF TypeOK, TurnTypes, Queued

(* A counter that may still count stays within its bound. *)
LEMMA AsideTypes ==
    ASSUME TypeOK, CanTurnAside
    PROVE  /\ commands + 1 \in 0..MaxAsides
           /\ evictions + 1 \in 0..MaxAsides
           /\ reads + 1 \in 0..MaxAsides
BY TurnsAssumption DEF TypeOK, CanTurnAside

(* Reads and forced loads touch the transcript and their own records. *)
LEMMA ReplaceTypes ==
    ASSUME TypeOK, ReadJournal \/ Reloading
    PROVE  /\ UNCHANGED <<call, queue, active, generation, turn, command, cancelled,
                          aborts, commands, evictions>>
           /\ visible' \subseteq Prompts /\ overlooked' \subseteq Prompts
           /\ reload' \in Reload /\ reads' \in 0..MaxAsides
<1>t. /\ visible \subseteq Prompts /\ overlooked \subseteq Prompts /\ reads \in 0..MaxAsides
      /\ reload.before \subseteq Prompts /\ reload \in Reload /\ NoReload \in Reload
      /\ \A journal \in Journals : journal \subseteq Prompts
  BY DEF TypeOK, Reload, NoReload, Journals
<1>1. CASE ReadJournal
  BY <1>1, <1>t, AsideTypes DEF ReadJournal
<1>2. CASE ReloadStarts
  <2>1. reload' \in Reload
    BY <1>2, <1>t DEF ReloadStarts, Reload
  <2> QED
    BY <1>2, <1>t, <2>1, AsideTypes DEF ReloadStarts, turnVars, history
<1>3. CASE ReloadBlanks
  <2>1. \A kept \in Kept : kept \subseteq Prompts /\ [phase |-> "replaying", before |-> kept] \in Reload
    BY <1>t DEF Kept, Reload
  <2> QED
    BY <1>3, <1>t, <2>1 DEF ReloadBlanks, bounds
<1>4. CASE ReloadResumes
  BY <1>4, <1>t DEF ReloadResumes, bounds
<1>5. CASE ReloadEnds
  BY <1>5, <1>t DEF ReloadEnds, bounds, history
<1>6. CASE ReloadFails
  BY <1>6, <1>t DEF ReloadFails, bounds
<1> QED
  BY <1>1, <1>2, <1>3, <1>4, <1>5, <1>6 DEF Reloading

LEMMA NextTypes ==
    ASSUME TypeOK, [Next]_vars
    PROVE  TypeOK'
<1> USE TurnsAssumption
<1>0. \/ TurnTypes' /\ UNCHANGED <<visible, command, reload, history, bounds>>
      \/ TurnTypes' /\ visible' \subseteq Prompts /\ UNCHANGED <<command, reload, history, bounds>>
      => TypeOK'
  BY DEF TypeOK, TurnTypes, Queued, history, bounds
<1>1. ASSUME NEW p \in Prompts, Send(p) \/ Progress(p) PROVE TypeOK'
  <2>1. CASE Send(p)
    BY <1>0, <2>1, CallTypes DEF Send, TypeOK, Calls
  <2>2. CASE Refuse(p)
    BY <1>0, <2>2, CallTypes DEF Refuse, TypeOK, Calls
  <2>3. CASE Enqueue(p)
    <3>1. p \notin ToSet(queue)
      BY <2>3 DEF Enqueue, TypeOK
    <3>2. /\ queue' \in Seq(Prompts) /\ IsInjective(queue)'
          /\ ToSet(queue)' = ToSet(queue) \cup {p}
      BY <2>3, <3>1, AppendKeeps DEF Enqueue, TypeOK
    <3>3. call' \in [Prompts -> Calls] /\ Queued(call)' = Queued(call) \cup {p}
      BY <2>3 DEF Enqueue, TypeOK, Calls, Queued
    <3> QED
      BY <1>0, <2>3, <3>2, <3>3 DEF Enqueue, TypeOK, TurnTypes, Queued
  <2>4. CASE SetModel(p)
    BY <1>0, <2>4, CallTypes DEF SetModel, TypeOK, Calls
  <2>5. CASE Start(p)
    <3>1. /\ UNCHANGED <<queue, command, reload, history, aborts, commands, reads>>
          /\ call[p] # "queued" /\ call' = [call EXCEPT ![p] = "sent"]
          /\ active' = TRUE /\ generation' \in Nat /\ turn' \in [Prompts -> Nat]
          /\ visible' \subseteq Prompts /\ evictions' \in 0..MaxAsides
      <4>1. /\ StartFresh(p) /\ UNCHANGED <<command, reload, history, aborts, commands, reads>>
            /\ call[p] # "queued"
        BY <2>5 DEF Start
      <4>2. CASE StartTurn(call, p) /\ visible' = visible \cup {p} /\ UNCHANGED <<queue, evictions>>
        BY <4>1, <4>2 DEF StartTurn, TypeOK
      <4>3. CASE /\ CanTurnAside /\ evictions' = evictions + 1
                 /\ call' = [call EXCEPT ![p] = "sent"]
                 /\ turn' = [turn EXCEPT ![p] = generation + 1]
                 /\ generation' = 0 /\ active' = TRUE /\ visible' = {} /\ UNCHANGED queue
        BY <4>1, <4>3, AsideTypes DEF TypeOK
      <4> QED
        BY <4>1, <4>2, <4>3 DEF StartFresh
    <3>2. TurnTypes'
      BY <3>1, CallTypes DEF Calls
    <3> QED
      BY <3>1, <3>2 DEF TypeOK, TurnTypes, Queued, history
  <2>6. CASE TurnFails(p)
    BY <1>0, <2>6, CallTypes DEF TurnFails, TypeOK, Calls
  <2>7. CASE TurnEnds(p)
    <3>1. CASE turn[p] = generation
      <4>1. /\ [call EXCEPT ![p] = "ended"] \in [Prompts -> Calls]
            /\ Queued([call EXCEPT ![p] = "ended"]) = Queued(call)
        BY <2>7 DEF TurnEnds, TypeOK, Calls, Queued
      <4> QED
        BY <1>0, <2>7, <3>1, <4>1, RunNextTypes DEF TurnEnds
    <3>2. CASE turn[p] # generation
      BY <1>0, <2>7, <3>2, CallTypes DEF TurnEnds, TypeOK, Calls
    <3> QED
      BY <3>1, <3>2
  <2>8. CASE StartDequeued(p)
    <3>1. /\ UNCHANGED <<queue, visible, command, reload, history, bounds>>
          /\ call[p] # "queued" /\ call' = [call EXCEPT ![p] = "sent"]
          /\ active' = TRUE /\ generation' \in Nat /\ turn' \in [Prompts -> Nat]
      BY <2>8 DEF StartDequeued, StartTurn, TypeOK
    <3>2. TurnTypes'
      BY <3>1, CallTypes DEF Calls
    <3> QED
      BY <1>0, <3>1, <3>2
  <2>9. CASE DequeueRefused(p)
    <3>1. /\ [call EXCEPT ![p] = "refused"] \in [Prompts -> Calls]
          /\ Queued([call EXCEPT ![p] = "refused"]) = Queued(call)
      BY <2>9 DEF DequeueRefused, TypeOK, Calls, Queued
    <3>2. active \in BOOLEAN
      BY DEF TypeOK
    <3> QED
      BY <1>0, <2>9, <3>1, <3>2, RunNextTypes DEF DequeueRefused
  <2> QED
    BY <1>1, <2>1, <2>2, <2>3, <2>4, <2>5, <2>6, <2>7, <2>8, <2>9 DEF Progress
<1>2. CASE Abort
  <2>1. call' \in [Prompts -> Calls] /\ Queued(call)' = {}
    BY <1>2 DEF Abort, TypeOK, Calls, Queued
  <2>2. queue' = <<>> /\ queue' \in Seq(Prompts) /\ IsInjective(queue)' /\ ToSet(queue)' = {}
    BY <1>2 DEF Abort, IsInjective, ToSet
  <2>3. /\ active' \in BOOLEAN /\ generation' \in Nat /\ aborts' \in 0..MaxAborts
        /\ visible' \subseteq Prompts /\ cancelled' \subseteq Prompts
    <3>1. generation' = generation + 1 /\ aborts < MaxAborts /\ aborts' = aborts + 1
      BY <1>2 DEF Abort
    <3>2. generation' \in Nat /\ aborts' \in 0..MaxAborts
      BY <3>1 DEF TypeOK
    <3> QED
      BY <1>2, <3>2 DEF Abort, TypeOK, InFlight
  <2> QED
    BY <1>2, <2>1, <2>2, <2>3 DEF Abort, TypeOK, Queued
<1>3. CASE ActionStarts
  <2>1. command' \in Command
    BY <1>3 DEF ActionStarts, Command, NoCommand
  <2>2. commands' \in 0..MaxAsides
    BY <1>3, AsideTypes DEF ActionStarts
  <2> QED
    BY <1>3, <2>1, <2>2 DEF ActionStarts, TypeOK, history
<1>4. CASE RenameStarts
  BY <1>4, AsideTypes DEF RenameStarts, TypeOK, Command, history
<1>5. CASE ActionEnds
  BY <1>5 DEF ActionEnds, TypeOK, Command, NoCommand, history, bounds
<1>6. CASE RenameEnds
  <2>1. command.before \in SUBSET Prompts /\ command' \in Command /\ active' \in BOOLEAN
    BY <1>6 DEF RenameEnds, TypeOK, Command, NoCommand
  <2> QED
    BY <1>6, <2>1 DEF RenameEnds, TypeOK, history, bounds
<1>7. CASE Evict
  BY <1>7, AsideTypes DEF Evict, TypeOK, history
<1>8. CASE UNCHANGED vars
  BY <1>8 DEF vars, turnVars, TypeOK, history, bounds
<1>9. CASE ReadJournal \/ Reloading
  <2>1. /\ UNCHANGED <<call, queue, active, generation, turn, command, cancelled,
                       aborts, commands, evictions>>
        /\ visible' \subseteq Prompts /\ overlooked' \subseteq Prompts
        /\ reload' \in Reload /\ reads' \in 0..MaxAsides
    BY <1>9, ReplaceTypes
  <2> QED
    BY <2>1 DEF TypeOK
<1> QED
  BY <1>1, <1>2, <1>3, <1>4, <1>5, <1>6, <1>7, <1>8, <1>9 DEF Next, CommandEnds

(* Every variable of a session keeps its type, and the queue holds exactly *)
(* the queued prompts, each once.                                          *)
THEOREM TypesHold == Spec => []TypeOK
<1>1. Init => TypeOK
  <2> SUFFICES ASSUME Init PROVE TypeOK
    OBVIOUS
  <2>1. <<>> \in Seq(Prompts) /\ IsInjective(<<>>) /\ ToSet(<<>>) = {}
    BY DEF IsInjective, ToSet
  <2>2. NoCommand \in Command /\ NoReload \in Reload
    BY DEF Command, NoCommand, Reload, NoReload
  <2>3. 0 \in 0..MaxAborts /\ 0 \in 0..MaxAsides
    BY TurnsAssumption
  <2> QED
    BY <2>1, <2>2, <2>3 DEF Init, TypeOK, Calls
<1> QED
  BY <1>1, NextTypes, PTL DEF Spec

-----------------------------------------------------------------------------
(***************************************************************************)
(* The invariant.  Generations are unique, so a completion that carries    *)
(* the generation of the map is the only turn the busy flag can stand for; *)
(* without models a turn only starts when no such turn is there.           *)
(***************************************************************************)

Flying(calls) == {p \in Prompts : calls[p] \in {"sent", "failed"}}

Plain == Undisturbed /\ \A p \in HasModel : call[p] = "unsent"

LEMMA FlyingIsInFlight == Flying(call) = InFlight /\ Flying(call') = InFlight'
BY DEF Flying, InFlight

(* A step that starts and ends no turn. *)
LEMMA QuietStep ==
    ASSUME TypeOK, TurnInv, InFlight' = InFlight,
           \A m \in HasModel : call'[m] = "unsent" => call[m] = "unsent",
           UNCHANGED <<active, generation, turn, cancelled, evictions, commands>>
    PROVE  GenerationsAreUnique' /\ LiveIsCurrent' /\ ActiveIsTheCurrentTurn'
<1>1. Undisturbed' = Undisturbed
  BY DEF Undisturbed
<1>2. GenerationsAreUnique'
  BY DEF TurnInv, GenerationsAreUnique
<1>3. LiveIsCurrent'
  BY <1>1 DEF TurnInv, LiveIsCurrent, Live
<1>4. ActiveIsTheCurrentTurn'
  BY <1>1 DEF TurnInv, ActiveIsTheCurrentTurn
<1> QED
  BY <1>2, <1>3, <1>4

(* A turn that starts is the current one. *)
LEMMA StartedStep ==
    ASSUME TypeOK, TurnInv, NEW calls \in [Prompts -> Calls], NEW p \in Prompts,
           p \notin Flying(calls), Flying(calls) \subseteq InFlight,
           StartTurn(calls, p), UNCHANGED <<cancelled, evictions, commands>>,
           Plain' => Flying(calls) \ cancelled = {}
    PROVE  GenerationsAreUnique' /\ LiveIsCurrent' /\ ActiveIsTheCurrentTurn' /\ active'
<1>1. /\ InFlight' = Flying(calls) \cup {p}
      /\ turn'[p] = generation + 1 /\ generation' = generation + 1 /\ active' = TRUE
      /\ \A q \in Prompts \ {p} : turn'[q] = turn[q]
      /\ generation \in Nat /\ turn \in [Prompts -> Nat]
  BY DEF StartTurn, TypeOK, InFlight, Flying
<1>2. GenerationsAreUnique'
  <2> SUFFICES ASSUME evictions' = 0
               PROVE  /\ \A q \in Prompts : turn'[q] <= generation'
                      /\ \A q, r \in InFlight' : turn'[q] = turn'[r] => q = r
    BY DEF GenerationsAreUnique
  <2>1. /\ \A q \in Prompts : turn[q] <= generation
        /\ \A q, r \in InFlight : turn[q] = turn[r] => q = r
    BY DEF TurnInv, GenerationsAreUnique
  <2>2. \A q \in Prompts : turn[q] \in Nat /\ turn[q] # generation + 1
    BY <1>1, <2>1
  <2>3. \A q \in Prompts : turn'[q] <= generation'
    BY <1>1, <2>1, <2>2
  <2>4. Flying(calls) \subseteq Prompts
    BY DEF Flying
  <2> QED
    BY <1>1, <2>1, <2>2, <2>3, <2>4
<1>3. LiveIsCurrent'
  BY <1>1 DEF LiveIsCurrent, Live, Plain
<1>4. ActiveIsTheCurrentTurn'
  BY <1>1 DEF ActiveIsTheCurrentTurn
<1> QED
  BY <1>1, <1>2, <1>3, <1>4

(* Running the next prompt keeps the invariant, when the flag it is given  *)
(* stands for the turns still in flight.                                   *)
LEMMA RunNextStep ==
    ASSUME TypeOK, TurnInv, NEW calls \in [Prompts -> Calls], NEW b \in BOOLEAN,
           RunNextQueued(calls, b), Queued(calls) = Queued(call),
           UNCHANGED <<command, cancelled, evictions, commands>>,
           Flying(calls) \subseteq InFlight,
           \A m \in Prompts : calls[m] \in {"settingModel", "dequeued"} => m \in HasModel,
           Undisturbed => (b <=> \E q \in Flying(calls) : turn[q] = generation),
           Plain' => Flying(calls) \ cancelled = {}
    PROVE  TurnInv'
<1> DEFINE next == Head(queue)
<1>0. CommandIsCounted' /\ Undisturbed' = Undisturbed
  BY DEF TurnInv, CommandIsCounted, NoCommand, Undisturbed
<1>1. queue # <<>> => /\ next \in Prompts /\ calls[next] = "queued" /\ next \notin Flying(calls)
  <2> SUFFICES ASSUME queue # <<>>
               PROVE  /\ next \in Prompts /\ calls[next] = "queued" /\ next \notin Flying(calls)
    OBVIOUS
  <2>1. next \in Prompts /\ next \in ToSet(queue)
    BY TailKeeps DEF TypeOK
  <2>2. next \in Queued(calls)
    BY <2>1 DEF TypeOK, Queued
  <2> QED
    BY <2>2 DEF Queued, Flying
<1>2. CASE queue = <<>> \/ next \in HasModel
  <2>1. /\ Flying(call') = Flying(calls) /\ active' = b
        /\ UNCHANGED <<generation, turn>>
        /\ \A m \in Prompts : call'[m] \in {"settingModel", "dequeued"} => m \in HasModel
        /\ queue' # <<>> => \E m \in Prompts : call'[m] = "dequeued"
    <3>1. CASE queue = <<>>
      BY <3>1 DEF RunNextQueued
    <3>2. CASE queue # <<>> /\ next \in HasModel
      <4>1. /\ call' = [calls EXCEPT ![next] = "dequeued"] /\ active' = b
            /\ UNCHANGED <<generation, turn>>
        BY <3>2 DEF RunNextQueued
      <4> HIDE DEF next
      <4>2. call'[next] = "dequeued" /\ \A m \in Prompts \ {next} : call'[m] = calls[m]
        BY <1>1, <3>2, <4>1
      <4>3. Flying(call') = Flying(calls)
        BY <1>1, <3>2, <4>2 DEF Flying
      <4> QED
        BY <1>1, <3>2, <4>1, <4>2, <4>3
    <3> QED
      BY <1>2, <3>1, <3>2
  <2>2. GenerationsAreUnique'
    BY <2>1, FlyingIsInFlight DEF TurnInv, GenerationsAreUnique
  <2>3. LiveIsCurrent'
    BY <2>1, FlyingIsInFlight DEF LiveIsCurrent, Live, Plain
  <2>4. ActiveIsTheCurrentTurn'
    BY <1>0, <2>1, FlyingIsInFlight DEF ActiveIsTheCurrentTurn
  <2> QED
    BY <1>0, <2>1, <2>2, <2>3, <2>4 DEF TurnInv, OnlyModelsWait, QueueHasARunner
<1>3. CASE queue # <<>> /\ next \notin HasModel
  <2>1. StartTurn(calls, next)
    BY <1>3 DEF RunNextQueued
  <2> HIDE DEF next
  <2>2. GenerationsAreUnique' /\ LiveIsCurrent' /\ ActiveIsTheCurrentTurn' /\ active'
    BY <1>1, <1>3, <2>1, StartedStep
  <2>3. OnlyModelsWait'
    BY <1>1, <1>3, <2>1 DEF StartTurn, OnlyModelsWait
  <2> QED
    BY <1>0, <2>2, <2>3 DEF TurnInv, QueueHasARunner
<1> QED
  BY <1>2, <1>3

LEMMA NextTurnInv ==
    ASSUME TypeOK, TurnInv, [Next]_vars
    PROVE  TurnInv'
<1> USE TurnsAssumption
<1>t. /\ call \in [Prompts -> Calls] /\ active \in BOOLEAN /\ generation \in Nat
      /\ commands \in Nat /\ evictions \in Nat
  BY DEF TypeOK
<1>1. ASSUME NEW p \in Prompts, Send(p) \/ Progress(p) PROVE TurnInv'
  <2>1. CASE Send(p) \/ Refuse(p) \/ Enqueue(p) \/ SetModel(p) \/ TurnFails(p)
    <3>1. /\ \E stage \in {"loading", "refused", "queued", "settingModel", "failed"} :
               /\ call' = [call EXCEPT ![p] = stage]
               /\ stage = "settingModel" => p \in HasModel
               /\ stage = "failed" => call[p] = "sent"
               /\ stage # "failed" => call[p] \in {"unsent", "loading", "settingModel"}
          /\ UNCHANGED <<active, generation, turn, command, history, bounds>>
          /\ queue' = queue \/ active
      <4>1. CASE Send(p)
        BY <4>1 DEF Send
      <4>2. CASE Refuse(p)
        BY <4>2 DEF Refuse
      <4>3. CASE Enqueue(p)
        BY <4>3 DEF Enqueue
      <4>4. CASE SetModel(p)
        BY <4>4 DEF SetModel
      <4>5. CASE TurnFails(p)
        BY <4>5 DEF TurnFails
      <4> QED
        BY <2>1, <4>1, <4>2, <4>3, <4>4, <4>5
    <3>2. UNCHANGED <<active, generation, turn, cancelled, command, evictions, commands>>
      BY <3>1 DEF history, bounds
    <3>3. /\ InFlight' = InFlight
          /\ \A m \in HasModel : call'[m] = "unsent" => call[m] = "unsent"
          /\ \A m \in Prompts : call[m] = "dequeued" => call'[m] = "dequeued"
          /\ \A m \in Prompts : call'[m] \in {"settingModel", "dequeued"} =>
                call[m] \in {"settingModel", "dequeued"} \/ m \in HasModel
      BY <1>t, <3>1 DEF InFlight
    <3>4. GenerationsAreUnique' /\ LiveIsCurrent' /\ ActiveIsTheCurrentTurn'
      BY <3>2, <3>3, QuietStep
    <3>5. OnlyModelsWait' /\ CommandIsCounted'
      BY <3>2, <3>3 DEF TurnInv, OnlyModelsWait, CommandIsCounted, NoCommand
    <3>6. QueueHasARunner'
      BY <3>1, <3>2, <3>3 DEF TurnInv, QueueHasARunner, Undisturbed
    <3> QED
      BY <3>4, <3>5, <3>6 DEF TurnInv
  <2>2. CASE Start(p)
    <3>1. /\ call[p] \in {"loading", "settingModel"} /\ UNCHANGED <<queue, command, cancelled, commands>>
          /\ call[p] = "settingModel" \/ (~active /\ p \notin HasModel)
          /\ call' = [call EXCEPT ![p] = "sent"] /\ active' = TRUE
          /\ \/ StartTurn(call, p) /\ UNCHANGED evictions
             \/ evictions' = evictions + 1
      BY <2>2 DEF Start, StartFresh, StartTurn, history
    <3>2. OnlyModelsWait' /\ CommandIsCounted' /\ QueueHasARunner'
      BY <1>t, <3>1 DEF TurnInv, OnlyModelsWait, CommandIsCounted, NoCommand, QueueHasARunner
    <3>3. CASE StartTurn(call, p) /\ UNCHANGED evictions
      <4>1. Plain' => Flying(call) \ cancelled = {}
        <5> SUFFICES ASSUME Plain' PROVE Flying(call) \ cancelled = {}
          OBVIOUS
        <5>1. call'[p] = "sent" /\ p \notin HasModel /\ ~active
          BY <1>t, <3>1 DEF Plain, TurnInv, OnlyModelsWait
        <5>2. Plain
          BY <1>t, <3>1, <3>3, <5>1 DEF Plain, Undisturbed
        <5>3. /\ \A q \in Live : turn[q] = generation
              /\ \A q \in InFlight : turn[q] # generation
          BY <5>1, <5>2 DEF Plain, TurnInv, LiveIsCurrent, ActiveIsTheCurrentTurn
        <5> QED
          BY <5>3, FlyingIsInFlight DEF Live
      <4>2. p \notin Flying(call) /\ Flying(call) \subseteq InFlight
        BY <3>1, FlyingIsInFlight DEF Flying
      <4>3. GenerationsAreUnique' /\ LiveIsCurrent' /\ ActiveIsTheCurrentTurn'
        BY <1>t, <3>1, <3>3, <4>1, <4>2, StartedStep
      <4> QED
        BY <3>2, <4>3 DEF TurnInv
    <3>4. CASE evictions' = evictions + 1
      <4>1. evictions' # 0
        BY <1>t, <3>4
      <4> QED
        BY <3>2, <4>1 DEF TurnInv, GenerationsAreUnique, LiveIsCurrent, ActiveIsTheCurrentTurn,
                          Undisturbed
    <3> QED
      BY <3>1, <3>3, <3>4
  <2>3. CASE TurnEnds(p)
    <3> DEFINE calls == [call EXCEPT ![p] = "ended"]
    <3>1. /\ call[p] \in {"sent", "failed"} /\ p \in InFlight
          /\ calls \in [Prompts -> Calls] /\ Queued(calls) = Queued(call)
          /\ Flying(calls) = InFlight \ {p}
          /\ \A m \in Prompts : calls[m] \in {"settingModel", "dequeued"} => m \in HasModel
          /\ UNCHANGED <<command, cancelled, evictions, commands>>
      BY <1>t, <2>3 DEF TurnEnds, Calls, Queued, Flying, InFlight, history, bounds,
                        TurnInv, OnlyModelsWait
    <3>2. CASE turn[p] = generation
      <4>1. RunNextQueued(calls, FALSE)
        BY <2>3, <3>2 DEF TurnEnds
      <4> HIDE DEF calls
      <4>2. Undisturbed => ~ \E q \in Flying(calls) : turn[q] = generation
        BY <3>1, <3>2 DEF TurnInv, GenerationsAreUnique, Undisturbed
      <4>3. Plain' => Flying(calls) \ cancelled = {}
        <5> SUFFICES ASSUME Plain' PROVE Flying(calls) \ cancelled = {}
          OBVIOUS
        <5>1. Undisturbed /\ \A m \in HasModel : call[m] = "unsent"
          <6>1. Undisturbed
            BY <3>1 DEF Plain, Undisturbed
          <6>2. \A m \in HasModel : call'[m] = "unsent" => calls[m] = "unsent"
            <7> SUFFICES ASSUME NEW m \in HasModel, call'[m] = "unsent" PROVE calls[m] = "unsent"
              OBVIOUS
            <7>1. m \in Prompts
              OBVIOUS
            <7>2. CASE queue = <<>>
              BY <4>1, <7>2 DEF RunNextQueued
            <7>3. CASE queue # <<>>
              <8>1. PICK stage \in {"sent", "dequeued"} :
                       call' = [calls EXCEPT ![Head(queue)] = stage]
                BY <4>1, <7>3 DEF RunNextQueued, StartTurn
              <8> QED
                BY <3>1, <7>1, <8>1
            <7> QED
              BY <7>2, <7>3
          <6>3. \A m \in HasModel : calls[m] = "unsent" => call[m] = "unsent"
            BY <1>t DEF calls
          <6> QED
            BY <6>1, <6>2, <6>3 DEF Plain
        <5>2. \A q \in Live : turn[q] = generation
          BY <5>1 DEF TurnInv, LiveIsCurrent
        <5>3. \A q \in Flying(calls) : turn[q] # generation
          BY <4>2, <5>1
        <5> QED
          BY <3>1, <5>2, <5>3 DEF Live
      <4> QED
        BY <3>1, <4>1, <4>2, <4>3, RunNextStep
    <3>3. CASE turn[p] # generation
      <4>1. call' = calls /\ UNCHANGED <<queue, active, generation, turn>>
        BY <2>3, <3>3 DEF TurnEnds
      <4>2. InFlight' = InFlight \ {p}
        BY <3>1, <4>1 DEF Flying, InFlight
      <4>3. GenerationsAreUnique' /\ ActiveIsTheCurrentTurn'
        BY <3>1, <3>3, <4>1, <4>2
           DEF TurnInv, GenerationsAreUnique, ActiveIsTheCurrentTurn, Undisturbed
      <4>4. LiveIsCurrent'
        <5>1. \A m \in HasModel : call'[m] = "unsent" => call[m] = "unsent"
          BY <1>t, <4>1
        <5> QED
          BY <3>1, <4>1, <4>2, <5>1 DEF TurnInv, LiveIsCurrent, Live, Undisturbed
      <4>5. /\ OnlyModelsWait' /\ CommandIsCounted'
            /\ \A m \in Prompts : call[m] = "dequeued" => call'[m] = "dequeued"
        BY <1>t, <3>1, <4>1 DEF TurnInv, OnlyModelsWait, CommandIsCounted, NoCommand
      <4>6. QueueHasARunner'
        BY <3>1, <4>1, <4>5 DEF TurnInv, QueueHasARunner, Undisturbed
      <4> QED
        BY <4>3, <4>4, <4>5, <4>6 DEF TurnInv
    <3> QED
      BY <3>2, <3>3
  <2>4. CASE StartDequeued(p)
    <3>1. /\ call[p] = "dequeued" /\ StartTurn(call, p) /\ p \in HasModel
          /\ UNCHANGED <<queue, command, cancelled, evictions, commands>>
          /\ call' = [call EXCEPT ![p] = "sent"]
      BY <2>4 DEF StartDequeued, StartTurn, history, bounds, TurnInv, OnlyModelsWait
    <3>2. ~Plain' /\ p \notin Flying(call) /\ Flying(call) \subseteq InFlight
      BY <1>t, <3>1, FlyingIsInFlight DEF Plain, Flying
    <3>3. GenerationsAreUnique' /\ LiveIsCurrent' /\ ActiveIsTheCurrentTurn' /\ active'
      BY <1>t, <3>1, <3>2, StartedStep
    <3> QED
      BY <1>t, <3>1, <3>3
         DEF TurnInv, OnlyModelsWait, CommandIsCounted, NoCommand, QueueHasARunner
  <2>5. CASE DequeueRefused(p)
    <3> DEFINE calls == [call EXCEPT ![p] = "refused"]
    <3>1. /\ call[p] = "dequeued" /\ p \in HasModel
          /\ calls \in [Prompts -> Calls] /\ Queued(calls) = Queued(call)
          /\ Flying(calls) = InFlight /\ calls[p] = "refused"
          /\ \A m \in Prompts : calls[m] \in {"settingModel", "dequeued"} => m \in HasModel
          /\ UNCHANGED <<command, cancelled, evictions, commands>>
          /\ RunNextQueued(calls, active)
      BY <1>t, <2>5 DEF DequeueRefused, Calls, Queued, Flying, InFlight, history, bounds,
                        TurnInv, OnlyModelsWait
    <3> HIDE DEF calls
    <3>2. ~Plain'
      <4>1. call'[p] # "unsent"
        <5>1. CASE queue = <<>>
          BY <3>1, <5>1 DEF RunNextQueued
        <5>2. CASE queue # <<>>
          <6>1. PICK stage \in {"sent", "dequeued"} :
                   call' = [calls EXCEPT ![Head(queue)] = stage]
            BY <3>1, <5>2 DEF RunNextQueued, StartTurn
          <6> QED
            BY <3>1, <6>1
        <5> QED
          BY <5>1, <5>2
      <4> QED
        BY <3>1, <4>1 DEF Plain
    <3>3. Undisturbed => (active <=> \E q \in Flying(calls) : turn[q] = generation)
      BY <3>1 DEF TurnInv, ActiveIsTheCurrentTurn
    <3> QED
      BY <1>t, <3>1, <3>2, <3>3, RunNextStep
  <2> QED
    BY <1>1, <2>1, <2>2, <2>3, <2>4, <2>5 DEF Progress
<1>2. CASE Abort
  <2>1. /\ queue' = <<>> /\ active' = FALSE /\ generation' = generation + 1
        /\ UNCHANGED <<turn, command, commands, evictions>>
        /\ InFlight' = InFlight /\ Live' = {}
        /\ \A m \in Prompts : call'[m] \in {"settingModel", "dequeued"} => m \in HasModel
    BY <1>2 DEF Abort, InFlight, Live, TurnInv, OnlyModelsWait
  <2>2. evictions = 0 => \A q \in Prompts : turn[q] \in Nat /\ turn[q] <= generation
    BY DEF TurnInv, GenerationsAreUnique, TypeOK
  <2>3. evictions = 0 => \A q \in Prompts : turn'[q] <= generation' /\ turn'[q] # generation'
    BY <1>t, <2>1, <2>2
  <2>4. GenerationsAreUnique'
    BY <2>1, <2>3 DEF TurnInv, GenerationsAreUnique
  <2>5. ActiveIsTheCurrentTurn'
    BY <2>1, <2>3 DEF ActiveIsTheCurrentTurn, Undisturbed, InFlight
  <2> QED
    BY <2>1, <2>4, <2>5
       DEF TurnInv, OnlyModelsWait, CommandIsCounted, NoCommand, LiveIsCurrent, QueueHasARunner
<1>3. CASE ActionStarts \/ RenameStarts \/ CommandEnds
  <2>1. commands' # 0 /\ UNCHANGED <<call, generation, turn, evictions>>
    <3>1. CASE ActionStarts \/ RenameStarts
      BY <1>t, <3>1 DEF ActionStarts, RenameStarts
    <3>2. CASE CommandEnds
      <4>1. command # NoCommand /\ UNCHANGED <<call, generation, turn, evictions, commands>>
        BY <3>2 DEF CommandEnds, ActionEnds, RenameEnds, NoCommand, bounds
      <4> QED
        BY <1>t, <4>1 DEF TurnInv, CommandIsCounted
    <3> QED
      BY <1>3, <3>1, <3>2
  <2>2. commands' \in Nat
    BY <1>3, <1>t DEF ActionStarts, RenameStarts, CommandEnds, ActionEnds, RenameEnds, bounds
  <2>3. InFlight' = InFlight
    BY <2>1 DEF InFlight
  <2> QED
    BY <2>1, <2>2, <2>3
       DEF TurnInv, OnlyModelsWait, CommandIsCounted, GenerationsAreUnique, LiveIsCurrent,
           ActiveIsTheCurrentTurn, QueueHasARunner, Undisturbed
<1>4. CASE Evict
  <2>1. evictions' # 0 /\ UNCHANGED <<call, command, commands>>
    BY <1>t, <1>4 DEF Evict
  <2> QED
    BY <2>1 DEF TurnInv, OnlyModelsWait, CommandIsCounted, NoCommand, GenerationsAreUnique,
                LiveIsCurrent, ActiveIsTheCurrentTurn, QueueHasARunner, Undisturbed
<1>5. CASE UNCHANGED vars
  <2>1. /\ UNCHANGED <<call, queue, active, generation, turn, command, cancelled, evictions, commands>>
        /\ InFlight' = InFlight
    BY <1>5 DEF vars, turnVars, history, bounds, InFlight
  <2>2. GenerationsAreUnique' /\ LiveIsCurrent' /\ ActiveIsTheCurrentTurn'
    BY <2>1, QuietStep
  <2> QED
    BY <2>1, <2>2 DEF TurnInv, OnlyModelsWait, CommandIsCounted, NoCommand, QueueHasARunner,
                      Undisturbed
<1>6. CASE ReadJournal \/ Reloading
  <2>1. /\ UNCHANGED <<call, queue, active, generation, turn, command, cancelled, evictions, commands>>
        /\ InFlight' = InFlight
    BY <1>6, ReplaceTypes DEF InFlight
  <2>2. GenerationsAreUnique' /\ LiveIsCurrent' /\ ActiveIsTheCurrentTurn'
    BY <2>1, QuietStep
  <2> QED
    BY <2>1, <2>2 DEF TurnInv, OnlyModelsWait, CommandIsCounted, NoCommand, QueueHasARunner,
                      Undisturbed
<1> QED
  BY <1>1, <1>2, <1>3, <1>4, <1>5, <1>6 DEF Next

(* The invariant holds in every reachable state. *)
THEOREM TurnInvariant == Spec => [](TypeOK /\ TurnInv)
<1>1. Init => TurnInv
  BY DEF Init, TurnInv, OnlyModelsWait, CommandIsCounted, GenerationsAreUnique, LiveIsCurrent,
         ActiveIsTheCurrentTurn, QueueHasARunner, InFlight, Live
<1>2. TypeOK /\ TurnInv /\ [Next]_vars => TurnInv'
  BY NextTurnInv
<1> QED
  BY <1>1, <1>2, TypesHold, PTL DEF Spec

(* The busy flag is exactly the current turn, whatever aborts, failures    *)
(* and late completions a session sees.                                    *)
THEOREM ActiveHolds == Spec => []ActiveIsTheCurrentTurn
<1>1. TypeOK /\ TurnInv => ActiveIsTheCurrentTurn
  BY DEF TurnInv
<1> QED
  BY <1>1, TurnInvariant, PTL

(* A queue is never left without somebody who will run it. *)
THEOREM QueueHasARunnerHolds == Spec => []QueueHasARunner
<1>1. TypeOK /\ TurnInv => QueueHasARunner
  BY DEF TurnInv
<1> QED
  BY <1>1, TurnInvariant, PTL

(* Without models, one live turn at a time. *)
THEOREM SerialHolds == Spec => []SerialOnOneModel
<1>1. TypeOK /\ TurnInv => SerialOnOneModel
  <2> SUFFICES ASSUME TypeOK, TurnInv, Plain PROVE Cardinality(Live) <= 1
    BY DEF SerialOnOneModel, Plain
  <2>1. \A p, q \in Live : p = q
    BY DEF TurnInv, LiveIsCurrent, GenerationsAreUnique, Plain, Undisturbed, Live
  <2>2. CASE Live = {}
    BY <2>2, FS_EmptySet
  <2>3. CASE Live # {}
    <3>1. PICK p \in Live : Live = {p}
      BY <2>1, <2>3
    <3>2. Cardinality({p}) = 1
      BY FS_Singleton
    <3> QED
      BY <3>1, <3>2
  <2> QED
    BY <2>2, <2>3
<1> QED
  BY <1>1, TurnInvariant, PTL

-----------------------------------------------------------------------------
(***************************************************************************)
(* What waits is in the transcript, and a cancelled turn has an older      *)
(* generation for good.                                                    *)
(***************************************************************************)
CancelledIsPast ==
    evictions = 0 =>
        \A p \in cancelled : call[p] \in {"sent", "failed", "ended"} /\ turn[p] < generation

(* What is shown, or will be again when the load under way has ended. *)
Shown ==
    visible \cup cancelled \cup overlooked
        \cup (IF reload.phase = "replaying" THEN reload.before ELSE {})

WaitingIsShown == Undisturbed => \A p \in Prompts : Waits(p) => p \in Shown

SeenInv == WaitingIsShown /\ CancelledIsPast

(* What a step may do to a prompt: nothing, settle its turn, take it up    *)
(* without showing it, or start and queue it, if it is recorded by then.   *)
SeenMove(p) ==
    \/ call'[p] = call[p] /\ turn'[p] = turn[p]
    \/ /\ call[p] \in {"sent", "failed"}
       /\ call'[p] \in {"failed", "ended"} /\ turn'[p] = turn[p]
    \/ /\ call[p] \notin {"sent", "failed", "ended"}
       /\ \/ call'[p] \in {"loading", "settingModel", "refused"}
          \/ p \in visible'
          \/ call[p] \in {"queued", "dequeued"} /\ visible \subseteq visible'

(* A step of such moves keeps both. *)
LEMMA SeenStep ==
    ASSUME TypeOK, SeenInv, UNCHANGED <<cancelled, overlooked, reload, commands, evictions>>,
           visible \subseteq visible', \A p \in Prompts : SeenMove(p),
           generation <= generation', generation' \in Nat
    PROVE  SeenInv'
<1> USE DEF SeenMove
<1>1. WaitingIsShown'
  <2> SUFFICES ASSUME Undisturbed, NEW p \in Prompts,
                      call'[p] \in {"queued", "dequeued", "sent", "failed"}
               PROVE  p \in Shown'
    BY DEF WaitingIsShown, Waits, Undisturbed
  <2>1. Shown \cup visible' \subseteq Shown'
    BY DEF Shown
  <2>2. call[p] \in {"queued", "dequeued", "sent", "failed"} => p \in Shown'
    BY <2>1 DEF SeenInv, WaitingIsShown, Waits
  <2> QED
    BY <2>1, <2>2
<1>2. CancelledIsPast'
  <2> SUFFICES ASSUME evictions = 0, NEW p \in cancelled
               PROVE  call'[p] \in {"sent", "failed", "ended"} /\ turn'[p] < generation'
    BY DEF CancelledIsPast
  <2>1. /\ call[p] \in {"sent", "failed", "ended"} /\ turn[p] < generation
        /\ p \in Prompts /\ turn[p] \in Nat /\ generation \in Nat
    BY DEF SeenInv, CancelledIsPast, TypeOK
  <2>2. call'[p] \in {"sent", "failed", "ended"} /\ turn'[p] = turn[p]
    BY <2>1
  <2> QED
    BY <2>1, <2>2
<1> QED
  BY <1>1, <1>2 DEF SeenInv

(* Running the next queued prompt, after a turn or a refusal. *)
LEMMA RunNextSeen ==
    ASSUME TypeOK, SeenInv, NEW p \in Prompts, NEW stage, NEW b,
           RunNextQueued([call EXCEPT ![p] = stage], b),
           UNCHANGED <<visible, cancelled, overlooked, reload, commands, evictions>>,
           \/ call[p] \in {"sent", "failed"} /\ stage = "ended"
           \/ call[p] = "dequeued" /\ stage = "refused"
    PROVE  SeenInv'
<1> DEFINE next == Head(queue)
<1>0. call \in [Prompts -> Calls] /\ turn \in [Prompts -> Nat] /\ generation \in Nat
  BY DEF TypeOK
<1>1. CASE queue = <<>>
  <2>1. call' = [call EXCEPT ![p] = stage] /\ UNCHANGED <<generation, turn>>
    BY <1>1 DEF RunNextQueued
  <2>2. /\ \A q \in Prompts \ {p} : call'[q] = call[q] /\ turn'[q] = turn[q]
        /\ call'[p] = stage /\ turn'[p] = turn[p]
    BY <1>0, <2>1
  <2>3. \A q \in Prompts : SeenMove(q)
    BY <2>2 DEF SeenMove
  <2> QED
    BY <1>0, <2>1, <2>3, SeenStep
<1>2. CASE queue # <<>>
  <2>1. next \in Prompts /\ call[next] = "queued"
    BY <1>2, TailKeeps DEF TypeOK
  <2>2. \E s \in {"sent", "dequeued"} : call' = [[call EXCEPT ![p] = stage] EXCEPT ![next] = s]
    BY <1>2 DEF RunNextQueued, StartTurn
  <2>3. /\ turn' = turn \/ turn' = [turn EXCEPT ![next] = generation + 1]
        /\ generation' \in {generation, generation + 1}
    BY <1>2 DEF RunNextQueued, StartTurn
  <2> HIDE DEF next
  <2>4. /\ \A q \in Prompts \ {p, next} : call'[q] = call[q] /\ turn'[q] = turn[q]
        /\ call'[p] = stage /\ turn'[p] = turn[p] /\ p # next
    BY <1>0, <2>1, <2>2, <2>3
  <2>5. generation <= generation' /\ generation' \in Nat
    BY <1>0, <2>3
  <2>6. SeenMove(p) /\ SeenMove(next) /\ \A q \in Prompts \ {p, next} : SeenMove(q)
    BY <2>1, <2>4 DEF SeenMove
  <2> QED
    BY <2>5, <2>6, SeenStep
<1> QED
  BY <1>1, <1>2

(* A read of the journal and each step of a load keeps what waits, or puts *)
(* it down as overlooked.  An idle session has an empty queue, and a turn  *)
(* in flight on it is not the current one.                                 *)
LEMMA ReplacedIsShown ==
    ASSUME TypeOK, TurnInv, ReadJournal \/ Reloading, Undisturbed
    PROVE  \A p \in Prompts : Waits(p) /\ p \in Shown => p \in Shown'
<1> SUFFICES ASSUME NEW p \in Prompts, Waits(p), p \in Shown PROVE p \in Shown'
  OBVIOUS
<1>0. cancelled' = cancelled
  BY ReplaceTypes
<1>1. CASE ReadJournal
  <2>1. UNCHANGED reload /\ overlooked \subseteq overlooked'
    BY <1>1 DEF ReadJournal
  <2>2. CASE IsBusy
    BY <1>0, <1>1, <2>1, <2>2 DEF ReadJournal, Shown
  <2>3. CASE ~IsBusy
    <3>1. call[p] # "queued"
      <4>1. queue = <<>> /\ ToSet(queue) = {m \in Prompts : call[m] = "queued"}
        BY <2>3 DEF IsBusy, TypeOK
      <4>2. ToSet(<<>>) = {}
        BY DEF ToSet
      <4> QED
        BY <4>1, <4>2
    <3>2. p \in InFlight => turn[p] # generation
      BY <2>3 DEF IsBusy, TurnInv, ActiveIsTheCurrentTurn
    <3>3. p \in overlooked'
      BY <1>1, <2>3, <3>1, <3>2 DEF ReadJournal, Waits, InFlight
    <3> QED
      BY <3>3 DEF Shown
  <2> QED
    BY <2>2, <2>3
<1>2. CASE ReloadStarts
  BY <1>0, <1>2 DEF ReloadStarts, Shown, NoReload, turnVars, history
<1>3. CASE ReloadBlanks
  BY <1>0, <1>3 DEF ReloadBlanks, Shown
<1>4. CASE ReloadResumes
  BY <1>0, <1>4 DEF ReloadResumes, Shown, NoReload
<1>5. CASE ReloadEnds
  BY <1>0, <1>5 DEF ReloadEnds, Shown, NoReload, history
<1>6. CASE ReloadFails
  BY <1>0, <1>6 DEF ReloadFails, Shown, NoReload
<1> QED
  BY <1>1, <1>2, <1>3, <1>4, <1>5, <1>6 DEF Reloading

(* Every step keeps them. *)
LEMMA NextSeen ==
    ASSUME TypeOK, TurnInv, SeenInv, [Next]_vars
    PROVE  SeenInv'
<1>t. /\ call \in [Prompts -> Calls] /\ turn \in [Prompts -> Nat] /\ generation \in Nat
      /\ commands \in Nat /\ evictions \in Nat
  BY DEF TypeOK
<1>1. ASSUME NEW p \in Prompts, Send(p) \/ Progress(p) PROVE SeenInv'
  <2>1. CASE Send(p) \/ Refuse(p) \/ SetModel(p) \/ TurnFails(p)
    <3>1. /\ UNCHANGED <<generation, turn, visible, cancelled, overlooked, reload, commands, evictions>>
          /\ \/ /\ call[p] \in {"unsent", "loading", "settingModel"}
                /\ \E stage \in {"loading", "refused", "settingModel"} : call' = [call EXCEPT ![p] = stage]
             \/ call[p] = "sent" /\ call' = [call EXCEPT ![p] = "failed"]
      BY <2>1 DEF Send, Refuse, SetModel, TurnFails, history, bounds
    <3>2. \A q \in Prompts \ {p} : call'[q] = call[q] /\ turn'[q] = turn[q]
      BY <1>t, <3>1
    <3>3. \/ call[p] \in {"sent", "failed"} /\ call'[p] \in {"failed", "ended"} /\ turn'[p] = turn[p]
          \/ call[p] \notin {"sent", "failed", "ended"} /\ call'[p] \in {"loading", "settingModel", "refused"}
      BY <1>t, <3>1
    <3>4. \A q \in Prompts : SeenMove(q)
      BY <3>2, <3>3 DEF SeenMove
    <3> QED
      BY <1>t, <3>1, <3>4, SeenStep
  <2>2. CASE Enqueue(p) \/ StartDequeued(p)
    <3>1. /\ UNCHANGED <<cancelled, overlooked, reload, commands, evictions>>
          /\ visible \subseteq visible'
          /\ call[p] = "dequeued" \/ (call[p] = "loading" /\ p \in visible')
          /\ \E stage \in {"queued", "sent"} : call' = [call EXCEPT ![p] = stage]
          /\ turn' = turn \/ turn' = [turn EXCEPT ![p] = generation + 1]
          /\ generation' \in {generation, generation + 1}
      BY <2>2 DEF Enqueue, StartDequeued, StartTurn, history, bounds
    <3>2. /\ \A q \in Prompts \ {p} : call'[q] = call[q] /\ turn'[q] = turn[q]
          /\ generation <= generation' /\ generation' \in Nat
      BY <1>t, <3>1
    <3>3. \A q \in Prompts : SeenMove(q)
      BY <3>1, <3>2 DEF SeenMove
    <3> QED
      BY <3>1, <3>2, <3>3, SeenStep
  <2>3. CASE Start(p)
    <3>1. CASE StartTurn(call, p) /\ visible' = visible \cup {p} /\ UNCHANGED <<queue, evictions>>
      <4>1. /\ UNCHANGED <<cancelled, overlooked, reload, commands, evictions>>
            /\ visible \subseteq visible'
            /\ call[p] \in {"loading", "settingModel"} /\ p \in visible'
            /\ call' = [call EXCEPT ![p] = "sent"]
            /\ turn' = [turn EXCEPT ![p] = generation + 1] /\ generation' = generation + 1
        BY <2>3, <3>1 DEF Start, StartTurn, history
      <4>2. /\ \A q \in Prompts \ {p} : call'[q] = call[q] /\ turn'[q] = turn[q]
            /\ generation <= generation' /\ generation' \in Nat
        BY <1>t, <4>1
      <4>3. \A q \in Prompts : SeenMove(q)
        BY <4>1, <4>2 DEF SeenMove
      <4> QED
        BY <4>1, <4>2, <4>3, SeenStep
    <3>2. CASE evictions' = evictions + 1
      <4>1. evictions' # 0
        BY <1>t, <3>2
      <4> QED
        BY <4>1 DEF SeenInv, WaitingIsShown, CancelledIsPast, Undisturbed
    <3> QED
      BY <2>3, <3>1, <3>2 DEF Start, StartFresh
  <2>4. CASE TurnEnds(p)
    <3>1. /\ call[p] \in {"sent", "failed"}
          /\ UNCHANGED <<visible, cancelled, overlooked, reload, commands, evictions>>
      BY <2>4 DEF TurnEnds, history, bounds
    <3>2. CASE RunNextQueued([call EXCEPT ![p] = "ended"], FALSE)
      BY <3>1, <3>2, RunNextSeen
    <3>3. CASE call' = [call EXCEPT ![p] = "ended"] /\ UNCHANGED <<queue, active, generation, turn>>
      <4>1. /\ \A q \in Prompts \ {p} : call'[q] = call[q] /\ turn'[q] = turn[q]
            /\ call'[p] = "ended" /\ turn'[p] = turn[p]
        BY <1>t, <3>3
      <4>2. \A q \in Prompts : SeenMove(q)
        BY <3>1, <4>1 DEF SeenMove
      <4> QED
        BY <1>t, <3>1, <3>3, <4>2, SeenStep
    <3> QED
      BY <2>4, <3>2, <3>3 DEF TurnEnds
  <2>5. CASE DequeueRefused(p)
    BY <2>5, RunNextSeen DEF DequeueRefused, history, bounds
  <2> QED
    BY <1>1, <2>1, <2>2, <2>3, <2>4, <2>5 DEF Progress
<1>2. CASE Abort
  <2>1. /\ generation' = generation + 1 /\ cancelled' = cancelled \cup InFlight
        /\ visible' = visible \ ToSet(queue)
        /\ UNCHANGED <<turn, overlooked, reload, commands, evictions>>
        /\ \A p \in Prompts : call'[p] = IF call[p] = "queued" THEN "dropped" ELSE call[p]
    BY <1>2 DEF Abort
  <2>2. WaitingIsShown'
    <3> SUFFICES ASSUME Undisturbed, NEW p \in Prompts,
                        call'[p] \in {"queued", "dequeued", "sent", "failed"}
                 PROVE  p \in Shown'
      BY <2>1 DEF WaitingIsShown, Waits, Undisturbed
    <3>1. call[p] = call'[p] /\ call[p] # "queued"
      BY <2>1
    <3>2. p \in Shown /\ p \notin ToSet(queue)
      BY <3>1 DEF SeenInv, WaitingIsShown, Waits, TypeOK
    <3> QED
      BY <2>1, <3>2 DEF Shown
  <2>3. CancelledIsPast'
    <3> SUFFICES ASSUME evictions = 0, NEW p \in cancelled \cup InFlight
                 PROVE  call'[p] \in {"sent", "failed", "ended"} /\ turn[p] < generation + 1
      BY <2>1 DEF CancelledIsPast
    <3>1. p \in Prompts /\ turn[p] \in Nat /\ turn[p] <= generation
      BY DEF TypeOK, InFlight, TurnInv, GenerationsAreUnique
    <3>2. call[p] \in {"sent", "failed", "ended"}
      BY DEF InFlight, SeenInv, CancelledIsPast
    <3> QED
      BY <1>t, <2>1, <3>1, <3>2
  <2> QED
    BY <2>2, <2>3 DEF SeenInv
<1>3. CASE ActionStarts \/ RenameStarts \/ CommandEnds
  <2>1. commands' # 0 /\ UNCHANGED <<call, generation, turn, cancelled, evictions>>
    <3>1. CASE ActionStarts \/ RenameStarts
      BY <1>t, <3>1 DEF ActionStarts, RenameStarts, history
    <3>2. CASE CommandEnds
      <4>1. /\ command # NoCommand
            /\ UNCHANGED <<call, generation, turn, cancelled, evictions, commands>>
        BY <3>2 DEF CommandEnds, ActionEnds, RenameEnds, NoCommand, bounds, history
      <4> QED
        BY <1>t, <4>1 DEF TurnInv, CommandIsCounted
    <3> QED
      BY <1>3, <3>1, <3>2
  <2> QED
    BY <2>1 DEF SeenInv, WaitingIsShown, CancelledIsPast, Undisturbed
<1>4. CASE Evict
  <2>1. evictions' # 0
    BY <1>t, <1>4 DEF Evict
  <2> QED
    BY <2>1 DEF SeenInv, WaitingIsShown, CancelledIsPast, Undisturbed
<1>5. CASE UNCHANGED vars
  BY <1>5 DEF vars, turnVars, history, bounds, SeenInv, WaitingIsShown, Waits, Shown,
              CancelledIsPast, Undisturbed
<1>6. CASE ReadJournal \/ Reloading
  <2>1. UNCHANGED <<call, queue, active, generation, turn, cancelled, commands, evictions>>
    BY <1>6, ReplaceTypes
  <2>2. Undisturbed => \A p \in Prompts : Waits(p) /\ p \in Shown => p \in Shown'
    BY <1>6, ReplacedIsShown
  <2>3. WaitingIsShown'
    BY <2>1, <2>2 DEF SeenInv, WaitingIsShown, Waits, Undisturbed
  <2> QED
    BY <2>1, <2>3 DEF SeenInv, CancelledIsPast
<1> QED
  BY <1>1, <1>2, <1>3, <1>4, <1>5, <1>6 DEF Next

(* Both hold in every reachable state. *)
THEOREM SeenInvariant == Spec => [](TypeOK /\ TurnInv /\ SeenInv)
<1>1. Init => SeenInv
  BY DEF Init, SeenInv, WaitingIsShown, Waits, CancelledIsPast
<1>2. TypeOK /\ TurnInv /\ SeenInv /\ [Next]_vars => SeenInv'
  BY NextSeen
<1> QED
  BY <1>1, <1>2, TurnInvariant, PTL DEF Spec

(* A prompt that waits, or that the agent works on, is in the transcript,  *)
(* unless it was cancelled or a read or a load overlooked it.              *)
THEOREM WaitingIsVisibleHolds == Spec => []WaitingIsVisible
<1>1. SeenInv => WaitingIsVisible
  BY DEF SeenInv, WaitingIsShown, WaitingIsVisible, Shown, NoReload
<1> QED
  BY <1>1, SeenInvariant, PTL

(* Only its own completion ends a turn. *)
LEMMA EndedByItself ==
    ASSUME TypeOK, NEW p \in InFlight, [Next]_vars, call'[p] = "ended"
    PROVE  TurnEnds(p)
<1>t. call \in [Prompts -> Calls] /\ p \in Prompts /\ call[p] \in {"sent", "failed"}
  BY DEF TypeOK, InFlight
<1>a. ASSUME NEW q \in Prompts \ {p}, NEW stage, call' = [call EXCEPT ![q] = stage]
      PROVE  FALSE
  BY <1>t, <1>a
<1>b. ASSUME NEW q \in Prompts \ {p}, NEW stage, NEW b,
             RunNextQueued([call EXCEPT ![q] = stage], b)
      PROVE  FALSE
  <2>1. CASE queue = <<>>
    BY <1>a, <1>b, <2>1 DEF RunNextQueued
  <2>2. CASE queue # <<>>
    <3>1. Head(queue) \in Prompts /\ call[Head(queue)] = "queued"
      BY <2>2, TailKeeps DEF TypeOK
    <3>2. PICK s \in {"sent", "dequeued"} :
             call' = [[call EXCEPT ![q] = stage] EXCEPT ![Head(queue)] = s]
      BY <1>b, <2>2 DEF RunNextQueued, StartTurn
    <3> QED
      BY <1>t, <3>1, <3>2
  <2> QED
    BY <2>1, <2>2
<1>1. ASSUME NEW q \in Prompts, Send(q) \/ Progress(q) PROVE TurnEnds(p)
  <2>1. CASE q = p
    BY <1>1, <1>t, <2>1
       DEF Send, Progress, Refuse, Enqueue, SetModel, Start, TurnFails, StartDequeued, DequeueRefused
  <2>2. CASE q # p
    BY <1>1, <1>a, <1>b, <2>2
       DEF Send, Progress, Refuse, Enqueue, SetModel, Start, StartFresh, StartTurn, TurnFails,
           TurnEnds, StartDequeued, DequeueRefused
  <2> QED
    BY <2>1, <2>2
<1>2. ASSUME \A m \in Prompts : call'[m] = call[m] \/ call'[m] = "dropped"
      PROVE  FALSE
  BY <1>2, <1>t
<1>3. CASE \/ Abort \/ ActionStarts \/ RenameStarts \/ CommandEnds \/ Evict
           \/ ReadJournal \/ Reloading \/ UNCHANGED vars
  <2>1. \A m \in Prompts : call'[m] = call[m] \/ call'[m] = "dropped"
    BY <1>3, ReplaceTypes DEF Abort, ActionStarts, RenameStarts, CommandEnds, ActionEnds, RenameEnds, Evict,
                vars, turnVars
  <2> QED
    BY <1>2, <2>1
<1> QED
  BY <1>1, <1>3 DEF Next

(* The late completion of a turn that an abort cancelled leaves the busy   *)
(* flag, the queue and the generation of the turn that runs now alone.     *)
THEOREM StaleTurnsAreInertHolds == Spec => StaleTurnsAreInert
<1> DEFINE Inert == \A p \in InFlight \cap cancelled :
                       evictions' = 0 /\ call'[p] = "ended" => UNCHANGED <<active, queue, generation>>
<1>1. TypeOK /\ TurnInv /\ SeenInv /\ [Next]_vars => Inert
  <2> SUFFICES ASSUME TypeOK, SeenInv, [Next]_vars, NEW p \in InFlight \cap cancelled,
                      evictions' = 0, call'[p] = "ended"
               PROVE  UNCHANGED <<active, queue, generation>>
    OBVIOUS
  <2>1. TurnEnds(p)
    BY EndedByItself
  <2>2. turn[p] # generation
    <3>1. evictions = 0
      BY <2>1 DEF TurnEnds, bounds
    <3> QED
      BY <3>1 DEF SeenInv, CancelledIsPast, TypeOK
  <2> QED
    BY <2>1, <2>2 DEF TurnEnds
<1> QED
  BY <1>1, SeenInvariant, PTL DEF Spec, StaleTurnsAreInert

-----------------------------------------------------------------------------
(***************************************************************************)
(* The loads of such a session: SessionLoads, whose state is its own.      *)
(***************************************************************************)

(* session/load is under way. *)
ReplayStages == {"replaying", "settling"}

(* What the steps tell apart of the profiles. *)
HarnessTypes ==
    /\ harness \in Profiles /\ claims \in BOOLEAN
    /\ past \subseteq History /\ past \subseteq Messages
    /\ harness.journal \in BOOLEAN
    /\ harness.seeds => harness.journal
    /\ harness.authoritative => harness.journal

FlagTypes ==
    /\ loaded \in BOOLEAN /\ opened \in BOOLEAN /\ owned \in BOOLEAN /\ adopted \in BOOLEAN
    /\ took \in BOOLEAN /\ replaying \in BOOLEAN /\ saved \in BOOLEAN /\ dirty \in BOOLEAN
    /\ mishap \in Mishaps
    /\ turnNow \in {"none", "live", "over"}
    /\ restore \in {"unread", "read"} \cup Callers
    /\ writer \in {"idle", "starting", "writing"}

TextTypes ==
    /\ stored \subseteq Messages /\ mem \subseteq Messages /\ spoken \subseteq Messages
    /\ file \subseteq Messages /\ outgoing \subseteq Messages

FlightTypes ==
    /\ current \in Callers \cup {None}
    /\ callAt \in [Callers -> Stages]
    /\ awaits \in [Callers -> Callers \cup {None}]
    /\ previous \in [Callers -> SUBSET Messages]
    /\ toReplay \in [Callers -> SUBSET Messages]

(* What LoadsTypeOK says, in the parts that steps keep one by one. *)
LoadTypes == HarnessTypes /\ FlagTypes /\ TextTypes /\ FlightTypes

(* One load at a time, and how far it is. *)
OneLoad ==
    /\ \A c \in Callers : callAt[c] \in Loading => c = current
    /\ current # None => restore # "unread"
    /\ \A c \in Callers : callAt[c] = "restored" => restore # "unread"

ReplayMarked ==
    /\ replaying => current # None /\ callAt[current] \in ReplayStages
    /\ \A c \in Callers : callAt[c] \in ReplayStages => replaying
    /\ \A c \in Callers : toReplay[c] # {} => callAt[c] \in ReplayStages

(* What calls do of a Session without a journal, or of any but PI's. *)
HarnessWays ==
    /\ ~harness.journal =>
        /\ ~adopted
        /\ \A c \in Callers : callAt[c] \notin {"journal", "resuming", "settling"}
    /\ ~harness.authoritative => \A c \in Callers : callAt[c] # "pi"

FlightInv == OneLoad /\ ReplayMarked /\ HarnessWays /\ past \subseteq stored

(* The mark goes with the writer; what seeds from the journal is never     *)
(* saved; a Session that counts as loaded although its snapshot was not    *)
(* read was created here, or is being written.                             *)
SavedInv ==
    /\ writer = "idle" => ~dirty
    /\ harness.seeds => file = {} /\ outgoing = {}
    /\ ~harness.authoritative /\ loaded =>
          /\ restore = "unread" => past = {}
          /\ restore \in Callers => past = {} \/ writer # "idle"

(* With a journal: what it said before is in the transcript, or was put    *)
(* aside for as long as the transcript is blank.                           *)
JournalInv ==
    harness.journal =>
        /\ ~replaying /\ (loaded \/ (harness.seeds /\ (mem # {} \/ turnNow # "none"))) => past \subseteq mem
        /\ \A c \in Callers : callAt[c] \in {"resuming"} \cup ReplayStages => past \subseteq previous[c]
        /\ \A c \in Callers : harness.seeds /\ callAt[c] = "journal" /\ previous[c] # {}
             => past \subseteq previous[c]
        /\ \A c \in Callers : callAt[c] = "resuming" => past \subseteq mem

(* What the Session will show: during a replay, what was put aside is     *)
(* merged into it at the end.                                              *)
WillShow == IF replaying THEN mem \cup previous[current] ELSE mem

(* The transcript in memory is the newest there is: no file is left that   *)
(* is still to be read, or a created Session was never evicted.            *)
Tracked == restore = "read" \/ ~saved \/ (restore = "unread" /\ loaded)

InTurns == past \cup spoken

(* Without one: all that was said is in the transcript, or put aside, or   *)
(* in the file of a snapshot that is still to be read; and the file is     *)
(* behind only while a write is under way or to come.                      *)
StreamInv ==
    ~harness.journal =>
        /\ ~saved => file = {}
        /\ ~saved /\ writer = "idle" => turnNow = "none" /\ (~replaying => mem = {})
        /\ restore = "unread" /\ ~loaded => mem = {} /\ turnNow = "none" /\ writer = "idle"
        /\ \A c \in Callers : callAt[c] = "replaying" => past \subseteq mem \cup toReplay[c]
        /\ Tracked => spoken \subseteq WillShow
        /\ Tracked /\ loaded /\ ~replaying => past \subseteq mem
        /\ Tracked /\ turnNow # "live" /\ ~replaying =>
              /\ writer = "idle" => file \cap InTurns = mem \cap InTurns
              /\ writer = "writing" /\ ~dirty => outgoing \cap InTurns = mem \cap InTurns
        /\ ~Tracked /\ turnNow # "live" /\ writer = "idle" => spoken \subseteq file

(* Nothing is claimed once a load, a read or a write has failed, and only  *)
(* that loads come one at a time once a snapshot was read too late.        *)
LoadsInv ==
    /\ LoadTypes
    /\ mishap # "refused" => FlightInv
    /\ mishap = "none" => SavedInv /\ JournalInv /\ StreamInv

(* Something that is left to replay is replayed. *)
LEMMA FirstIsReplayed ==
    ASSUME NEW S \in SUBSET Messages, S # {}
    PROVE  First(S) \in S
<1>1. Place["m"] = 1 /\ Place["p"] = 2 /\ Place["r"] = 3
  BY DEF Place
<1>2. \E m \in S : \A n \in S : Place[m] <= Place[n]
  <2>0. \A n \in S : n \in {"m", "p", "r"} /\ Place[n] \in {1, 2, 3}
    BY <1>1 DEF Messages, History
  <2>1. CASE "m" \in S
    <3>1. \A n \in S : Place["m"] <= Place[n]
      BY <1>1, <2>0
    <3> QED
      BY <2>1, <3>1
  <2>2. CASE "m" \notin S /\ "p" \in S
    <3>1. \A n \in S : Place["p"] <= Place[n]
      BY <1>1, <2>0, <2>2
    <3> QED
      BY <2>2, <3>1
  <2>3. CASE "m" \notin S /\ "p" \notin S
    BY <1>1, <2>0, <2>3
  <2> QED
    BY <2>1, <2>2, <2>3
<1> QED
  BY <1>2 DEF First

(* The names of calls are no marks, and a call is of one kind. *)
LEMMA Marks ==
    /\ None \notin Callers /\ "unread" \notin Callers /\ "read" \notin Callers
    /\ Readers \subseteq Callers /\ Openers \subseteq Callers /\ Prompters \subseteq Callers
    /\ Readers \cap Openers = {} /\ Readers \cap Prompters = {} /\ Openers \cap Prompters = {}
BY LoadsAssumption DEF Callers

-----------------------------------------------------------------------------
(* What calls and loads do, as far as the invariant looks at it. *)

(* The snapshot is not touched, or is marked to be written. *)
Snapshots ==
    /\ UNCHANGED <<saved, file, outgoing>>
    /\ \/ UNCHANGED <<writer, dirty>>
       \/ dirty' = TRUE /\ writer' = IF writer = "idle" THEN "starting" ELSE writer

(* The transcript becomes this one, with the prompt in it if one returns.  *)
Becomes(transcript) ==
    \/ mem' = transcript /\ UNCHANGED dialog
    \/ mem' = transcript \cup {"p"} /\ turnNow' = "live" /\ spoken' = spoken \cup {"p"} /\ dirty' = TRUE

(* c waits, loads, or is through without a load. *)
Joins(c) ==
    /\ current # None
    /\ callAt' = [callAt EXCEPT ![c] = "waiting"]
    /\ UNCHANGED <<current, restore, mem, dialog>>

BeginsLoad(c) ==
    /\ current = None /\ current' = c
    /\ callAt' = [callAt EXCEPT ![c] = "preparing"]
    /\ restore' = IF restore = "unread" THEN c ELSE restore
    /\ UNCHANGED <<mem, dialog>>

Passes(c) ==
    /\ callAt' = [callAt EXCEPT ![c] = "done"]
    /\ loaded /\ Becomes(mem)
    /\ UNCHANGED <<current, restore>>

(* The load of c ends well with this transcript: one of the calls that     *)
(* waited for it may begin its own, and is the one in #loads.              *)
HandsOver ==
    /\ callAt' \in [Callers -> Stages]
    /\ \A d \in Callers : /\ callAt'[d] \in Loading => callAt'[d] = "preparing" /\ d = current'
                          /\ callAt'[d] \in {"restored", "pi"} => callAt'[d] = callAt[d]
    /\ current' \in Callers \cup {None}

LoadEnds(c, transcript) ==
    /\ HandsOver
    /\ Becomes(transcript)
    /\ adopted' \in {adopted, FALSE}
    /\ loaded' = TRUE
    /\ dirty' = TRUE /\ writer' = IF writer = "idle" THEN "starting" ELSE writer
    /\ previous' = [previous EXCEPT ![c] = {}]
    /\ toReplay' = [toReplay EXCEPT ![c] = {}]
    /\ UNCHANGED <<restore, saved, file, outgoing, mishap>>

LEMMA SucceedIs ==
    ASSUME LoadTypes, FlightInv, NEW c \in Callers, NEW transcript, NEW mine,
           callAt[c] \in Loading, Succeed(c, transcript, mine)
    PROVE  LoadEnds(c, transcript)
<1> DEFINE served == {c} \cup {w \in Waiters(c) : Requires(c) \/ ~Requires(w)}
           left == Waiters(c) \ served
<1>1. /\ HandOver(c, served, "done", left, FALSE)
      /\ Return(served, transcript, mine) /\ Persist /\ loaded' = TRUE
      /\ previous' = [previous EXCEPT ![c] = {}] /\ toReplay' = [toReplay EXCEPT ![c] = {}]
      /\ UNCHANGED <<restore, mishap>>
  BY DEF Succeed
<1>2. c = current /\ \A d \in Callers \ {c} : callAt[d] \notin Loading
  BY DEF FlightInv, OneLoad
<1>3. c \in served /\ served \subseteq Callers /\ left \subseteq Callers
  BY DEF Waiters
<1> HIDE DEF served, left
<1>4. HandsOver
  <2>1. CASE /\ callAt' = Settle(callAt, served, "done")
             /\ current' = IF current = c THEN None ELSE current
    BY <1>2, <1>3, <2>1 DEF Settle, LoadTypes, FlightTypes, Stages, Loading, HandsOver
  <2>2. ASSUME NEW next \in left,
               callAt' = Settle([callAt EXCEPT ![next] = "preparing"], served, "done"),
               current' = next
        PROVE  HandsOver
    BY <1>2, <1>3, <2>2 DEF Settle, LoadTypes, FlightTypes, Stages, Loading, HandsOver
  <2> QED
    BY <1>1, <2>1, <2>2 DEF HandOver
<1>5. adopted' \in {adopted, FALSE}
  BY <1>1 DEF Return, LoadTypes, FlagTypes
<1>6. Becomes(transcript)
  BY <1>1 DEF Return, Becomes, Persist, dialog
<1> QED
  BY <1>1, <1>4, <1>5, <1>6 DEF LoadEnds, Persist

(* A call that is not loading goes on: it returns at once, waits for the   *)
(* load under way, or begins one.                                          *)
GoesOn(c) == Joins(c) \/ BeginsLoad(c) \/ Passes(c)

LEMMA LoadOrJoinIs ==
    ASSUME LoadTypes, NEW c \in Callers, LoadOrJoin(c)
    PROVE  (Joins(c) \/ BeginsLoad(c)) /\ Snapshots /\ UNCHANGED <<adopted, previous, toReplay>>
BY DEF LoadOrJoin, Join, Begin, Joins, BeginsLoad, Snapshots, disk

LEMMA NothingToLoadIs ==
    ASSUME LoadTypes, NEW c \in Callers, NothingToLoad(c), loaded
    PROVE  /\ Passes(c) /\ Snapshots /\ UNCHANGED <<previous, toReplay>>
           /\ adopted' \in {adopted, FALSE}
<1>1. CASE c \in Prompters
  BY <1>1 DEF NothingToLoad, Return, Prompted, Persist, Passes, Becomes,
     Snapshots, dialog, disk, LoadTypes, FlagTypes
<1>2. CASE c \notin Prompters
  BY <1>2 DEF NothingToLoad, Return, Prompted, Persist, Passes, Becomes,
     Snapshots, dialog, disk, LoadTypes, FlagTypes
<1> QED
  BY <1>1, <1>2

(* What Read, Claim, Catalog and Prompt do. *)
Asked(c) ==
    /\ callAt[c] \in {"idle", "restored"}
    /\ UNCHANGED <<harness, past, stored, replaying, previous, toReplay, mishap>>
    /\ adopted' \in {adopted, FALSE}
    /\ \/ GoesOn(c) /\ loaded' = loaded /\ Snapshots
       \/ harness.journal /\ (Joins(c) \/ BeginsLoad(c)) /\ loaded' = FALSE /\ Snapshots
       \/ /\ harness.authoritative /\ callAt' = [callAt EXCEPT ![c] = "pi"]
          /\ UNCHANGED <<mem, dialog, loaded, current, snapshot>>
       \/ /\ restore # "unread" /\ callAt' = [callAt EXCEPT ![c] = "done"] /\ Snapshots
          /\ UNCHANGED <<mem, dialog, loaded, current, restore>>

LEMMA AskedIs ==
    ASSUME LoadTypes, FlightInv, NEW c \in Callers,
           Read(c) \/ Claim(c) \/ Catalog(c) \/ Prompt(c)
    PROVE  Asked(c)
<1> USE DEF Asked, GoesOn
<1>1. CASE Read(c)
  <2>1. callAt[c] \in {"idle", "restored"} /\ UNCHANGED <<harness, past, stored, replaying, mishap, loaded>>
    BY <1>1 DEF Read, Restored, given
  <2>2. CASE harness.authoritative
    BY <1>1, <2>1, <2>2 DEF Read, snapshot
  <2>3. CASE ~harness.authoritative /\ loaded /\ ~JournalBacked
    BY <1>1, <2>1, <2>3, NothingToLoadIs DEF Read
  <2>4. CASE ~harness.authoritative /\ ~(loaded /\ ~JournalBacked)
    BY <1>1, <2>1, <2>4, LoadOrJoinIs DEF Read
  <2> QED
    BY <2>2, <2>3, <2>4
<1>2. CASE Claim(c)
  <2>1. /\ callAt[c] \in {"idle", "restored"} /\ restore # "unread"
        /\ UNCHANGED <<harness, past, stored, replaying, mishap, loaded>>
    BY <1>2 DEF Claim, Restored, given, FlightInv, OneLoad
  <2>2. CASE (owned \/ opened) /\ ~adopted
    BY <1>2, <2>1, <2>2 DEF Claim, Snapshots, Persist, disk
  <2>3. CASE ~((owned \/ opened) /\ ~adopted)
    BY <1>2, <2>1, <2>3, LoadOrJoinIs DEF Claim
  <2> QED
    BY <2>2, <2>3
<1>3. CASE Catalog(c)
  BY <1>3, LoadOrJoinIs DEF Catalog, given
<1>4. CASE Prompt(c)
  <2>1. callAt[c] \in {"idle", "restored"} /\ UNCHANGED <<harness, past, stored, replaying, mishap>>
    BY <1>4 DEF Prompt, given
  <2>2. CASE harness.journal /\ ~owned
    BY <1>4, <2>1, <2>2 DEF Prompt, Join, Begin, Joins, BeginsLoad, Snapshots, disk
  <2>3. CASE ~(harness.journal /\ ~owned) /\ loaded
    BY <1>4, <2>1, <2>3, NothingToLoadIs DEF Prompt
  <2>4. CASE ~(harness.journal /\ ~owned) /\ ~loaded
    BY <1>4, <2>1, <2>4, LoadOrJoinIs DEF Prompt
  <2> QED
    BY <2>2, <2>3, <2>4
<1> QED
  BY <1>1, <1>2, <1>3, <1>4

(* A step of the load of c that is not its end. *)
Blanks(c) ==
    /\ callAt' = [callAt EXCEPT ![c] = "replaying"]
    /\ mem' = {} /\ replaying' = TRUE
    /\ toReplay' = [toReplay EXCEPT ![c] = stored]

Proceeds(c) ==
    /\ UNCHANGED <<harness, past, stored, loaded, adopted, dialog, current, snapshot, mishap>>
    /\ \/ /\ callAt[c] = "preparing" /\ restore # c
          /\ previous' = [previous EXCEPT ![c] = mem]
          /\ \/ /\ harness.journal /\ callAt' = [callAt EXCEPT ![c] = "journal"]
                /\ UNCHANGED <<mem, replaying, toReplay>>
             \/ ~harness.journal /\ Blanks(c)
       \/ /\ callAt[c] = "journal" /\ harness.journal
          /\ \E transcript \in {stored \cup previous[c], stored, previous[c]} :
                /\ JournalInv => past \subseteq transcript
                /\ previous' = [previous EXCEPT ![c] = transcript]
                /\ \/ Blanks(c)
                   \/ /\ mem' = transcript /\ callAt' = [callAt EXCEPT ![c] = "resuming"]
                      /\ UNCHANGED <<replaying, toReplay>>
       \/ /\ harness.authoritative /\ callAt[c] = "replaying"
          /\ callAt' = [callAt EXCEPT ![c] = "settling"]
          /\ UNCHANGED <<mem, replaying, previous, toReplay>>

(* The end of the load of c, from each of the ways that lead there. *)
Ends(c) ==
    /\ UNCHANGED <<harness, past, stored>>
    /\ \/ /\ callAt[c] \in {"journal", "resuming"} /\ harness.journal /\ UNCHANGED replaying
          /\ \E transcript \in {stored \cup previous[c], stored, mem} :
                (JournalInv => past \subseteq transcript) /\ LoadEnds(c, transcript)
       \/ /\ callAt[c] \in ReplayStages /\ replaying' = FALSE
          /\ LoadEnds(c, previous[c] \cup mem)
          /\ ~harness.journal => toReplay[c] = {}

LEMMA LoadStepIs ==
    ASSUME LoadTypes, FlightInv, NEW c \in Callers, mishap' # "refused",
           Prepared(c) \/ JournalRead(c) \/ JournalUnread(c) \/ Resumed(c) \/ ResumeRefused(c)
           \/ LoadAnswered(c) \/ ReplaySettled(c) \/ LoadRefused(c)
    PROVE  Proceeds(c) \/ Ends(c)
<1>1. CASE Prepared(c)
  BY <1>1 DEF Prepared, Proceeds, Blank, Blanks, given, session, LoadTypes,
     HarnessTypes
<1>2. CASE JournalRead(c)
  <2> DEFINE seed == JournalBacked \/ ~opened \/ previous[c] = {}
             transcript == IF ~harness.seeds THEN stored \cup previous[c]
                           ELSE IF seed THEN stored ELSE previous[c]
  <2>1. /\ callAt[c] = "journal" /\ harness.journal /\ UNCHANGED <<harness, past, stored>>
        /\ IF JournalBacked /\ ~Requires(c)
           THEN Succeed(c, transcript, owned) /\ UNCHANGED <<opened, replaying>>
           ELSE AskAdapter(c, transcript) /\ UNCHANGED mishap
    BY <1>2 DEF JournalRead, given, FlightInv, HarnessWays
  <2>2. /\ JournalInv => past \subseteq transcript
        /\ transcript \in {stored \cup previous[c], stored, previous[c]}
    BY <2>1 DEF FlightInv, JournalInv
  <2>3. JournalBacked => transcript \in {stored \cup previous[c], stored}
    OBVIOUS
  <2> HIDE DEF transcript
  <2>4. CASE JournalBacked /\ ~Requires(c)
    <3>1. callAt[c] \in Loading
      BY <2>1 DEF Loading
    <3>2. LoadEnds(c, transcript)
      BY <2>1, <2>4, <3>1, SucceedIs
    <3> QED
      BY <2>1, <2>2, <2>3, <2>4, <3>2 DEF Ends
  <2>5. CASE ~(JournalBacked /\ ~Requires(c))
    <3>1. AskAdapter(c, transcript) /\ UNCHANGED mishap
      BY <2>1, <2>5
    <3>2. /\ UNCHANGED <<loaded, adopted, dialog, current, snapshot>>
          /\ previous' = [previous EXCEPT ![c] = transcript]
          /\ \/ Blanks(c)
             \/ /\ mem' = transcript /\ callAt' = [callAt EXCEPT ![c] = "resuming"]
                /\ UNCHANGED <<replaying, toReplay>>
      BY <3>1 DEF AskAdapter, Blank, Blanks
    <3> QED
      BY <2>1, <2>2, <3>1, <3>2 DEF Proceeds
  <2> QED
    BY <2>4, <2>5
<1>3. CASE Resumed(c)
  <2>1. /\ callAt[c] \in Loading /\ harness.journal /\ (JournalInv => past \subseteq mem)
        /\ UNCHANGED <<harness, past, stored, replaying>>
    BY <1>3 DEF Resumed, Loading, FlightInv, HarnessWays, JournalInv, given
  <2>2. LoadEnds(c, mem)
    BY <1>3, <2>1, SucceedIs DEF Resumed
  <2> QED
    BY <1>3, <2>1, <2>2 DEF Ends, Resumed
<1>4. CASE LoadAnswered(c) /\ harness.authoritative
  BY <1>4 DEF LoadAnswered, Proceeds, given, dialog, snapshot
<1>5. CASE (LoadAnswered(c) /\ ~harness.authoritative) \/ ReplaySettled(c)
  <2>1. /\ callAt[c] \in ReplayStages /\ callAt[c] \in Loading /\ replaying' = FALSE
        /\ UNCHANGED <<harness, past, stored>>
        /\ Succeed(c, Merged(c), owned)
    BY <1>5 DEF LoadAnswered, ReplaySettled, ReplayStages, Loading, given
  <2>2. LoadEnds(c, previous[c] \cup mem)
    BY <2>1, SucceedIs DEF Merged
  <2>3. ~harness.journal => toReplay[c] = {}
    BY <1>5 DEF LoadAnswered, ReplaySettled, FlightInv, HarnessWays
  <2> QED
    BY <2>1, <2>2, <2>3 DEF Ends
<1>6. CASE JournalUnread(c) \/ ResumeRefused(c) \/ LoadRefused(c)
  BY <1>6 DEF JournalUnread, ResumeRefused, LoadRefused, RefuseLoad
<1> QED
  BY <1>1, <1>2, <1>3, <1>4, <1>5, <1>6

-----------------------------------------------------------------------------
(* Types. *)

LEMMA HandOverTypes ==
    ASSUME FlightTypes, NEW c \in Callers, NEW out \in SUBSET Callers, NEW to \in Stages,
           NEW left \in SUBSET Callers, NEW each, HandOver(c, out, to, left, each)
    PROVE  /\ callAt' \in [Callers -> Stages] /\ awaits' \in [Callers -> Callers \cup {None}]
           /\ current' \in Callers \cup {None}
BY DEF HandOver, Settle, FlightTypes, Stages, Loading

LEMMA HarnessKept ==
    ASSUME HarnessTypes, UNCHANGED given
    PROVE  HarnessTypes'
BY DEF HarnessTypes, given

LEMMA ReturnTypes ==
    ASSUME FlagTypes, TextTypes, NEW S \in SUBSET Callers, NEW transcript \in SUBSET Messages,
           NEW mine \in BOOLEAN,
           Return(S, transcript, mine)
    PROVE  /\ mem' \subseteq Messages /\ spoken' \subseteq Messages
           /\ turnNow' \in {"none", "live", "over"}
           /\ owned' \in BOOLEAN /\ adopted' \in BOOLEAN /\ took' \in BOOLEAN
<1>1. mem' \subseteq Messages /\ spoken' \subseteq Messages
  BY DEF Return, TextTypes, Messages, disk
<1>2. turnNow' \in {"none", "live", "over"}
  BY DEF Return, FlagTypes, disk, Mishaps, Overtaken
<1>3. Claimed(S) \in BOOLEAN /\ Prompted(S) \in BOOLEAN
  BY DEF Claimed, Prompted
<1> HIDE DEF Claimed, Prompted
<1>4. owned' \in BOOLEAN /\ adopted' \in BOOLEAN /\ took' \in BOOLEAN
  BY <1>3 DEF Return, FlagTypes, disk, Mishaps, Overtaken
<1> QED
  BY <1>1, <1>2, <1>4

LEMMA PersistTypes ==
    ASSUME FlagTypes, TextTypes, Persist
    PROVE  /\ saved' \in BOOLEAN /\ dirty' \in BOOLEAN /\ writer' \in {"idle", "starting", "writing"}
           /\ file' \subseteq Messages /\ outgoing' \subseteq Messages
BY DEF Persist, FlagTypes, TextTypes

LEMMA SucceedTypes ==
    ASSUME LoadTypes, NEW c \in Callers, NEW transcript \in SUBSET Messages,
           NEW mine \in BOOLEAN,
           Succeed(c, transcript, mine), opened' \in BOOLEAN, replaying' \in BOOLEAN,
           UNCHANGED <<given, stored>>
    PROVE  LoadTypes'
<1> DEFINE served == {c} \cup {w \in Waiters(c) : Requires(c) \/ ~Requires(w)}
           left == Waiters(c) \ served
<1>0. HarnessTypes /\ FlagTypes /\ TextTypes /\ FlightTypes
  BY DEF LoadTypes
<1>1. /\ HandOver(c, served, "done", left, FALSE)
      /\ Return(served, transcript, mine) /\ Persist /\ loaded' = TRUE
      /\ previous' = [previous EXCEPT ![c] = {}] /\ toReplay' = [toReplay EXCEPT ![c] = {}]
      /\ UNCHANGED <<restore, mishap>>
  BY DEF Succeed
<1>2. served \in SUBSET Callers /\ left \in SUBSET Callers /\ "done" \in Stages
  BY DEF Waiters, Stages
<1> HIDE DEF served, left
<1>3. FlightTypes'
  BY <1>0, <1>1, <1>2, HandOverTypes DEF FlightTypes
<1>4. TextTypes'
  BY <1>0, <1>1, <1>2, ReturnTypes, PersistTypes DEF TextTypes, disk
<1>5. FlagTypes'
  BY <1>0, <1>1, <1>2, ReturnTypes, PersistTypes DEF FlagTypes, disk, Mishaps, Overtaken
<1> QED
  BY <1>0, <1>3, <1>4, <1>5, HarnessKept DEF LoadTypes

LEMMA RefuseTypes ==
    ASSUME LoadTypes, NEW c \in Callers, NEW transcript \in SUBSET Messages,
           RefuseLoad(c, transcript), replaying' \in BOOLEAN, UNCHANGED <<given, stored>>
    PROVE  LoadTypes'
<1> DEFINE out == {c} \cup {w \in Waiters(c) : Requires(w) = Requires(c)}
           left == Waiters(c) \ out
<1>0. HarnessTypes /\ FlagTypes /\ TextTypes /\ FlightTypes
  BY DEF LoadTypes
<1>1. /\ mishap' = "refused" /\ HandOver(c, out, "done", left, Requires(c)) /\ mem' = transcript
      /\ owned' = (owned /\ ~(Prompted(out) /\ took)) /\ took' = (took /\ ~Prompted(out))
      /\ previous' = [previous EXCEPT ![c] = {}] /\ toReplay' = [toReplay EXCEPT ![c] = {}]
      /\ UNCHANGED <<loaded, opened, adopted, dialog, snapshot>>
  BY DEF RefuseLoad
<1>2. out \in SUBSET Callers /\ left \in SUBSET Callers /\ "done" \in Stages
  BY DEF Waiters, Stages
<1> HIDE DEF out, left
<1>3. FlightTypes'
  BY <1>0, <1>1, <1>2, HandOverTypes DEF FlightTypes
<1>4. TextTypes'
  BY <1>0, <1>1 DEF TextTypes, dialog, snapshot, disk
<1>5. FlagTypes'
  BY <1>0, <1>1 DEF FlagTypes, dialog, snapshot, disk, Mishaps, Overtaken
<1> QED
  BY <1>0, <1>3, <1>4, <1>5, HarnessKept DEF LoadTypes

(* The parts of LoadTypes' are kept one by one. *)
LEMMA LoadCallTypes ==
    ASSUME LoadTypes, NEW c \in Callers,
           Restore(c) \/ Read(c) \/ Claim(c) \/ Catalog(c) \/ Prompt(c) \/ JournalRefused(c)
    PROVE  LoadTypes'
<1>0. HarnessTypes /\ FlagTypes /\ TextTypes /\ FlightTypes
  BY DEF LoadTypes
<1>h. HarnessTypes'
  BY <1>0, HarnessKept DEF Restore, Read, Claim, Catalog, Prompt,
     JournalRefused
<1>1. ASSUME LoadOrJoin(c), loaded' = loaded,
             UNCHANGED <<given, stored, opened, replaying>>, mishap' \in Mishaps
      PROVE  LoadTypes'
  <2>1. FlightTypes'
    BY <1>0, <1>1 DEF LoadOrJoin, Join, Begin, FlightTypes, Stages,
       Loading
  <2>2. TextTypes'
    BY <1>0, <1>1 DEF LoadOrJoin, TextTypes, dialog, disk
  <2>3. FlagTypes'
    BY <1>0, <1>1 DEF LoadOrJoin, Join, Begin, FlagTypes, dialog, disk, Mishaps, Overtaken
  <2> QED
    BY <1>h, <2>1, <2>2, <2>3 DEF LoadTypes
<1>2. ASSUME NothingToLoad(c), loaded' = loaded,
             UNCHANGED <<given, stored, opened, replaying>>, mishap' \in Mishaps
      PROVE  LoadTypes'
  <2>1. /\ Return({c}, mem, owned) /\ {c} \in SUBSET Callers /\ mem \in SUBSET Messages
        /\ owned \in BOOLEAN
    BY <1>0, <1>2 DEF NothingToLoad, TextTypes, FlagTypes, disk, Mishaps, Overtaken
  <2>2. FlightTypes'
    BY <1>0, <1>2 DEF NothingToLoad, FlightTypes, Stages, Loading
  <2>3. TextTypes'
    BY <1>0, <1>2, <2>1, ReturnTypes, PersistTypes DEF NothingToLoad, TextTypes, disk
  <2>4. FlagTypes'
    BY <1>0, <1>2, <2>1, ReturnTypes, PersistTypes DEF NothingToLoad, FlagTypes, disk, Mishaps, Overtaken
  <2> QED
    BY <1>h, <2>2, <2>3, <2>4 DEF LoadTypes
<1>3. CASE Restore(c)
  <2>1. FlightTypes'
    BY <1>0, <1>3 DEF Restore, FlightTypes, Stages, Loading
  <2>2. TextTypes' /\ FlagTypes'
    BY <1>0, <1>3 DEF Restore, TextTypes, FlagTypes, session, dialog, disk, Mishaps, Overtaken
  <2> QED
    BY <1>h, <2>1, <2>2 DEF LoadTypes
<1>4. CASE Read(c)
  <2>1. CASE harness.authoritative
    <3>1. FlightTypes'
      BY <1>0, <1>4, <2>1 DEF Read, FlightTypes, Stages, Loading
    <3>2. TextTypes' /\ FlagTypes'
      BY <1>0, <1>4, <2>1 DEF Read, TextTypes, FlagTypes, dialog, snapshot, disk, Mishaps, Overtaken
    <3> QED
      BY <1>h, <3>1, <3>2 DEF LoadTypes
  <2>2. CASE ~harness.authoritative
    BY <1>0, <1>1, <1>2, <1>4, <2>2 DEF Read, FlagTypes, disk, Mishaps, Overtaken
  <2> QED
    BY <2>1, <2>2
<1>5. CASE Claim(c)
  <2>1. CASE (owned \/ opened) /\ ~adopted
    <3>1. FlightTypes'
      BY <1>0, <1>5, <2>1 DEF Claim, FlightTypes, Stages, Loading
    <3>2. TextTypes'
      BY <1>0, <1>5, <2>1, PersistTypes DEF Claim, TextTypes, dialog, disk
    <3>3. FlagTypes'
      BY <1>0, <1>5, <2>1, PersistTypes DEF Claim, FlagTypes, dialog, disk, Mishaps, Overtaken
    <3> QED
      BY <1>h, <3>1, <3>2, <3>3 DEF LoadTypes
  <2>2. CASE ~((owned \/ opened) /\ ~adopted)
    BY <1>0, <1>1, <1>5, <2>2 DEF Claim, FlagTypes, disk, Mishaps, Overtaken
  <2> QED
    BY <2>1, <2>2
<1>6. CASE Catalog(c)
  BY <1>0, <1>1, <1>6 DEF Catalog, FlagTypes, disk, Mishaps, Overtaken
<1>7. CASE Prompt(c)
  <2>1. CASE harness.journal /\ ~owned
    <3>1. FlightTypes'
      BY <1>0, <1>7, <2>1 DEF Prompt, Join, Begin, FlightTypes, Stages,
         Loading
    <3>2. TextTypes' /\ FlagTypes'
      BY <1>0, <1>7, <2>1 DEF Prompt, Join, Begin, TextTypes, FlagTypes, dialog, disk, Mishaps, Overtaken
    <3> QED
      BY <1>h, <3>1, <3>2 DEF LoadTypes
  <2>2. CASE ~(harness.journal /\ ~owned)
    BY <1>0, <1>1, <1>2, <1>7, <2>2 DEF Prompt, FlagTypes, disk, Mishaps, Overtaken
  <2> QED
    BY <2>1, <2>2
<1>8. CASE JournalRefused(c)
  BY <1>1, <1>2, <1>8 DEF JournalRefused, Mishaps
<1> QED
  BY <1>3, <1>4, <1>5, <1>6, <1>7, <1>8

LEMMA LoadTypesStep ==
    ASSUME LoadTypes, NEW c \in Callers,
           Prepared(c) \/ JournalRead(c) \/ JournalUnread(c) \/ Resumed(c) \/ ResumeRefused(c)
           \/ LoadAnswered(c) \/ ReplaySettled(c) \/ LoadRefused(c)
    PROVE  LoadTypes'
<1>0. HarnessTypes /\ FlagTypes /\ TextTypes /\ FlightTypes
  BY DEF LoadTypes
<1>t. previous[c] \in SUBSET Messages /\ stored \in SUBSET Messages /\ mem \in SUBSET Messages
      /\ owned \in BOOLEAN /\ opened \in BOOLEAN /\ replaying \in BOOLEAN /\ mishap \in Mishaps
  BY <1>0 DEF FlagTypes, TextTypes, FlightTypes, disk, Mishaps, Overtaken
<1>b. ASSUME Blank(c)
      PROVE  mem' \subseteq Messages /\ callAt' \in [Callers -> Stages] /\ replaying' \in BOOLEAN
                            /\ toReplay' \in [Callers -> SUBSET Messages]
  BY <1>0, <1>b, <1>t DEF Blank, FlightTypes, Stages, Loading
<1>1. CASE Prepared(c)
  <2>1. FlightTypes'
    BY <1>0, <1>1, <1>b, <1>t DEF Prepared, FlightTypes, Stages, Loading
  <2>2. TextTypes' /\ FlagTypes'
    BY <1>0, <1>1, <1>b DEF Prepared, TextTypes, FlagTypes, session, dialog,
       snapshot, disk, Mishaps, Overtaken
  <2> QED
    BY <1>0, <1>1, <2>1, <2>2, HarnessKept DEF LoadTypes, Prepared
<1>2. ASSUME NEW transcript \in SUBSET Messages, AskAdapter(c, transcript), mishap' \in Mishaps,
             UNCHANGED <<given, stored>>
      PROVE  LoadTypes'
  <2>1. FlightTypes'
    BY <1>0, <1>2, <1>b DEF AskAdapter, FlightTypes, Stages, Loading
  <2>2. TextTypes' /\ FlagTypes'
    BY <1>0, <1>2, <1>b DEF AskAdapter, TextTypes, FlagTypes, dialog, snapshot, disk, Mishaps, Overtaken
  <2> QED
    BY <1>0, <1>2, <2>1, <2>2, HarnessKept DEF LoadTypes
<1>3. CASE JournalRead(c)
  <2> DEFINE seed == JournalBacked \/ ~opened \/ previous[c] = {}
             transcript == IF ~harness.seeds THEN stored \cup previous[c]
                           ELSE IF seed THEN stored ELSE previous[c]
  <2>1. /\ UNCHANGED <<given, stored>>
        /\ IF JournalBacked /\ ~Requires(c)
           THEN Succeed(c, transcript, owned) /\ UNCHANGED <<opened, replaying>>
           ELSE AskAdapter(c, transcript) /\ UNCHANGED mishap
    BY <1>3 DEF JournalRead
  <2>2. transcript \in SUBSET Messages
    BY <1>t
  <2> HIDE DEF transcript
  <2> QED
    BY <1>t, <1>2, <2>1, <2>2, SucceedTypes
<1>4. CASE JournalUnread(c)
  BY <1>t, <1>2, <1>4, RefuseTypes DEF JournalUnread, Mishaps
<1>5. CASE Resumed(c)
  BY <1>t, <1>5, SucceedTypes DEF Resumed
<1>6. CASE ResumeRefused(c)
  BY <1>t, <1>6, RefuseTypes DEF ResumeRefused
<1>7. CASE LoadAnswered(c) /\ harness.authoritative
  <2>1. FlightTypes'
    BY <1>0, <1>7 DEF LoadAnswered, FlightTypes, Stages, Loading
  <2>2. TextTypes' /\ FlagTypes'
    BY <1>0, <1>7 DEF LoadAnswered, TextTypes, FlagTypes, dialog, snapshot, disk, Mishaps, Overtaken
  <2> QED
    BY <1>0, <1>7, <2>1, <2>2, HarnessKept DEF LoadTypes, LoadAnswered
<1>8. CASE LoadAnswered(c) /\ ~harness.authoritative
  BY <1>t, <1>8, SucceedTypes DEF LoadAnswered, Merged
<1>9. CASE ReplaySettled(c)
  BY <1>t, <1>9, SucceedTypes DEF ReplaySettled, Merged
<1>10. CASE LoadRefused(c)
  BY <1>t, <1>10, RefuseTypes DEF LoadRefused
<1> QED
  BY <1>1, <1>3, <1>4, <1>5, <1>6, <1>7, <1>8, <1>9, <1>10

LEMMA OtherTypes ==
    ASSUME LoadTypes,
           \/ \E c \in Callers : SnapshotRead(c) \/ JournalShown(c) \/ Replay(c)
           \/ WriterTakes \/ WriteEnds \/ WriteFails
           \/ ReplyArrives \/ LateChunk \/ TurnIsOver \/ HarnessStores \/ EvictIdle
           \/ UNCHANGED loadsVars
    PROVE  LoadTypes'
<1>0. HarnessTypes /\ FlagTypes /\ TextTypes /\ FlightTypes
  BY DEF LoadTypes
<1>1. ASSUME NEW c \in Callers, SnapshotRead(c) PROVE LoadTypes'
  <2>1. FlightTypes'
    BY <1>0, <1>1 DEF SnapshotRead, FlightTypes, Stages, Loading
  <2>2. TextTypes' /\ FlagTypes'
    BY <1>0, <1>1 DEF SnapshotRead, TextTypes, FlagTypes, session, dialog, disk, Mishaps, Overtaken
  <2> QED
    BY <1>0, <1>1, <2>1, <2>2, HarnessKept DEF LoadTypes, SnapshotRead
<1>2. ASSUME NEW c \in Callers, JournalShown(c) PROVE LoadTypes'
  <2>1. FlightTypes'
    BY <1>0, <1>2 DEF JournalShown, FlightTypes, Stages, Loading
  <2>2. TextTypes' /\ FlagTypes'
    BY <1>0, <1>2, PersistTypes DEF JournalShown, TextTypes, FlagTypes, dialog, disk, Mishaps, Overtaken
  <2> QED
    BY <1>0, <1>2, <2>1, <2>2, HarnessKept DEF LoadTypes, JournalShown
<1>3. ASSUME NEW c \in Callers, Replay(c) PROVE LoadTypes'
  <2>1. First(toReplay[c]) \in Messages
    BY <1>0, <1>3, FirstIsReplayed DEF Replay, FlightTypes
  <2>2. FlightTypes'
    BY <1>0, <1>3 DEF Replay, FlightTypes
  <2>3. TextTypes' /\ FlagTypes'
    BY <1>0, <1>3, <2>1 DEF Replay, TextTypes, FlagTypes, session, dialog,
       snapshot, disk, Mishaps, Overtaken
  <2> QED
    BY <1>0, <1>3, <2>2, <2>3, HarnessKept DEF LoadTypes, Replay
<1>4. CASE WriterTakes \/ WriteEnds \/ WriteFails
  <2>1. UNCHANGED <<given, stored, mem, session, replaying, dialog, loads, restore>>
    BY <1>4 DEF WriterTakes, WriteEnds, WriteFails
  <2>2. FlightTypes'
    BY <1>0, <2>1 DEF FlightTypes, loads
  <2>3. Contents \subseteq Messages
    BY <1>0 DEF Contents, TextTypes, disk
  <2>4. TextTypes'
    BY <1>0, <1>4, <2>1, <2>3 DEF WriterTakes, WriteEnds, WriteFails, TextTypes,
       dialog, disk
  <2>5. /\ saved' \in BOOLEAN /\ dirty' \in BOOLEAN /\ writer' \in {"idle", "starting", "writing"}
        /\ mishap' \in Mishaps
    <3>1. CASE WriterTakes
      BY <1>0, <3>1 DEF WriterTakes, FlagTypes, disk, Mishaps, Overtaken
    <3>2. CASE WriteEnds
      BY <1>0, <3>2 DEF WriteEnds, FlagTypes, disk, Mishaps, Overtaken
    <3>3. CASE WriteFails
      BY <1>0, <3>3 DEF WriteFails, FlagTypes, disk, Mishaps, Overtaken
    <3> QED
      BY <1>4, <3>1, <3>2, <3>3
  <2>6. FlagTypes'
    BY <1>0, <2>1, <2>5 DEF FlagTypes, session, dialog, disk, Mishaps, Overtaken
  <2> QED
    BY <1>0, <2>1, <2>2, <2>4, <2>6, HarnessKept DEF LoadTypes
<1>5. CASE ReplyArrives \/ LateChunk \/ TurnIsOver \/ HarnessStores \/ EvictIdle
  <2>1. UNCHANGED <<given, loads>>
    BY <1>5 DEF ReplyArrives, LateChunk, TurnIsOver, HarnessStores, EvictIdle
  <2>2. FlightTypes'
    BY <1>0, <2>1 DEF FlightTypes, loads
  <2>3. TextTypes' /\ FlagTypes'
    <3>1. CASE ReplyArrives \/ LateChunk
      BY <1>0, <3>1 DEF ReplyArrives, LateChunk, TextTypes, FlagTypes, Messages, session,
         dialog, snapshot, disk, Mishaps, Overtaken
    <3>2. CASE TurnIsOver
      BY <1>0, <3>2, PersistTypes DEF TurnIsOver, TextTypes, FlagTypes, session, disk, Mishaps, Overtaken
    <3>3. CASE HarnessStores
      BY <1>0, <3>3 DEF HarnessStores, TextTypes, FlagTypes, session, dialog,
         snapshot, disk, Mishaps, Overtaken
    <3>4. CASE EvictIdle
      BY <1>0, <3>4 DEF EvictIdle, TextTypes, FlagTypes, dialog, disk, Mishaps, Overtaken
    <3> QED
      BY <1>5, <3>1, <3>2, <3>3, <3>4
  <2> QED
    BY <1>0, <2>1, <2>2, <2>3, HarnessKept DEF LoadTypes
<1>6. CASE UNCHANGED loadsVars
  <2>1. FlightTypes'
    BY <1>0, <1>6 DEF loadsVars, FlightTypes, loads
  <2>2. TextTypes' /\ FlagTypes'
    BY <1>0, <1>6 DEF loadsVars, TextTypes, FlagTypes, session, dialog, snapshot, disk, Mishaps, Overtaken
  <2> QED
    BY <1>0, <1>6, <2>1, <2>2, HarnessKept DEF LoadTypes, loadsVars
<1> QED
  BY <1>1, <1>2, <1>3, <1>4, <1>5, <1>6

(* Every step keeps the types. *)
LEMMA LoadTypesKept ==
    ASSUME LoadTypes, [LoadsNext]_loadsVars
    PROVE  LoadTypes'
BY LoadCallTypes, LoadTypesStep, OtherTypes DEF LoadsNext, Step

LEMMA LoadTypesInit == LoadsInit => LoadTypes
<1> SUFFICES ASSUME LoadsInit PROVE LoadTypes
  OBVIOUS
<1>1. harness \in Profiles /\ claims \in BOOLEAN
  BY DEF LoadsInit
<1>2. /\ harness.journal \in BOOLEAN
      /\ (harness.seeds => harness.journal) /\ (harness.authoritative => harness.journal)
  <2>1. \A j, a, p, r \in BOOLEAN :
          LET h == Profile(j, a, p, r)
          IN  h.journal = j /\ h.authoritative = a /\ h.seeds = (~a /\ ~p)
    BY DEF Profile
  <2> HIDE DEF Profile
  <2>2. CASE harness = Claude
    BY <2>1, <2>2 DEF Claude
  <2>3. CASE harness = Codex
    BY <2>1, <2>3 DEF Codex
  <2>4. CASE harness = Pi
    BY <2>1, <2>4 DEF Pi
  <2>5. CASE harness = Omp(TRUE)
    BY <2>1, <2>5 DEF Omp
  <2>6. CASE harness = Omp(FALSE)
    BY <2>1, <2>6 DEF Omp
  <2> QED
    BY <1>1, <2>2, <2>3, <2>4, <2>5, <2>6 DEF Profiles
<1>3. HarnessTypes
  BY <1>1, <1>2 DEF HarnessTypes, LoadsInit, Listed, Created, Messages, History
<1>4. FlightTypes
  BY DEF LoadsInit, FlightTypes, Stages
<1>5. TextTypes
  BY DEF LoadsInit, Listed, Created, TextTypes, Messages, History
<1>6. FlagTypes
  BY <1>2 DEF LoadsInit, Listed, Created, FlagTypes, Mishaps
<1> QED
  BY <1>3, <1>4, <1>5, <1>6 DEF LoadTypes

-----------------------------------------------------------------------------
(* One load at a time, whatever has happened to the snapshot: one kind of  *)
(* step after the other.                                                   *)

(* The load that takes a step is the one in #loads. *)
LEMMA CurrentIs ==
    ASSUME FlightInv, NEW c \in Callers, callAt[c] \in Loading
    PROVE  current = c /\ \A d \in Callers \ {c} : callAt[d] \notin Loading
BY DEF FlightInv, OneLoad

LEMMA AskedFlight ==
    ASSUME LoadTypes, FlightInv, NEW c \in Callers, Asked(c)
    PROVE  FlightInv'
<1> USE Marks DEF Asked, GoesOn
<1>0. HarnessTypes /\ FlagTypes /\ FlightTypes
  BY DEF LoadTypes
<1>1. PICK stage \in {"waiting", "preparing", "done", "pi"} : callAt' = [callAt EXCEPT ![c] = stage]
  BY DEF Joins, BeginsLoad, Passes
<1>2. /\ \A d \in Callers \ {c} : callAt'[d] = callAt[d]
      /\ callAt'[c] \in {"waiting", "preparing", "done", "pi"}
  BY <1>0, <1>1 DEF FlightTypes
<1>3. /\ UNCHANGED <<harness, past, stored, replaying, toReplay>>
      /\ adopted' \in {adopted, FALSE}
      /\ callAt[c] \in {"idle", "restored"}
  OBVIOUS
<1>4. \/ /\ current = None /\ current' = c /\ restore' # "unread"
         /\ (restore # "unread" => restore' = restore)
      \/ callAt'[c] # "preparing" /\ UNCHANGED <<current, restore>>
  BY <1>0 DEF Joins, BeginsLoad, Passes, FlightTypes, snapshot
<1>5. callAt'[c] = "pi" => harness.authoritative
  BY <1>0 DEF Joins, BeginsLoad, Passes, FlightTypes
<1> HIDE DEF Asked, GoesOn
<1>6. OneLoad'
  BY <1>2, <1>3, <1>4 DEF FlightInv, OneLoad, Loading
<1>7. ReplayMarked'
  <2>1. \A d \in Callers : callAt'[d] \in ReplayStages <=> callAt[d] \in ReplayStages
    BY <1>2, <1>3 DEF ReplayStages
  <2>2. replaying => current # None /\ current' = current /\ current \in Callers
    BY <1>0, <1>4 DEF FlightInv, ReplayMarked, FlightTypes
  <2> QED
    BY <1>3, <2>1, <2>2 DEF FlightInv, ReplayMarked
<1>8. HarnessWays'
  <2>1. ~adopted => ~adopted'
    BY <1>3
  <2>2. ~harness.journal => /\ ~adopted'
                            /\ \A d \in Callers : callAt'[d] \notin {"journal", "resuming", "settling"}
    BY <1>2, <2>1 DEF FlightInv, HarnessWays
  <2>3. ~harness.authoritative => \A d \in Callers : callAt'[d] # "pi"
    BY <1>2, <1>5 DEF FlightInv, HarnessWays
  <2> QED
    BY <1>3, <2>2, <2>3 DEF HarnessWays
<1> QED
  BY <1>3, <1>6, <1>7, <1>8 DEF FlightInv

LEMMA ProceedsFlight ==
    ASSUME LoadTypes, FlightInv, NEW c \in Callers, Proceeds(c)
    PROVE  FlightInv'
<1>0. HarnessTypes /\ FlagTypes /\ FlightTypes
  BY DEF LoadTypes
<1>1. /\ callAt[c] \in Loading /\ current' = current
      /\ UNCHANGED <<harness, past, stored, adopted, restore>>
      /\ callAt' = [callAt EXCEPT ![c] = callAt'[c]] /\ callAt'[c] \in Loading \ {"preparing"}
  BY <1>0 DEF Proceeds, Loading, FlightTypes, Blanks, snapshot
<1>2. current = c /\ \A d \in Callers \ {c} : callAt[d] \notin Loading /\ callAt'[d] = callAt[d]
  BY <1>0, <1>1, CurrentIs DEF FlightTypes
<1>3. callAt'[c] \in ReplayStages <=> replaying'
  BY <1>0, <1>2 DEF Proceeds, Blanks, ReplayStages, FlightInv, OneLoad, ReplayMarked, FlightTypes
<1>4. \A d \in Callers : d # c => toReplay'[d] = toReplay[d]
  BY <1>0 DEF Proceeds, Blanks, FlightTypes
<1>5. toReplay'[c] # {} => callAt'[c] \in ReplayStages
  BY <1>0 DEF Proceeds, Blanks, ReplayStages, FlightInv, ReplayMarked, FlightTypes
<1>6. OneLoad'
  BY <1>1, <1>2 DEF FlightInv, OneLoad, Loading
<1>7. ReplayMarked'
  BY <1>1, <1>2, <1>3, <1>4, <1>5, Marks DEF FlightInv, ReplayMarked, Loading, ReplayStages
<1>8. HarnessWays'
  <2>1. ~harness.journal => callAt'[c] = "replaying"
    BY <1>0, <1>1 DEF Proceeds, Blanks, HarnessTypes, FlightInv, HarnessWays, FlightTypes
  <2> QED
    BY <1>1, <1>2, <2>1 DEF FlightInv, HarnessWays, Loading
<1> QED
  BY <1>1, <1>6, <1>7, <1>8 DEF FlightInv

(* The load that ends is the one that was under way, and leaves no replay. *)
LEMMA EndsAre ==
    ASSUME LoadTypes, FlightInv, NEW c \in Callers, Ends(c)
    PROVE  /\ UNCHANGED <<harness, past, stored>> /\ current = c /\ ~replaying'
           /\ callAt[c] \in Loading /\ restore # "unread"
           /\ \A d \in Callers : toReplay'[d] = {}
           /\ \E transcript : LoadEnds(c, transcript)
<1>0. FlightTypes
  BY DEF LoadTypes
<1>1. /\ UNCHANGED <<harness, past, stored>> /\ callAt[c] \in Loading
      /\ \E transcript : LoadEnds(c, transcript)
  BY DEF Ends, Loading, ReplayStages
<1>2. current = c /\ \A d \in Callers \ {c} : callAt[d] \notin Loading
  BY <1>1, CurrentIs
<1>3. ~replaying'
  BY <1>2 DEF Ends, FlightInv, ReplayMarked, ReplayStages
<1>4. \A d \in Callers : toReplay'[d] = {}
  BY <1>0, <1>1, <1>2 DEF LoadEnds, FlightTypes, FlightInv, ReplayMarked, ReplayStages, Loading
<1>5. restore # "unread"
  BY <1>2, Marks DEF FlightInv, OneLoad
<1> QED
  BY <1>1, <1>2, <1>3, <1>4, <1>5

LEMMA EndsFlight ==
    ASSUME LoadTypes, FlightInv, NEW c \in Callers, Ends(c)
    PROVE  FlightInv'
<1>1. /\ UNCHANGED <<harness, past, stored>> /\ current = c /\ ~replaying' /\ restore # "unread"
      /\ \A d \in Callers : toReplay'[d] = {}
  BY EndsAre
<1>2. PICK transcript : LoadEnds(c, transcript)
  BY EndsAre
<1>3. /\ \A d \in Callers : /\ callAt'[d] \in Loading => callAt'[d] = "preparing" /\ d = current'
                            /\ callAt'[d] \in {"restored", "pi"} => callAt'[d] = callAt[d]
      /\ adopted' \in {adopted, FALSE} /\ restore' = restore
  BY <1>2 DEF LoadEnds, HandsOver
<1>4. OneLoad'
  BY <1>1, <1>3 DEF FlightInv, OneLoad, Loading
<1>5. ReplayMarked'
  BY <1>1, <1>3 DEF ReplayMarked, Loading, ReplayStages
<1>6. HarnessWays'
  <2>1. ~adopted => ~adopted'
    BY <1>3
  <2>2. ~harness.journal => /\ ~adopted'
                            /\ \A d \in Callers : callAt'[d] \notin {"journal", "resuming", "settling"}
    BY <1>3, <2>1 DEF FlightInv, HarnessWays, Loading
  <2>3. ~harness.authoritative => \A d \in Callers : callAt'[d] # "pi"
    BY <1>3 DEF FlightInv, HarnessWays
  <2> QED
    BY <1>1, <2>2, <2>3 DEF HarnessWays
<1> QED
  BY <1>1, <1>4, <1>5, <1>6 DEF FlightInv

LEMMA RestFlight ==
    ASSUME LoadTypes, FlightInv,
           \/ \E c \in Callers : Restore(c) \/ SnapshotRead(c) \/ JournalShown(c) \/ Replay(c)
           \/ WriterTakes \/ WriteEnds
           \/ ReplyArrives \/ LateChunk \/ TurnIsOver \/ HarnessStores \/ EvictIdle
           \/ UNCHANGED loadsVars
    PROVE  FlightInv'
<1> USE Marks
<1>0. HarnessTypes /\ FlagTypes /\ FlightTypes
  BY DEF LoadTypes
<1>1. ASSUME NEW c \in Callers, Restore(c) PROVE FlightInv'
  BY <1>0, <1>1 DEF Restore, given, session, FlightInv, OneLoad, ReplayMarked, HarnessWays, Loading,
     ReplayStages, FlightTypes
<1>2. ASSUME NEW c \in Callers, SnapshotRead(c) PROVE FlightInv'
  <2>1. \A d \in Callers :
            callAt'[d] # callAt[d] => callAt[d] = "restoring" /\ callAt'[d] = "restored"
    BY <1>0, <1>2 DEF SnapshotRead, FlightTypes
  <2> QED
    BY <1>0, <1>2, <2>1 DEF SnapshotRead, given, session, FlightInv, OneLoad, ReplayMarked,
       HarnessWays, Loading, ReplayStages, FlightTypes
<1>3. ASSUME NEW c \in Callers, JournalShown(c) PROVE FlightInv'
  <2>1. harness.authoritative /\ harness.journal
    BY <1>0, <1>3 DEF JournalShown, FlightInv, HarnessWays, HarnessTypes
  <2> QED
    BY <1>0, <1>3, <2>1 DEF JournalShown, given, FlightInv, OneLoad, ReplayMarked, HarnessWays,
       Loading, ReplayStages, FlightTypes
<1>4. ASSUME NEW c \in Callers, Replay(c) PROVE FlightInv'
  <2>1. \A d \in Callers : d # c => toReplay'[d] = toReplay[d]
    BY <1>0, <1>4 DEF Replay, FlightTypes
  <2> QED
    BY <1>0, <1>4, <2>1 DEF Replay, given, session, snapshot, FlightInv, OneLoad, ReplayMarked,
       HarnessWays
<1>5. CASE WriterTakes \/ WriteEnds
  <2>1. UNCHANGED <<given, stored, session, replaying, loads, restore>>
    BY <1>5 DEF WriterTakes, WriteEnds
  <2> QED
    BY <2>1 DEF given, session, loads, FlightInv, OneLoad, ReplayMarked, HarnessWays
<1>6. CASE ReplyArrives \/ LateChunk \/ TurnIsOver \/ HarnessStores
  <2>1. UNCHANGED <<given, session, replaying, loads, restore>> /\ stored \subseteq stored'
    BY <1>6 DEF ReplyArrives, LateChunk, TurnIsOver, HarnessStores, snapshot
  <2> QED
    BY <2>1 DEF given, session, loads, FlightInv, OneLoad, ReplayMarked, HarnessWays
<1>7. CASE EvictIdle
  <2>1. /\ \A d \in Callers : callAt[d] \notin Loading /\ callAt[d] # "restored"
        /\ UNCHANGED <<given, stored, adopted, replaying, loads>> /\ current = None
    BY <1>7 DEF EvictIdle, FlightInv, OneLoad, Waiting
  <2> QED
    BY <2>1 DEF given, loads, FlightInv, OneLoad, ReplayMarked, HarnessWays, Loading, ReplayStages
<1>8. CASE UNCHANGED loadsVars
  BY <1>8 DEF loadsVars, given, session, loads, snapshot, FlightInv, OneLoad, ReplayMarked, HarnessWays
<1> QED
  BY <1>1, <1>2, <1>3, <1>4, <1>5, <1>6, <1>7, <1>8

-----------------------------------------------------------------------------
(* What is in memory, put aside and in the file, while nothing has been    *)
(* refused or overtaken: one kind of step after the other.                 *)

DataInv == SavedInv /\ JournalInv /\ StreamInv

LEMMA AskedKeeps ==
    ASSUME LoadTypes, FlightInv, DataInv, NEW c \in Callers, Asked(c)
    PROVE  DataInv'
<1> USE Marks DEF Asked, GoesOn
<1>0. HarnessTypes /\ FlagTypes /\ FlightTypes /\ SavedInv /\ JournalInv /\ StreamInv
  BY DEF LoadTypes, DataInv
<1>1. UNCHANGED <<harness, past, stored, replaying, previous, toReplay, saved, file, outgoing>>
  BY DEF Snapshots, snapshot, disk
<1>2. writer' = "idle" => writer = "idle" /\ dirty' = dirty
  BY <1>0 DEF SavedInv, Snapshots, snapshot, disk, FlagTypes
<1>3. writer = "writing" => writer' = "writing"
  BY <1>0 DEF Snapshots, snapshot, disk
<1>4. restore' = restore \/ (BeginsLoad(c) /\ restore = "unread" /\ restore' = c)
  BY DEF Joins, BeginsLoad, Passes, snapshot
<1>5. SavedInv'
  <2>1. loaded' => loaded
    <3>1. loaded' \in {loaded, FALSE}
      OBVIOUS
    <3> QED
      BY <3>1
  <2>2. writer' = "idle" => ~dirty'
    BY <1>0, <1>2 DEF SavedInv
  <2>3. writer' = "idle" => writer = "idle"
    BY <1>2
  <2> HIDE DEF Asked, GoesOn
  <2> QED
    BY <1>0, <1>1, <1>4, <2>1, <2>2, <2>3 DEF SavedInv
<1>6. JournalInv'
  <2>1. CASE Passes(c)
    BY <1>0, <2>1 DEF JournalInv, Passes, Becomes, dialog, ReplayStages, FlightTypes
  <2>2. CASE ~Passes(c)
    BY <1>0, <2>2 DEF JournalInv, Joins, BeginsLoad, dialog, ReplayStages, FlightTypes
  <2> QED
    BY <2>1, <2>2
<1>7. ASSUME ~harness.journal PROVE StreamInv'
  <2>0. ~harness.authoritative
    BY <1>0, <1>7 DEF HarnessTypes
  <2>1. Snapshots /\ UNCHANGED loaded
    BY <1>0, <1>7, <2>0
  <2>a. \A d \in Callers : callAt'[d] = "replaying" => callAt[d] = "replaying"
    BY <1>0, <1>7, <2>0 DEF Joins, BeginsLoad, Passes, FlightTypes
  <2>2. CASE Passes(c)
    <3>1. loaded /\ loaded' /\ restore' = restore /\ (Tracked' <=> Tracked) /\ current' = current
      BY <2>1, <2>2, <1>1 DEF Passes, Tracked
    <3>2. CASE mem' = mem /\ UNCHANGED dialog
      BY <1>0, <1>1, <1>2, <1>3, <1>7, <2>1, <2>a, <3>1, <3>2 DEF StreamInv, WillShow, Snapshots,
         dialog, InTurns, SavedInv
    <3>3. CASE mem' = mem \cup {"p"} /\ turnNow' = "live" /\ spoken' = spoken \cup {"p"} /\ dirty' = TRUE
      <4>1. writer' # "idle"
        BY <1>0, <1>5, <3>3 DEF SavedInv
      <4> QED
        BY <1>0, <1>1, <1>7, <2>a, <3>1, <3>3, <4>1 DEF StreamInv, WillShow, InTurns
    <3> QED
      BY <2>2, <3>2, <3>3 DEF Passes, Becomes
  <2>3. CASE /\ Joins(c) \/ restore # "unread"
             /\ UNCHANGED <<mem, dialog, current, restore>>
    <3>1. (Tracked' <=> Tracked) /\ UNCHANGED <<current, restore, mem, turnNow, spoken, loaded>>
      BY <1>1, <2>1, <2>3 DEF Tracked, dialog
    <3>2. restore # "unread" /\ (WillShow' = WillShow)
      BY <1>1, <2>3, <3>1 DEF Joins, FlightInv, OneLoad, WillShow
    <3>3. /\ writer' = "idle" => writer = "idle"
          /\ writer' = "writing" /\ ~dirty' => writer = "writing" /\ ~dirty
      BY <1>0, <1>2, <2>1 DEF Snapshots
    <3>4. \A d \in Callers : callAt'[d] = "replaying" => past' \subseteq mem' \cup toReplay'[d]
      BY <1>0, <1>1, <1>7, <2>a, <3>1 DEF StreamInv
    <3>5. /\ ~saved' => file' = {}
          /\ ~saved' /\ writer' = "idle" => turnNow' = "none" /\ (~replaying' => mem' = {})
          /\ Tracked' => spoken' \subseteq WillShow'
          /\ Tracked' /\ loaded' /\ ~replaying' => past' \subseteq mem'
          /\ ~Tracked' /\ turnNow' # "live" /\ writer' = "idle" => spoken' \subseteq file'
      BY <1>0, <1>1, <1>7, <3>1, <3>2, <3>3 DEF StreamInv
    <3>6. Tracked' /\ turnNow' # "live" /\ ~replaying' =>
              /\ writer' = "idle" => file' \cap InTurns' = mem' \cap InTurns'
              /\ writer' = "writing" /\ ~dirty' => outgoing' \cap InTurns' = mem' \cap InTurns'
      BY <1>0, <1>1, <1>7, <3>1, <3>3 DEF StreamInv, InTurns
    <3> QED
      BY <3>1, <3>2, <3>4, <3>5, <3>6 DEF StreamInv
  <2>4. CASE BeginsLoad(c)
    <3>1. ~replaying
      BY <2>4 DEF BeginsLoad, FlightInv, ReplayMarked
    <3>2. UNCHANGED <<mem, turnNow, spoken, loaded>> /\ (Tracked' => Tracked)
      BY <1>1, <2>1, <2>4 DEF BeginsLoad, Tracked, dialog
    <3>3. restore' # "unread"
      BY <2>4 DEF BeginsLoad
    <3>4. Tracked /\ ~Tracked' /\ turnNow # "live" /\ writer = "idle" => spoken \subseteq file
      BY <1>0, <1>7, <3>1 DEF StreamInv, WillShow, InTurns
    <3>5. ~Tracked' /\ turnNow' # "live" /\ writer' = "idle" => spoken' \subseteq file'
      BY <1>0, <1>1, <1>2, <1>7, <3>2, <3>4 DEF StreamInv
    <3>6. /\ writer' = "idle" => writer = "idle"
          /\ writer' = "writing" /\ ~dirty' => writer = "writing" /\ ~dirty
      BY <1>0, <1>2, <2>1 DEF Snapshots
    <3>7. \A d \in Callers : callAt'[d] = "replaying" => past' \subseteq mem' \cup toReplay'[d]
      BY <1>0, <1>1, <1>7, <2>a, <3>2 DEF StreamInv
    <3>8. /\ ~saved' => file' = {}
          /\ ~saved' /\ writer' = "idle" => turnNow' = "none" /\ (~replaying' => mem' = {})
          /\ Tracked' => spoken' \subseteq WillShow'
          /\ Tracked' /\ loaded' /\ ~replaying' => past' \subseteq mem'
      BY <1>0, <1>1, <1>7, <3>1, <3>2, <3>6 DEF StreamInv, WillShow
    <3>9. Tracked' /\ turnNow' # "live" /\ ~replaying' =>
              /\ writer' = "idle" => file' \cap InTurns' = mem' \cap InTurns'
              /\ writer' = "writing" /\ ~dirty' => outgoing' \cap InTurns' = mem' \cap InTurns'
      BY <1>0, <1>1, <1>7, <3>2, <3>6 DEF StreamInv, InTurns
    <3> QED
      BY <3>3, <3>5, <3>7, <3>8, <3>9 DEF StreamInv
  <2> QED
    BY <1>7, <2>0, <2>2, <2>3, <2>4 DEF Joins
<1>8. StreamInv'
  BY <1>1, <1>7 DEF StreamInv
<1> QED
  BY <1>5, <1>6, <1>8 DEF DataInv

LEMMA RestoreKeeps ==
    ASSUME LoadTypes, FlightInv, DataInv, NEW c \in Callers, Restore(c)
    PROVE  DataInv'
<1> USE Marks DEF Restore, given, session, dialog, disk
<1>0. HarnessTypes /\ FlagTypes /\ FlightTypes /\ SavedInv /\ JournalInv /\ StreamInv
  BY DEF LoadTypes, DataInv
<1>1. SavedInv'
  BY <1>0 DEF SavedInv
<1>2. JournalInv'
  BY <1>0 DEF JournalInv, ReplayStages, FlightTypes
<1>3. \A d \in Callers : callAt[d] \notin ReplayStages /\ callAt'[d] # "replaying"
  BY <1>0 DEF FlightInv, OneLoad, Loading, ReplayStages, FlightTypes
<1>4. ASSUME ~harness.journal PROVE StreamInv'
  <2>1. ~replaying /\ (Tracked' => Tracked) /\ restore' # "unread"
    BY <1>0, <1>3 DEF FlightInv, OneLoad, ReplayMarked, Tracked
  <2>2. Tracked /\ turnNow # "live" /\ writer = "idle" => spoken \subseteq file
    BY <1>0, <1>4, <2>1 DEF StreamInv, WillShow, InTurns
  <2> QED
    BY <1>0, <1>3, <1>4, <2>1, <2>2 DEF StreamInv, WillShow, InTurns
<1>5. StreamInv'
  BY <1>4 DEF StreamInv
<1> QED
  BY <1>1, <1>2, <1>5 DEF DataInv

LEMMA SnapshotReadKeeps ==
    ASSUME LoadTypes, FlightInv, DataInv, NEW c \in Callers, SnapshotRead(c), mishap' = "none"
    PROVE  DataInv'
<1> USE Marks DEF SnapshotRead, given, session, dialog, disk
<1>0. HarnessTypes /\ FlagTypes /\ FlightTypes /\ SavedInv /\ JournalInv /\ StreamInv
  BY DEF LoadTypes, DataInv
<1>1. \A d \in Callers :
          callAt'[d] # callAt[d] => callAt[d] = "restoring" /\ callAt'[d] = "restored"
  BY <1>0 DEF FlightTypes
<1>2. SavedInv'
  BY <1>0 DEF SavedInv
<1>3. CASE ~saved
  <2>1. mem' = mem
    BY <1>3
  <2>2. JournalInv'
    BY <1>0, <1>1, <2>1 DEF JournalInv, ReplayStages, FlightTypes
  <2>3. Tracked /\ Tracked'
    BY <1>3 DEF Tracked
  <2>4. StreamInv'
    BY <1>0, <1>1, <1>3, <2>1, <2>3 DEF StreamInv, WillShow, InTurns
  <2> QED
    BY <1>2, <2>2, <2>4 DEF DataInv
<1>4. CASE saved
  <2>1. ~Ahead /\ mem' = file
    BY <1>4 DEF Overtaken
  <2>2. \A d \in Callers : callAt[d] \notin {"resuming"} \cup ReplayStages
    BY <2>1 DEF Ahead, UnderWay, Loading, ReplayStages
  <2>3. ~replaying
    BY <1>0, <2>2 DEF FlightInv, ReplayMarked, FlightTypes
  <2>4. turnNow # "live" /\ writer = "idle" /\ ~dirty /\ (JournalOwns => mem = {}) /\ restore \in Callers
    BY <2>1 DEF Ahead
  <2>5. loaded /\ ~harness.authoritative => past = {}
    BY <1>0, <2>4 DEF SavedInv
  <2>a. /\ \A d \in Callers : callAt'[d] \notin {"resuming"} \cup ReplayStages
        /\ \A d \in Callers : callAt'[d] = "journal" => callAt[d] = "journal"
    BY <1>1, <2>2 DEF ReplayStages
  <2>6. ASSUME harness.journal PROVE JournalInv'
    <3>1. CASE harness.seeds \/ harness.authoritative
      <4>1. mem = {}
        BY <1>0, <2>4, <2>6, <3>1 DEF JournalOwns, HarnessTypes
      <4>2. harness.seeds => mem' = {}
        BY <1>0, <2>1 DEF SavedInv
      <4>3. loaded \/ (harness.seeds /\ (mem' # {} \/ turnNow # "none")) => past = {}
        BY <1>0, <2>3, <2>6, <4>1, <4>2 DEF JournalInv
      <4> QED
        BY <1>0, <2>a, <4>3 DEF JournalInv
    <3>2. CASE ~harness.seeds /\ ~harness.authoritative
      BY <1>0, <2>5, <2>a, <3>2 DEF JournalInv
    <3> QED
      BY <3>1, <3>2
  <2>7. ASSUME ~harness.journal PROVE StreamInv'
    <3>1. ~Tracked /\ Tracked'
      BY <1>4, <2>4 DEF Tracked
    <3>2. spoken \subseteq file
      BY <1>0, <2>4, <2>7, <3>1 DEF StreamInv
    <3>3. loaded => past = {}
      BY <1>0, <2>5, <2>7 DEF HarnessTypes
    <3>4. \A d \in Callers : callAt'[d] # "replaying"
      BY <1>1, <2>2 DEF ReplayStages
    <3> QED
      BY <1>4, <2>1, <2>3, <2>4, <3>1, <3>2, <3>3, <3>4 DEF StreamInv, WillShow, InTurns
  <2>8. JournalInv' /\ StreamInv'
    BY <2>6, <2>7 DEF JournalInv, StreamInv
  <2> QED
    BY <1>2, <2>8 DEF DataInv
<1> QED
  BY <1>3, <1>4

LEMMA JournalShownKeeps ==
    ASSUME LoadTypes, FlightInv, DataInv, NEW c \in Callers, JournalShown(c)
    PROVE  DataInv'
<1> USE DEF JournalShown, given, dialog
<1>0. HarnessTypes /\ FlagTypes /\ FlightTypes /\ SavedInv /\ JournalInv
  BY DEF LoadTypes, DataInv
<1>1. harness.authoritative /\ harness.journal
  BY <1>0 DEF FlightInv, HarnessWays, HarnessTypes
<1>2. SavedInv'
  BY <1>0, <1>1 DEF SavedInv, Persist
<1>3. JournalInv'
  BY <1>0 DEF FlightInv, JournalInv, ReplayStages, FlightTypes
<1> QED
  BY <1>1, <1>2, <1>3 DEF DataInv, StreamInv

LEMMA ReplayKeeps ==
    ASSUME LoadTypes, FlightInv, DataInv, NEW c \in Callers, Replay(c)
    PROVE  DataInv'
<1> USE DEF Replay, given, session, dialog, snapshot, disk
<1>0. HarnessTypes /\ FlagTypes /\ FlightTypes /\ SavedInv /\ JournalInv /\ StreamInv
  BY DEF LoadTypes, DataInv
<1>1. /\ callAt[c] \in ReplayStages /\ callAt[c] \in Loading /\ replaying
      /\ mem' = mem \cup {First(toReplay[c])}
  BY DEF FlightInv, ReplayMarked, ReplayStages, Loading
<1>2. current = c /\ \A d \in Callers \ {c} : callAt[d] \notin Loading
  BY <1>1, CurrentIs
<1>3. toReplay'[c] = toReplay[c] \ {First(toReplay[c])}
  BY <1>0 DEF FlightTypes
<1>4. SavedInv'
  BY <1>0 DEF SavedInv
<1>5. JournalInv'
  <2>1. \A d \in Callers : callAt[d] # "resuming"
    BY <1>1, <1>2 DEF ReplayStages, Loading
  <2> QED
    BY <1>0, <1>1, <2>1 DEF JournalInv
<1>6. ASSUME ~harness.journal PROVE StreamInv'
  <2>1. \A d \in Callers : callAt[d] = "replaying" => d = c
    BY <1>2 DEF Loading
  <2>2. callAt[c] = "replaying" => past \subseteq mem' \cup toReplay'[c]
    BY <1>0, <1>1, <1>3, <1>6 DEF StreamInv
  <2>3. restore # "unread" /\ (Tracked' <=> Tracked)
    BY <1>2, Marks DEF FlightInv, OneLoad, Tracked
  <2> QED
    BY <1>0, <1>1, <1>2, <1>6, <2>1, <2>2, <2>3 DEF StreamInv, WillShow
<1>7. StreamInv'
  BY <1>6 DEF StreamInv
<1> QED
  BY <1>4, <1>5, <1>7 DEF DataInv

LEMMA ProceedsKeeps ==
    ASSUME LoadTypes, FlightInv, DataInv, NEW c \in Callers, Proceeds(c)
    PROVE  DataInv'
<1> USE Marks
<1>0. HarnessTypes /\ FlagTypes /\ FlightTypes /\ SavedInv /\ JournalInv /\ StreamInv
  BY DEF LoadTypes, DataInv
<1>1. /\ callAt[c] \in Loading /\ current' = current
      /\ UNCHANGED <<harness, past, stored, loaded, turnNow, spoken, restore, saved, writer, dirty,
                     file, outgoing>>
      /\ callAt' = [callAt EXCEPT ![c] = callAt'[c]] /\ callAt'[c] \in Loading \ {"preparing"}
  BY <1>0 DEF Proceeds, Loading, FlightTypes, Blanks, dialog, snapshot, disk
<1>2. current = c /\ \A d \in Callers \ {c} : callAt[d] \notin Loading /\ callAt'[d] = callAt[d]
  BY <1>0, <1>1, CurrentIs DEF FlightTypes
<1>3. SavedInv'
  BY <1>0, <1>1 DEF SavedInv
<1>4. ASSUME harness.journal PROVE JournalInv'
  <2>1. CASE /\ callAt[c] = "preparing" /\ previous' = [previous EXCEPT ![c] = mem]
             /\ callAt' = [callAt EXCEPT ![c] = "journal"]
             /\ UNCHANGED <<mem, replaying>>
    <3>1. ~replaying
      BY <1>2, <2>1 DEF FlightInv, ReplayMarked, ReplayStages
    <3>2. harness.seeds /\ mem # {} => past \subseteq mem
      BY <1>0, <1>4, <3>1 DEF JournalInv
    <3>3. \A d \in Callers : callAt'[d] \in Loading => d = c
      BY <1>2
    <3>4. callAt'[c] = "journal" /\ previous'[c] = mem
      BY <1>0, <2>1 DEF FlightTypes
    <3> QED
      BY <1>0, <1>1, <1>4, <2>1, <3>2, <3>3, <3>4 DEF JournalInv, ReplayStages, Loading
  <2>2. CASE callAt[c] = "journal"
    <3>1. PICK transcript : /\ past \subseteq transcript
                            /\ previous' = [previous EXCEPT ![c] = transcript]
                            /\ \/ Blanks(c)
                               \/ mem' = transcript /\ callAt' = [callAt EXCEPT ![c] = "resuming"]
      BY <1>0, <2>2 DEF Proceeds
    <3>2. \A d \in Callers : callAt'[d] \in Loading => d = c
      BY <1>2
    <3>3. previous'[c] = transcript
      BY <1>0, <3>1 DEF FlightTypes
    <3>4. replaying' \/ (mem' = transcript /\ callAt'[c] = "resuming")
      BY <1>0, <3>1 DEF Blanks, FlightTypes
    <3>5. callAt'[c] # "journal" /\ callAt'[c] = "resuming" => mem' = transcript
      BY <1>0, <3>1 DEF Blanks, FlightTypes
    <3> QED
      BY <1>1, <1>4, <3>1, <3>2, <3>3, <3>4, <3>5 DEF JournalInv, ReplayStages, Loading
  <2>3. CASE /\ callAt[c] = "replaying" /\ callAt' = [callAt EXCEPT ![c] = "settling"]
             /\ UNCHANGED <<mem, replaying, previous>>
    BY <1>0, <1>1, <1>4, <2>3 DEF JournalInv, ReplayStages, FlightTypes
  <2> QED
    BY <1>4, <2>1, <2>2, <2>3 DEF Proceeds, FlightInv, HarnessWays
<1>5. ASSUME ~harness.journal PROVE StreamInv'
  <2>1. /\ callAt[c] = "preparing" /\ previous' = [previous EXCEPT ![c] = mem] /\ Blanks(c)
    BY <1>0, <1>5 DEF Proceeds, HarnessTypes, FlightInv, HarnessWays
  <2>2. /\ replaying' /\ mem' = {} /\ toReplay'[c] = stored /\ previous'[c] = mem /\ ~replaying
        /\ restore # "unread"
    BY <1>0, <1>2, <2>1 DEF Blanks, FlightInv, OneLoad, ReplayMarked, FlightTypes, ReplayStages
  <2>3. \A d \in Callers : callAt'[d] = "replaying" => d = c
    BY <1>2 DEF Loading
  <2>4. (Tracked' <=> Tracked) /\ WillShow' = WillShow
    BY <1>1, <1>2, <2>2 DEF Tracked, WillShow
  <2> QED
    BY <1>0, <1>1, <1>5, <2>2, <2>3, <2>4 DEF StreamInv, FlightInv
<1>6. JournalInv' /\ StreamInv'
  BY <1>1, <1>4, <1>5 DEF JournalInv, StreamInv
<1> QED
  BY <1>3, <1>6 DEF DataInv

LEMMA EndsKeeps ==
    ASSUME LoadTypes, FlightInv, DataInv, NEW c \in Callers, Ends(c)
    PROVE  DataInv'
<1> USE Marks
<1>0. HarnessTypes /\ FlagTypes /\ FlightTypes /\ SavedInv /\ JournalInv /\ StreamInv
  BY DEF LoadTypes, DataInv
<1>1. PICK transcript :
        /\ LoadEnds(c, transcript)
        /\ harness.journal => past \subseteq transcript
        /\ ~harness.journal => /\ toReplay[c] = {} /\ transcript = previous[c] \cup mem
                               /\ callAt[c] \in ReplayStages
  BY <1>0 DEF Ends, JournalInv, ReplayStages
<1>2. /\ UNCHANGED <<harness, past, stored>> /\ current = c /\ ~replaying'
      /\ callAt[c] \in Loading /\ restore # "unread"
  BY EndsAre
<1>3. /\ \A d \in Callers : callAt'[d] \in Loading => callAt'[d] = "preparing"
      /\ loaded' = TRUE /\ dirty' = TRUE /\ writer' # "idle" /\ (writer' = "writing" => writer = "writing")
      /\ UNCHANGED <<restore, saved, file, outgoing>> /\ Becomes(transcript)
  BY <1>1 DEF LoadEnds, HandsOver
<1>4. SavedInv'
  BY <1>0, <1>2, <1>3 DEF SavedInv
<1>5. JournalInv'
  BY <1>1, <1>2, <1>3 DEF JournalInv, Loading, ReplayStages, Becomes
<1>6. ASSUME ~harness.journal PROVE StreamInv'
  <2>1. replaying /\ callAt[c] = "replaying"
    BY <1>1, <1>6 DEF FlightInv, ReplayMarked, HarnessWays, ReplayStages
  <2>2. transcript = WillShow /\ past \subseteq transcript
    BY <1>0, <1>1, <1>2, <1>6, <2>1 DEF StreamInv, WillShow
  <2>3. (Tracked' <=> Tracked) /\ (Tracked => spoken' \subseteq mem') /\ past' \subseteq mem'
    BY <1>0, <1>2, <1>3, <1>6, <2>2 DEF Becomes, dialog, Tracked, StreamInv
  <2>4. \A d \in Callers : callAt'[d] # "replaying"
    BY <1>3 DEF Loading
  <2> QED
    BY <1>0, <1>2, <1>3, <1>6, <2>3, <2>4 DEF StreamInv, WillShow
<1>7. StreamInv'
  BY <1>2, <1>6 DEF StreamInv
<1> QED
  BY <1>4, <1>5, <1>7 DEF DataInv

LEMMA WriterKeeps ==
    ASSUME LoadTypes, FlightInv, DataInv, WriterTakes \/ WriteEnds, mishap' = "none"
    PROVE  DataInv'
<1>0. HarnessTypes /\ FlagTypes /\ SavedInv /\ JournalInv /\ StreamInv
  BY DEF LoadTypes, DataInv
<1>1. UNCHANGED <<harness, past, stored, mem, loaded, replaying, turnNow, spoken, current,
                  callAt, previous, toReplay, restore>>
  BY DEF WriterTakes, WriteEnds, given, session, dialog, loads
<1>2. WriteEnds => restore \notin Callers
  BY DEF WriteEnds, Overtaken
<1>3. harness.seeds => Contents = {}
  BY <1>0 DEF Contents, JournalOwns, HarnessTypes
<1>4. SavedInv'
  <2>1. CASE WriterTakes
    BY <1>0, <1>1, <1>3, <2>1 DEF WriterTakes, SavedInv
  <2>2. CASE WriteEnds
    BY <1>0, <1>1, <1>2, <1>3, <2>2 DEF WriteEnds, SavedInv
  <2> QED
    BY <2>1, <2>2
<1>5. JournalInv'
  BY <1>0, <1>1 DEF JournalInv
<1>6. ASSUME ~harness.journal PROVE StreamInv'
  <2>1. Contents = mem
    BY <1>6 DEF Contents, JournalOwns
  <2>2. WillShow' = WillShow /\ InTurns' = InTurns
    BY <1>1 DEF WillShow, InTurns
  <2>3. CASE WriterTakes
    <3>1. /\ writer = "starting" /\ writer' = "writing" /\ outgoing' = mem
          /\ UNCHANGED <<saved, file>>
      BY <2>1, <2>3 DEF WriterTakes
    <3>2. Tracked' <=> Tracked
      BY <1>1, <3>1 DEF Tracked
    <3> QED
      BY <1>0, <1>1, <1>6, <2>2, <3>1, <3>2 DEF StreamInv
  <2>4. CASE WriteEnds
    <3>1. /\ writer = "writing" /\ file' = outgoing /\ saved'
          /\ \/ dirty /\ outgoing' = mem /\ ~dirty' /\ writer' = "writing"
             \/ ~dirty /\ ~dirty' /\ writer' = "idle"
      BY <2>1, <2>4 DEF WriteEnds
    <3>2. Tracked /\ Tracked'
      BY <1>0, <1>1, <1>2, <1>6, <2>4, <3>1 DEF StreamInv, Tracked, FlagTypes
    <3> QED
      BY <1>0, <1>1, <1>6, <2>2, <3>1, <3>2 DEF StreamInv
  <2> QED
    BY <2>3, <2>4
<1>7. StreamInv'
  BY <1>1, <1>6 DEF StreamInv
<1> QED
  BY <1>4, <1>5, <1>7 DEF DataInv

LEMMA TurnKeeps ==
    ASSUME LoadTypes, FlightInv, DataInv,
           ReplyArrives \/ LateChunk \/ TurnIsOver \/ HarnessStores
    PROVE  DataInv'
<1> USE Marks
<1>0. HarnessTypes /\ FlagTypes /\ FlightTypes /\ SavedInv /\ JournalInv /\ StreamInv
  BY DEF LoadTypes, DataInv
<1>1. CASE ReplyArrives
  <2>1. SavedInv' /\ JournalInv'
    BY <1>0, <1>1 DEF SavedInv, JournalInv, ReplyArrives, given, session, loads, snapshot, disk
  <2>2. StreamInv'
    BY <1>0, <1>1 DEF StreamInv, WillShow, Tracked, ReplyArrives, given, session, loads, snapshot, disk
  <2> QED
    BY <2>1, <2>2 DEF DataInv
<1>2. CASE LateChunk
  <2>1. /\ UNCHANGED <<given, stored, session, replaying, dialog, loads, snapshot>>
        /\ turnNow = "over" /\ mem' = mem \cup {"r"}
    BY <1>2 DEF LateChunk
  <2>2. SavedInv' /\ JournalInv'
    BY <1>0, <2>1 DEF SavedInv, JournalInv, given, session, dialog, loads, snapshot, disk
  <2>3. ASSUME ~harness.journal PROVE StreamInv'
    <3>1. /\ UNCHANGED <<harness, past, stored, loaded, replaying, turnNow, spoken, current, callAt,
                         previous, toReplay, restore, saved, file, writer, outgoing, dirty>>
          /\ (Tracked' <=> Tracked) /\ InTurns' = InTurns /\ WillShow \subseteq WillShow'
      BY <2>1 DEF given, session, dialog, loads, snapshot, disk, Tracked, InTurns, WillShow
    <3>2. ~(~saved /\ writer = "idle") /\ ~(restore = "unread" /\ ~loaded)
      BY <1>0, <2>1, <2>3 DEF StreamInv
    <3>3. Tracked /\ ~replaying => spoken \subseteq mem
      BY <1>0, <2>3 DEF StreamInv, WillShow
    <3>4. Tracked /\ ~replaying /\ writer = "idle" => file \cap InTurns = mem \cap InTurns
      BY <1>0, <2>1, <2>3 DEF StreamInv
    <3>5. Tracked /\ ~replaying /\ writer = "writing" /\ ~dirty
            => outgoing \cap InTurns = mem \cap InTurns
      BY <1>0, <2>1, <2>3 DEF StreamInv
    <3>6. "r" \notin past
      BY <1>0 DEF HarnessTypes, History
    <3>7. Tracked /\ ~replaying => mem' \cap InTurns = mem \cap InTurns
      BY <2>1, <3>3, <3>6 DEF InTurns
    <3> QED
      BY <1>0, <2>1, <2>3, <3>1, <3>2, <3>3, <3>4, <3>5, <3>7 DEF StreamInv
  <2>4. StreamInv'
    BY <2>1, <2>3 DEF StreamInv, given
  <2> QED
    BY <2>2, <2>4 DEF DataInv
<1>3. CASE TurnIsOver
  <2>1. SavedInv' /\ JournalInv'
    BY <1>0, <1>3 DEF SavedInv, JournalInv, TurnIsOver, Persist, given, session, loads
  <2>2. StreamInv'
    BY <1>0, <1>3 DEF StreamInv, WillShow, Tracked, TurnIsOver, Persist, given, session, loads
  <2> QED
    BY <2>1, <2>2 DEF DataInv
<1>4. CASE HarnessStores
  <2>1. UNCHANGED <<given, mem, session, replaying, dialog, loads, snapshot>>
    BY <1>4 DEF HarnessStores
  <2>2. SavedInv' /\ JournalInv' /\ StreamInv'
    BY <1>0, <2>1 DEF SavedInv, JournalInv, StreamInv, WillShow, Tracked, InTurns, given, session,
       dialog, loads, snapshot, disk
  <2> QED
    BY <2>2 DEF DataInv
<1> QED
  BY <1>1, <1>2, <1>3, <1>4

LEMMA EvictKeeps ==
    ASSUME LoadTypes, FlightInv, DataInv, EvictIdle
    PROVE  DataInv'
<1> USE Marks
<1>0. HarnessTypes /\ FlagTypes /\ SavedInv /\ JournalInv /\ StreamInv
  BY DEF LoadTypes, DataInv
<1>1. \A d \in Callers : callAt[d] \notin Loading /\ callAt[d] # "restored"
  BY DEF EvictIdle, FlightInv, OneLoad, Waiting
<1>2. /\ UNCHANGED <<harness, past, stored, replaying, spoken, current, callAt, previous, toReplay,
                     saved, file, writer, outgoing, dirty>>
      /\ mem # {} /\ turnNow # "live" /\ ~replaying /\ restore \notin Callers /\ writer = "idle"
      /\ mem' = {} /\ ~loaded' /\ restore' = "unread" /\ turnNow' = "none"
  BY DEF EvictIdle, given, loads, disk
<1>3. SavedInv' /\ JournalInv'
  BY <1>0, <1>1, <1>2 DEF SavedInv, JournalInv, Loading, ReplayStages
<1>4. ASSUME ~harness.journal PROVE StreamInv'
  <2>1. saved /\ Tracked /\ ~Tracked'
    BY <1>0, <1>2, <1>4 DEF StreamInv, Tracked, FlagTypes
  <2>2. spoken \subseteq file
    BY <1>0, <1>2, <1>4, <2>1 DEF StreamInv, WillShow, InTurns
  <2> QED
    BY <1>1, <1>2, <1>4, <2>1, <2>2 DEF StreamInv, Loading
<1> QED
  BY <1>2, <1>3, <1>4 DEF DataInv, StreamInv

-----------------------------------------------------------------------------
LEMMA LoadsInvInit ==
    ASSUME LoadsInit
    PROVE  LoadsInv
<1> USE Marks
<1>1. FlightInv
  BY DEF LoadsInit, Listed, Created, FlightInv, OneLoad, ReplayMarked, HarnessWays, Loading, ReplayStages
<1>2. HarnessTypes
  BY LoadTypesInit DEF LoadTypes
<1>3. SavedInv
  BY <1>2 DEF LoadsInit, Listed, Created, SavedInv
<1>4. JournalInv
  BY <1>2 DEF LoadsInit, Listed, Created, JournalInv, ReplayStages
<1>5. StreamInv
  BY <1>2 DEF LoadsInit, Listed, Created, StreamInv, WillShow, Tracked, InTurns
<1> QED
  BY <1>1, <1>3, <1>4, <1>5, LoadTypesInit DEF LoadsInv

(* What has happened to a Session is not undone. *)
LEMMA MishapStays ==
    ASSUME [LoadsNext]_loadsVars, mishap \in Mishaps
    PROVE  /\ mishap = "refused" => mishap' = "refused"
           /\ mishap' = "none" => mishap = "none"
<1>1. CASE UNCHANGED loadsVars
  BY <1>1 DEF loadsVars
<1>2. ASSUME NEW c \in Callers,
             Restore(c) \/ Read(c) \/ Claim(c) \/ Catalog(c) \/ Prompt(c)
             \/ JournalShown(c) \/ Prepared(c) \/ Replay(c)
      PROVE  UNCHANGED mishap
  BY <1>2 DEF Restore, Read, Claim, Catalog, Prompt, JournalShown, Prepared, Replay
<1>3. ASSUME NEW c \in Callers, JournalRead(c) \/ Resumed(c) \/ LoadAnswered(c) \/ ReplaySettled(c)
      PROVE  UNCHANGED mishap
  BY <1>3 DEF JournalRead, Resumed, LoadAnswered, ReplaySettled, Succeed
<1>4. ASSUME NEW c \in Callers, JournalRefused(c) \/ JournalUnread(c) \/ ResumeRefused(c) \/ LoadRefused(c)
      PROVE  mishap' = "refused"
  BY <1>4 DEF JournalRefused, JournalUnread, ResumeRefused, LoadRefused, RefuseLoad
<1>5. ASSUME NEW c \in Callers, SnapshotRead(c) PROVE mishap' \in {mishap, Overtaken}
  BY <1>5 DEF SnapshotRead
<1>6. CASE WriterTakes \/ WriteEnds \/ WriteFails
  <2>1. mishap' \in {mishap, Overtaken, "refused"}
    BY <1>6 DEF WriterTakes, WriteEnds, WriteFails
  <2> QED
    BY <1>6, <2>1 DEF Overtaken, Mishaps
<1>7. CASE ReplyArrives \/ LateChunk \/ TurnIsOver \/ HarnessStores \/ EvictIdle
  BY <1>7 DEF ReplyArrives, LateChunk, TurnIsOver, HarnessStores, EvictIdle
<1>8. CASE \E c \in Callers : SnapshotRead(c)
  BY <1>5, <1>8 DEF Overtaken, Mishaps
<1> QED
  BY <1>1, <1>2, <1>3, <1>4, <1>6, <1>7, <1>8 DEF LoadsNext, Step

(* Every step keeps the invariant. *)
LEMMA LoadsInvStep ==
    ASSUME LoadsInv, [LoadsNext]_loadsVars
    PROVE  LoadsInv'
<1>1. LoadTypes /\ LoadTypes'
  BY LoadTypesKept DEF LoadsInv
<1>2. /\ mishap = "refused" => mishap' = "refused"
      /\ mishap' = "none" => mishap = "none"
  BY <1>1, MishapStays DEF LoadTypes, FlagTypes
<1>3. ASSUME mishap' # "refused" PROVE FlightInv' /\ (mishap' = "none" => DataInv')
  <2>1. FlightInv /\ (mishap' = "none" => DataInv)
    BY <1>2, <1>3 DEF LoadsInv, DataInv
  <2>2. ASSUME NEW c \in Callers, Read(c) \/ Claim(c) \/ Catalog(c) \/ Prompt(c)
        PROVE  FlightInv' /\ (mishap' = "none" => DataInv')
    <3>1. Asked(c)
      BY <1>1, <2>1, <2>2, AskedIs
    <3> QED
      BY <1>1, <2>1, <3>1, AskedFlight, AskedKeeps
  <2>3. ASSUME NEW c \in Callers,
               Prepared(c) \/ JournalRead(c) \/ JournalUnread(c) \/ Resumed(c)
               \/ ResumeRefused(c)
               \/ LoadAnswered(c) \/ ReplaySettled(c) \/ LoadRefused(c)
        PROVE  FlightInv' /\ (mishap' = "none" => DataInv')
    <3>1. Proceeds(c) \/ Ends(c)
      BY <1>1, <1>3, <2>1, <2>3, LoadStepIs
    <3> QED
      BY <1>1, <2>1, <3>1, ProceedsFlight, ProceedsKeeps, EndsFlight, EndsKeeps
  <2>4. ASSUME NEW c \in Callers, Restore(c) \/ SnapshotRead(c) \/ JournalShown(c) \/ Replay(c)
        PROVE  FlightInv' /\ (mishap' = "none" => DataInv')
    <3>1. FlightInv'
      BY <1>1, <2>1, <2>4, RestFlight
    <3>2. mishap' = "none" => DataInv'
      BY <1>1, <2>1, <2>4, RestoreKeeps, SnapshotReadKeeps, JournalShownKeeps, ReplayKeeps
    <3> QED
      BY <3>1, <3>2
  <2>5. ASSUME NEW c \in Callers, JournalRefused(c) PROVE FALSE
    BY <1>3, <2>5 DEF JournalRefused
  <2>6. CASE WriteFails
    BY <1>3, <2>6 DEF WriteFails
  <2>7. CASE UNCHANGED loadsVars
    <3>1. mishap' = "none" => DataInv'
      BY <2>1, <2>7 DEF loadsVars, DataInv, SavedInv, JournalInv, StreamInv, WillShow, Tracked,
         InTurns, given, session, dialog, loads, snapshot, disk
    <3> QED
      BY <1>1, <2>1, <2>7, <3>1, RestFlight
  <2>8. CASE WriterTakes \/ WriteEnds
    BY <1>1, <2>1, <2>8, RestFlight, WriterKeeps
  <2>9. CASE ReplyArrives \/ LateChunk \/ TurnIsOver \/ HarnessStores \/ EvictIdle
    BY <1>1, <2>1, <2>9, RestFlight, TurnKeeps, EvictKeeps
  <2> QED
    BY <2>2, <2>3, <2>4, <2>5, <2>6, <2>7, <2>8, <2>9 DEF LoadsNext, Step
<1> QED
  BY <1>1, <1>3 DEF DataInv, LoadsInv

(* The inductive invariant: until a load, a read or a write fails, loads   *)
(* come one at a time (#loads of acp-service.js); and until a snapshot is  *)
(* read over more than it holds, everything said is in the transcript, put *)
(* aside by the load under way, or in the file that is still to be read.   *)
THEOREM LoadsInvariant == LoadsSpec => []LoadsInv
<1>1. LoadsInv /\ [LoadsNext]_loadsVars => LoadsInv'
  BY LoadsInvStep
<1> QED
  BY <1>1, LoadsInvInit, PTL DEF LoadsSpec

LEMMA LoadTypesAre == LoadTypes => LoadsTypeOK
BY DEF LoadTypes, HarnessTypes, FlagTypes, TextTypes, FlightTypes, LoadsTypeOK

(* The types, whatever fails. *)
THEOREM LoadTypesHold == LoadsSpec => []LoadsTypeOK
<1>1. LoadTypes /\ [LoadsNext]_loadsVars => LoadTypes'
  BY LoadTypesKept
<1> QED
  BY <1>1, LoadTypesInit, LoadTypesAre, PTL DEF LoadsSpec

(* At rest no replay is open, so that what was put aside is back in the    *)
(* transcript, and no snapshot is being read.                              *)
LEMMA LoadsInvGives ==
    ASSUME LoadsInv
    PROVE  WholeBetweenLoads /\ SnapshotCatchesUp
<1> SUFFICES ASSUME mishap # "refused" PROVE WholeBetweenLoads /\ SnapshotCatchesUp
  BY DEF WholeBetweenLoads, SnapshotCatchesUp
<1>1. /\ HarnessTypes /\ FlagTypes /\ FlightTypes /\ FlightInv
      /\ mishap = "none" => JournalInv /\ StreamInv
  BY DEF LoadsInv, LoadTypes
<1>2. \A c, d \in UnderWay : c = d
  BY <1>1 DEF UnderWay, FlightInv, OneLoad
<1>3. ASSUME AtRest PROVE ~replaying
  BY <1>1, <1>3 DEF AtRest, UnderWay, FlightInv, ReplayMarked, FlightTypes, ReplayStages, Loading
<1>4. ASSUME AtRest, loaded, mishap = "none"
      PROVE  /\ past \subseteq mem
             /\ ~harness.journal => spoken \subseteq mem /\ Tracked /\ ~replaying
  <2>1. Tracked
    BY <1>1, <1>4 DEF AtRest, Tracked, FlagTypes
  <2> QED
    BY <1>1, <1>3, <1>4, <2>1 DEF JournalInv, StreamInv, WillShow
<1>5. WholeBetweenLoads
  BY <1>2, <1>4 DEF WholeBetweenLoads
<1>6. SnapshotCatchesUp
  BY <1>1, <1>4 DEF SnapshotCatchesUp, StreamInv, InTurns
<1> QED
  BY <1>5, <1>6

(* However many calls read, open and prompt at once, until a load fails    *)
(* there is one load at a time, and until a snapshot is read over more     *)
(* than it holds, the transcript of a loaded Session that is at rest has   *)
(* what it had before and what was said in turns since (the blanking,      *)
(* replaying and merging of acp-service.js #loadSession()).                *)
THEOREM WholeBetweenLoadsHolds == LoadsSpec => []WholeBetweenLoads
BY LoadsInvariant, LoadsInvGives, PTL

(* The snapshot file of a Session without a journal has what its turns     *)
(* said, once the writer is idle: #persistSnapshot()'s mark is cleared     *)
(* before the messages are taken, never after.                             *)
THEOREM SnapshotCatchesUpHolds == LoadsSpec => []SnapshotCatchesUp
BY LoadsInvariant, LoadsInvGives, PTL
=============================================================================
