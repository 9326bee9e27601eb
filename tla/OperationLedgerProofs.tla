------------------------ MODULE OperationLedgerProofs ------------------------
(***************************************************************************)
(* What TLAPS proves of OperationLedger, for any sets of operations,       *)
(* requests, Sessions and handlers and any bounds.                         *)
(*                                                                         *)
(* First what the agents do (IssueInv): an operation is carried out at     *)
(* most once, and what was is in the file.  Then what clients are told:    *)
(* "accepted" is only said of what was taken, an entry names the           *)
(* request that was issued, every answer for one handoff names one         *)
(* Session, the ledger implements MutationPromise, and answers survive a   *)
(* restart as long as the file can be written.  That takes four more       *)
(* invariants, each on top of the ones before it: WorkInv, RecordInv,      *)
(* NameInv and DiskInv.                                                    *)
(***************************************************************************)
EXTENDS OperationLedger, TLAPS

(* Types, and a handler that serves something knows its request. *)
Busy == \A h \in Handlers : handler[h].pc # "idle" => handler[h].req \in Requests

TypeInv == TypeOK /\ Busy

-----------------------------------------------------------------------------
(* The helpers are well typed. *)
LEMMA NoEntryType == NoEntry \in Entry
BY DEF NoEntry, Entry, EntryStates

LEMMA IdleType == Idle \in HandlerState
BY DEF Idle, HandlerState, Stages

LEMMA CurrentType == TypeOK => Current \in [Ops -> Entry]
BY DEF TypeOK, Current

LEMMA OpType ==
    ASSUME TypeInv, NEW h \in Handlers, handler[h].pc # "idle"
    PROVE  Op(h) \in Ops /\ handler[h].req \in Requests
BY ConstantsAssumption DEF TypeInv, Busy, Op

(* Entering the #serial chain with a well-typed map keeps the types. *)
LEMMA EnterType ==
    ASSUME TypeOK, NEW h \in Handlers, NEW map \in [Ops -> Entry], NEW o \in Ops,
           Enter(h, map, o)
    PROVE  /\ loaded' \in BOOLEAN
           /\ ledger' \in [Ops -> Entry]
           /\ lock' \in Handlers \cup {NoHandler}
           /\ forgotten' \subseteq Ops
<1>1. PICK T \in Trims(map, o) :
         /\ ledger' = [k \in Ops |-> IF k \in T THEN NoEntry ELSE map[k]]
         /\ forgotten' = forgotten \cup {k \in T : map[k].state = "accepted"}
  BY DEF Enter
<1>2. T \subseteq Ops
  BY DEF Trims
<1> QED
  BY <1>1, <1>2, NoEntryType DEF Enter, TypeOK

(* A handler that answers, with or without an acknowledgement, keeps the types. *)
LEMMA AnswerType ==
    ASSUME TypeInv, NEW h \in Handlers, Answer(h)
    PROVE  handler' \in [Handlers -> HandlerState] /\ acks' \subseteq Acknowledgement /\ Busy'
BY IdleType DEF TypeInv, TypeOK, Busy, Answer, Idle

LEMMA AcknowledgeType ==
    ASSUME TypeInv, NEW h \in Handlers, NEW target \in Sessions \cup {NoSession},
           handler[h].pc # "idle", Acknowledge(h, target)
    PROVE  handler' \in [Handlers -> HandlerState] /\ acks' \subseteq Acknowledgement /\ Busy'
BY IdleType, OpType DEF TypeInv, TypeOK, Busy, Acknowledge, Idle, Acknowledgement

LEMMA GotoType ==
    ASSUME TypeInv, NEW h \in Handlers, NEW stage \in Stages,
           handler[h].pc # "idle", Goto(h, stage)
    PROVE  handler' \in [Handlers -> HandlerState] /\ Busy'
BY DEF TypeInv, TypeOK, Busy, Goto, HandlerState

(* An agent's work keeps the types. *)
LEMMA ApplyType ==
    ASSUME TypeOK, NEW r \in Requests, NEW session \in Sessions \cup {NoSession},
           Apply(r, session)
    PROVE  applied' \in [Requests -> Nat] /\ madeBy' \in [Sessions -> Ops \cup {Nobody, Elsewhere}]
BY ConstantsAssumption DEF TypeOK, Apply

(* What accept does when it throws keeps the types. *)
LEMMA AcceptThrowsType ==
    ASSUME TypeInv, NEW h \in Handlers, At(h, AcceptStages), AcceptThrows(h)
    PROVE  handler' \in [Handlers -> HandlerState] /\ acks' \subseteq Acknowledgement /\ Busy'
<1>0. handler[h].pc # "idle" /\ handler[h].target \in Sessions \cup {NoSession}
  BY DEF At, AcceptStages, TypeInv, TypeOK, HandlerState
<1>1. CASE Goto(h, "failUncertain") /\ UNCHANGED acks
  BY <1>0, <1>1, GotoType DEF Stages, TypeInv, TypeOK
<1>2. CASE Acknowledge(h, handler[h].target)
  BY <1>0, <1>2, AcknowledgeType
<1>3. CASE Answer(h)
  BY <1>3, AnswerType
<1> QED
  BY <1>1, <1>2, <1>3 DEF AcceptThrows

-----------------------------------------------------------------------------
(* Every step of a handler keeps the types. *)
LEMMA StepType ==
    ASSUME TypeInv, NEW h \in Handlers, Step(h)
    PROVE  TypeInv'
<1> USE DEF TypeInv
<1>a. /\ handler \in [Handlers -> HandlerState]
      /\ handler[h].target \in Sessions \cup {NoSession}
      /\ Current \in [Ops -> Entry]
  BY CurrentType DEF TypeOK, HandlerState
<1>1. CASE BeginNew(h)
  <2>1. handler[h].pc # "idle"
    BY <1>1 DEF BeginNew, At
  <2> DEFINE entry == [NoEntry EXCEPT !.state = "pending", !.req = handler[h].req]
             map == [Current EXCEPT ![Op(h)] = entry]
  <2>2. Op(h) \in Ops /\ map \in [Ops -> Entry]
    BY <1>a, <2>1, OpType DEF Entry, EntryStates, NoEntry
  <2>3. Enter(h, map, Op(h)) /\ UNCHANGED <<handler, acks>>
    BY <1>1 DEF BeginNew
  <2> HIDE DEF map
  <2> QED
    BY <2>2, <2>3, EnterType DEF Enter, TypeOK, Busy, worldVars, queueVars, bounds
<1>2. CASE BeginConflict(h)
  BY <1>2, <1>a, AnswerType DEF BeginConflict, TypeOK, worldVars, queueVars, bounds
<1>3. CASE BeginDuplicate(h)
  <2>1. handler[h].pc # "idle"
    BY <1>3 DEF BeginDuplicate, At
  <2> DEFINE entry == Current[Op(h)]
  <2>2. entry \in Entry
    BY <1>a, <2>1, OpType
  <2>3. /\ loaded' = TRUE
        /\ ledger' = Current
        /\ UNCHANGED <<lock, disk, forgotten, worldVars, bounds>>
    BY <1>3 DEF BeginDuplicate
  <2>4. handler' \in [Handlers -> HandlerState] /\ acks' \subseteq Acknowledgement /\ Busy'
    <3>1. CASE handler' = [handler EXCEPT ![h].pc = "reconcile", ![h].before = entry.before]
               /\ UNCHANGED acks
      <4>1. entry.before \in SUBSET Sessions
        BY <2>2 DEF Entry
      <4>2. [handler[h] EXCEPT !.pc = "reconcile", !.before = entry.before] \in HandlerState
        BY <1>a, <4>1 DEF HandlerState, Stages
      <4>3. handler[h].req \in Requests
        BY <2>1, OpType
      <4>4. /\ handler' = [handler EXCEPT ![h] =
                            [@ EXCEPT !.pc = "reconcile", !.before = entry.before]]
            /\ acks' = acks
        BY <1>a, <3>1
      <4> QED
        BY <1>a, <4>2, <4>3, <4>4 DEF TypeOK, Busy
    <3>2. CASE Acknowledge(h, entry.target)
      BY <2>1, <2>2, <3>2, AcknowledgeType DEF Entry
    <3>3. CASE Answer(h)
      BY <3>3, AnswerType
    <3> QED
      BY <1>3, <3>1, <3>2, <3>3 DEF BeginDuplicate
  <2> QED
    BY <1>a, <2>3, <2>4 DEF TypeOK, worldVars, queueVars, bounds
<1>4. CASE LoadFails(h)
  BY <1>4, AnswerType, BoundsAssumption DEF LoadFails, TypeOK, worldVars, queueVars
<1>5. CASE BeginSaved(h)
  <2>1. handler[h].pc # "idle" /\ Persist(h) /\ UNCHANGED acks
    BY <1>5 DEF BeginSaved, At
  <2>2. handler' \in [Handlers -> HandlerState] /\ Busy'
    BY <1>5, <2>1, GotoType DEF BeginSaved, Stages
  <2> QED
    BY <2>1, <2>2 DEF Persist, TypeOK, worldVars, queueVars, bounds
<1>6. CASE BeginUnsaved(h)
  BY <1>6, AnswerType, BoundsAssumption DEF BeginUnsaved, PersistFails, TypeOK, worldVars, queueVars
<1>7. CASE ListTargets(h)
  <2>1. [handler[h] EXCEPT !.pc = "call", !.before = Existing] \in HandlerState
    BY <1>a DEF HandlerState, Stages, Existing
  <2>2. handler[h].req \in Requests
    BY <1>7, OpType DEF ListTargets, At
  <2>3. handler' = [handler EXCEPT ![h] = [@ EXCEPT !.pc = "call", !.before = Existing]]
    BY <1>7, <1>a DEF ListTargets
  <2> QED
    BY <1>7, <1>a, <2>1, <2>2, <2>3
       DEF ListTargets, TypeOK, Busy, ledgerVars, worldVars, queueVars, bounds
<1>8. CASE Refused(h)
  <2>1. handler[h].pc # "idle" /\ Goto(h, "failRejected")
    BY <1>8 DEF Refused, At
  <2> QED
    BY <1>8, <2>1, GotoType DEF Refused, Stages, TypeOK, ledgerVars, worldVars, queueVars, bounds
<1>9. CASE CallLost(h)
  <2>1. handler[h].pc # "idle" /\ Goto(h, "failUncertain")
    BY <1>9 DEF CallLost, At
  <2>2. orphans' \in [Requests -> Nat]
    BY <1>9, <2>1, OpType DEF CallLost, TypeOK
  <2> QED
    BY <1>9, <2>1, <2>2, GotoType DEF CallLost, Stages, TypeOK, ledgerVars, queueVars, bounds
<1>10. ASSUME NEW session \in Sessions \cup {NoSession}, CallSucceeds(h, session)
       PROVE  TypeInv'
  <2>1. handler[h].pc # "idle"
    BY <1>10 DEF CallSucceeds, At
  <2>2. /\ applied' \in [Requests -> Nat]
        /\ madeBy' \in [Sessions -> Ops \cup {Nobody, Elsewhere}]
        /\ orphans' \in [Requests -> Nat] /\ queued' \in [Requests -> Nat]
        /\ dropped' \in [Requests -> Nat] /\ taken' \subseteq Requests
    <3>1. handler[h].req \in Requests /\ taken' = taken \cup {handler[h].req}
      BY <1>10, <2>1, OpType DEF CallSucceeds
    <3>2. CASE Op(h) \in Handoffs
      BY <1>10, <3>1, <3>2, ApplyType DEF CallSucceeds, TypeOK
    <3>3. CASE Op(h) \notin Handoffs
      BY <1>10, <3>1, <3>3 DEF CallSucceeds, TakeOver, TypeOK
    <3> QED
      BY <3>2, <3>3
  <2>3. handler' \in [Handlers -> HandlerState] /\ Busy'
    <3> DEFINE stage == IF Op(h) \in Handoffs THEN "checkpoint" ELSE "accept"
    <3>1. [handler[h] EXCEPT !.pc = stage, !.target = session] \in HandlerState
      BY <1>a DEF HandlerState, Stages
    <3>2. handler[h].req \in Requests
      BY <2>1, OpType
    <3>3. handler' = [handler EXCEPT ![h] = [@ EXCEPT !.pc = stage, !.target = session]]
      BY <1>10, <1>a DEF CallSucceeds
    <3> QED
      BY <1>a, <3>1, <3>2, <3>3 DEF Busy
  <2> QED
    BY <1>10, <2>2, <2>3 DEF CallSucceeds, TypeOK, ledgerVars, bounds
<1>11. CASE EnterAccept(h)
  <2>1. handler[h].pc # "idle"
    BY <1>11 DEF EnterAccept, At, AcceptStages
  <2> DEFINE entry == [Current[Op(h)] EXCEPT !.state = "accepted",
                         !.target = handler[h].target, !.before = {}]
             map == [Current EXCEPT ![Op(h)] = entry]
  <2>2. Op(h) \in Ops /\ map \in [Ops -> Entry]
    BY <1>a, <2>1, OpType DEF Entry, EntryStates
  <2>3. Enter(h, map, Op(h)) /\ UNCHANGED <<handler, acks>>
    BY <1>11 DEF EnterAccept
  <2> HIDE DEF map
  <2> QED
    BY <2>2, <2>3, EnterType DEF Enter, TypeOK, Busy, worldVars, queueVars, bounds
<1>12. CASE CheckpointSaved(h)
  <2>1. handler[h].pc # "idle" /\ Persist(h) /\ UNCHANGED acks
    BY <1>12 DEF CheckpointSaved, At
  <2>2. handler' \in [Handlers -> HandlerState] /\ Busy'
    BY <1>12, <2>1, GotoType DEF CheckpointSaved, Stages
  <2> QED
    BY <2>1, <2>2 DEF Persist, TypeOK, worldVars, queueVars, bounds
<1>13. CASE AcceptSaved(h)
  <2>1. handler[h].pc # "idle" /\ Persist(h) /\ Acknowledge(h, handler[h].target)
    BY <1>13 DEF AcceptSaved, At
  <2> QED
    BY <1>a, <2>1, AcknowledgeType DEF Persist, TypeOK, worldVars, queueVars, bounds
<1>14. CASE AcceptUnsaved(h)
  BY <1>14, AcceptThrowsType, BoundsAssumption DEF AcceptUnsaved, PersistFails, TypeOK, worldVars, queueVars
<1>15. CASE AcceptMissing(h)
  BY <1>15, AcceptThrowsType DEF AcceptMissing, TypeOK, ledgerVars, worldVars, queueVars, bounds
<1>16. CASE EnterFail(h)
  <2>1. handler[h].pc # "idle" /\ handler[h].before \in SUBSET Sessions
    BY <1>16, <1>a DEF EnterFail, At, FailStages, HandlerState
  <2> DEFINE old == Current[Op(h)]
             uncertain == IF Op(h) \in Handoffs
                          THEN [old EXCEPT !.state = "uncertain", !.target = NoSession,
                                           !.before = handler[h].before]
                          ELSE [old EXCEPT !.state = "uncertain"]
             entry == IF At(h, {"failUncertain"}) THEN uncertain ELSE NoEntry
             map == [Current EXCEPT ![Op(h)] = entry]
  <2>2. entry \in Entry
    BY <1>a, <2>1, OpType, NoEntryType DEF Entry, EntryStates
  <2>3. Op(h) \in Ops /\ map \in [Ops -> Entry]
    BY <1>a, <2>1, <2>2, OpType
  <2>4. Enter(h, map, Op(h)) /\ UNCHANGED <<handler, acks>>
    BY <1>16 DEF EnterFail
  <2> HIDE DEF map
  <2> QED
    BY <2>3, <2>4, EnterType DEF Enter, TypeOK, Busy, worldVars, queueVars, bounds
<1>17. CASE FailSaved(h)
  BY <1>17, AnswerType DEF FailSaved, Persist, TypeOK, worldVars, queueVars, bounds
<1>18. CASE FailUnsaved(h)
  BY <1>18, AnswerType, BoundsAssumption DEF FailUnsaved, PersistFails, TypeOK, worldVars, queueVars
<1>19. CASE FailMissing(h)
  BY <1>19, AnswerType DEF FailMissing, TypeOK, ledgerVars, worldVars, queueVars, bounds
<1>20. ASSUME NEW session \in Sessions, Reconcile(h, session)
       PROVE  TypeInv'
  <2>1. [handler[h] EXCEPT !.pc = "adopt", !.target = session] \in HandlerState
    BY <1>a DEF HandlerState, Stages
  <2>2. handler[h].req \in Requests
    BY <1>20, OpType DEF Reconcile, At
  <2>3. handler' = [handler EXCEPT ![h] = [@ EXCEPT !.pc = "adopt", !.target = session]]
    BY <1>20, <1>a DEF Reconcile
  <2> QED
    BY <1>20, <1>a, <2>1, <2>2, <2>3
       DEF Reconcile, TypeOK, Busy, ledgerVars, worldVars, queueVars, bounds
<1>21. CASE ReconcileNothing(h)
  BY <1>21, AnswerType DEF ReconcileNothing, TypeOK, ledgerVars, worldVars, queueVars, bounds
<1> QED
  BY <1>1, <1>2, <1>3, <1>4, <1>5, <1>6, <1>7, <1>8, <1>9, <1>10, <1>11, <1>12, <1>13,
     <1>14, <1>15, <1>16, <1>17, <1>18, <1>19, <1>20, <1>21 DEF Step

(* So does every step of the environment. *)
LEMMA EnvironmentType ==
    ASSUME TypeInv, Environment
    PROVE  TypeInv'
<1> USE DEF TypeInv
<1>1. ASSUME NEW h \in Handlers, NEW r \in Requests, Receive(h, r)
      PROVE  TypeInv'
  BY <1>1 DEF Receive, TypeOK, Busy, Idle, HandlerState, Stages, ledgerVars, worldVars, queueVars, bounds
<1>2. ASSUME NEW r \in Requests, NEW session \in Sessions \cup {NoSession},
             LateDelivery(r, session)
      PROVE  TypeInv'
  <2>1. applied' \in [Requests -> Nat] /\ madeBy' \in [Sessions -> Ops \cup {Nobody, Elsewhere}]
    BY <1>2, ApplyType DEF LateDelivery
  <2>2. orphans' \in [Requests -> Nat]
    BY <1>2 DEF LateDelivery, TypeOK
  <2> QED
    BY <1>2, <2>1, <2>2 DEF LateDelivery, TypeOK, Busy, ledgerVars, queueVars, bounds
<1>3. ASSUME NEW session \in Sessions, SessionElsewhere(session)
      PROVE  TypeInv'
  BY <1>3 DEF SessionElsewhere, TypeOK, Busy, ledgerVars, queueVars, bounds
<1>4. CASE Crash
  <2>1. handler' \in [Handlers -> HandlerState] /\ ledger' \in [Ops -> Entry]
    BY <1>4, IdleType, NoEntryType DEF Crash
  <2>2. Busy'
    BY <1>4 DEF Crash, Busy, Idle
  <2>3. crashes' \in 0..MaxCrashes
    BY <1>4, BoundsAssumption DEF Crash, TypeOK
  <2>4. queued' \in [Requests -> Nat] /\ dropped' \in [Requests -> Nat]
    BY <1>4 DEF Crash, TypeOK
  <2> QED
    BY <1>4, <2>1, <2>2, <2>3, <2>4 DEF Crash, TypeOK
<1>5. ASSUME NEW r \in Requests, LeaveQueue(r)
      PROVE  TypeInv'
  <2>1. queued' \in [Requests -> Nat] /\ dropped' \in [Requests -> Nat]
    BY <1>5 DEF LeaveQueue, TypeOK
  <2> QED
    BY <1>5, <2>1 DEF LeaveQueue, TypeOK, Busy, ledgerVars, bounds
<1> QED
  BY <1>1, <1>2, <1>3, <1>4, <1>5 DEF Environment

(* Type correctness. *)
THEOREM TypeCorrect == Spec => []TypeInv
<1>1. Init => TypeInv
  <2> SUFFICES ASSUME Init PROVE TypeInv
    OBVIOUS
  <2>1. handler \in [Handlers -> HandlerState] /\ ledger \in [Ops -> Entry] /\ disk \in [Ops -> Entry]
    BY IdleType, NoEntryType DEF Init
  <2>2. Busy
    BY DEF Init, Busy, Idle
  <2>3. 0 \in 0..MaxCrashes /\ 0 \in 0..MaxWriteFailures /\ 0 \in 0..MaxReadFailures
    BY BoundsAssumption
  <2> QED
    BY <2>1, <2>2, <2>3 DEF Init, TypeInv, TypeOK
<1>2. TypeInv /\ [Next]_vars => TypeInv'
  <2> SUFFICES ASSUME TypeInv, [Next]_vars PROVE TypeInv'
    OBVIOUS
  <2>1. CASE UNCHANGED vars
    BY <2>1 DEF vars, ledgerVars, worldVars, queueVars, bounds, TypeInv, TypeOK, Busy
  <2> QED
    BY <2>1, StepType, EnvironmentType DEF Next
<1> QED
  BY <1>1, <1>2, PTL DEF Spec

(* Every variable of the ledger keeps its type.                            *)
THEOREM TypesHold == Spec => []TypeOK
<1>1. TypeInv => TypeOK
  BY DEF TypeInv
<1> QED
  BY <1>1, TypeCorrect, PTL

-----------------------------------------------------------------------------
(***************************************************************************)
(* At most once.  Only BeginNew makes an owner, and it does so when the    *)
(* map has no entry for the operation; while the operation is remembered   *)
(* that means nothing was issued and nobody owns it.  The entry reaches    *)
(* the file before the call is made, so a restart finds it.                *)
(***************************************************************************)

(* #trim only gives up entries it also marks forgotten; every other entry  *)
(* is the one the section wrote.                                           *)
LEMMA EnterKeeps ==
    ASSUME TypeOK, NEW h \in Handlers, NEW map \in [Ops -> Entry], NEW o \in Ops,
           Enter(h, map, o)
    PROVE  /\ forgotten \subseteq forgotten'
           /\ \A k \in Ops \ forgotten' : ledger'[k] = map[k]
           /\ lock' = h /\ loaded' = TRUE /\ disk' = disk
           /\ applied' = applied /\ orphans' = orphans
<1>1. PICK T \in Trims(map, o) :
         /\ ledger' = [k \in Ops |-> IF k \in T THEN NoEntry ELSE map[k]]
         /\ forgotten' = forgotten \cup {k \in T : map[k].state = "accepted"}
  BY DEF Enter
<1>2. \A k \in T : map[k].state = "accepted"
  BY DEF Trims
<1> QED
  BY <1>1, <1>2 DEF Enter, worldVars, queueVars

(* When nobody is inside the chain, Current is the map of every handler    *)
(* that owns something, and holds all that was issued.                     *)
LEMMA CurrentHolds ==
    ASSUME TypeInv, IssueInv, Free
    PROVE  /\ \A o \in Ops \ forgotten : Issued(o) => Current[o].state # "absent"
           /\ \A g \in Handlers : Owner(g) =>
                 loaded /\ Holds(g) /\ (Remembered(g) => Current[Op(g)].state # "absent")
<1>1. \A g \in Handlers : Owner(g) => loaded
  BY ConstantsAssumption
     DEF IssueInv, UnloadedIsEmpty, Owner, At, OwnerStages, FreshStages, Free
<1>2. \A g \in Handlers : lock # g
  BY ConstantsAssumption DEF Free
<1> QED
  BY <1>1, <1>2 DEF IssueInv, IssuedIsRecorded, OwnerHasEntry, Holds, Current

(* A step in which one handler answers, or moves on as the owner it is,    *)
(* and neither the map, the file nor the world changes.                    *)
LEMMA QuietStep ==
    ASSUME TypeInv, IssueInv, NEW h \in Handlers,
           UNCHANGED <<loaded, ledger, disk, forgotten, applied, orphans>>,
           lock' = lock \/ (lock = h /\ lock' = NoHandler), lock' # h,
           \A g \in Handlers \ {h} : handler'[g] = handler[g],
           \/ At(h, {"idle", "reconcile", "adopt"})' /\ (~loaded => At(h, {"idle"})')
           \/ /\ Holds(h) /\ loaded
              /\ At(h, OwnerStages \ {"begin"})'
              /\ handler'[h].req = handler[h].req
              /\ At(h, FreshStages)' => At(h, FreshStages)
              /\ At(h, {"list", "call"})' => At(h, {"list", "call"})
    PROVE  IssueInv'
<1> USE DEF IssueInv
<1>1. \A o \in Ops : Issued(o)' = Issued(o)
  BY DEF Issued
<1>2. \A g \in Handlers \ {h} :
        /\ Op(g)' = Op(g)
        /\ \A S : At(g, S)' = At(g, S)
        /\ Owner(g)' => Owner(g)
        /\ Holds(g)' => Holds(g)
        /\ Remembered(g)' = Remembered(g)
  BY ConstantsAssumption DEF Op, At, Owner, Holds, Remembered
<1>3. Owner(h)' => /\ Owner(h) /\ Holds(h) /\ Op(h)' = Op(h)
                   /\ Remembered(h)' = Remembered(h)
                   /\ At(h, FreshStages)' => At(h, FreshStages)
                   /\ At(h, {"list", "call"})' => At(h, {"list", "call"})
  BY DEF Op, At, Owner, Holds, Remembered, OwnerStages, FreshStages
<1>4. UnloadedIsEmpty' /\ LockHolder'
  BY ConstantsAssumption DEF UnloadedIsEmpty, LockHolder, Free, At
<1>5. IssuedIsRecorded'
  BY <1>1 DEF IssuedIsRecorded
<1>6. OneOwner'
  BY <1>2, <1>3 DEF OneOwner
<1>7. OwnerHasEntry'
  BY <1>2, <1>3 DEF OwnerHasEntry, Holds
<1>8. FreshOwner'
  <2> SUFFICES ASSUME NEW g \in Handlers, Owner(g)', Remembered(g)'
               PROVE  /\ At(g, FreshStages)' => ~Issued(Op(g))'
                      /\ At(g, {"list", "call"})' => (disk[Op(g)].state # "absent")'
    BY DEF FreshOwner
  <2>1. /\ Owner(g) /\ Remembered(g) /\ Op(g)' = Op(g)
        /\ At(g, FreshStages)' => At(g, FreshStages)
        /\ At(g, {"list", "call"})' => At(g, {"list", "call"})
    BY <1>2, <1>3
  <2>2. Issued(Op(g))' = Issued(Op(g))
    BY <2>1 DEF Issued
  <2> QED
    BY <2>1, <2>2 DEF FreshOwner
<1>9. IssuedOnce'
  BY DEF IssuedOnce
<1> QED
  BY <1>4, <1>5, <1>6, <1>7, <1>8, <1>9

(* A step in which the file takes over the map and its writer answers, or  *)
(* moves on as the owner it is.                                            *)
LEMMA PersistStep ==
    ASSUME TypeInv, IssueInv, NEW h \in Handlers, Persist(h),
           \A g \in Handlers \ {h} : handler'[g] = handler[g],
           \/ At(h, {"idle"})'
           \/ /\ Holds(h)
              /\ At(h, OwnerStages \ {"begin"})'
              /\ handler'[h].req = handler[h].req
              /\ At(h, FreshStages)' => At(h, FreshStages)
    PROVE  IssueInv'
<1> USE DEF IssueInv
<1>0. /\ loaded /\ loaded' /\ lock = h /\ lock' = NoHandler /\ disk' = ledger
      /\ UNCHANGED <<ledger, forgotten, applied, orphans>>
  BY ConstantsAssumption DEF Persist, UnloadedIsEmpty, Free, worldVars, queueVars, TypeInv, TypeOK
<1>1. \A o \in Ops : Issued(o)' = Issued(o)
  BY <1>0 DEF Issued
<1>2. \A g \in Handlers \ {h} :
        /\ Op(g)' = Op(g)
        /\ \A S : At(g, S)' = At(g, S)
        /\ Owner(g)' => Owner(g) /\ Holds(g)
        /\ Remembered(g)' = Remembered(g)
  BY <1>0, ConstantsAssumption DEF Op, At, Owner, Holds, Remembered
<1>3. Owner(h)' => /\ Owner(h) /\ Holds(h) /\ Op(h)' = Op(h)
                   /\ Remembered(h)' = Remembered(h)
                   /\ At(h, FreshStages)' => At(h, FreshStages)
  BY <1>0 DEF Op, At, Owner, Holds, Remembered, OwnerStages, FreshStages
<1>4. UnloadedIsEmpty' /\ LockHolder'
  BY <1>0, ConstantsAssumption DEF UnloadedIsEmpty, LockHolder
<1>5. IssuedIsRecorded'
  BY <1>0, <1>1 DEF IssuedIsRecorded
<1>6. OneOwner'
  BY <1>2, <1>3 DEF OneOwner
<1>7. OwnerHasEntry'
  BY <1>0, <1>2, <1>3 DEF OwnerHasEntry, Holds
<1>8. FreshOwner'
  <2> SUFFICES ASSUME NEW g \in Handlers, Owner(g)', Remembered(g)'
               PROVE  /\ At(g, FreshStages)' => ~Issued(Op(g))'
                      /\ (disk[Op(g)].state # "absent")'
    BY DEF FreshOwner
  <2>1. /\ Owner(g) /\ Holds(g) /\ Remembered(g) /\ Op(g)' = Op(g)
        /\ At(g, FreshStages)' => At(g, FreshStages)
    BY <1>2, <1>3
  <2>2. Issued(Op(g))' = Issued(Op(g))
    BY <1>0, <2>1 DEF Issued
  <2>3. ledger[Op(g)].state # "absent"
    BY <2>1 DEF OwnerHasEntry
  <2> QED
    BY <1>0, <2>1, <2>2, <2>3 DEF FreshOwner
<1>9. IssuedOnce'
  BY <1>0 DEF IssuedOnce
<1> QED
  BY <1>4, <1>5, <1>6, <1>7, <1>8, <1>9

(* begin on a known identity, for the same body or another: at most the    *)
(* file is read into the map.                                              *)
LEMMA KnownStep ==
    ASSUME TypeInv, IssueInv, NEW h \in Handlers, Free,
           At(h, {"begin"}), At(h, {"idle", "reconcile"})',
           \A g \in Handlers \ {h} : handler'[g] = handler[g],
           loaded' = TRUE, ledger' = Current,
           UNCHANGED <<lock, disk, forgotten, applied, orphans>>
    PROVE  IssueInv'
<1> USE DEF IssueInv
<1>1. \A o \in Ops : Issued(o)' = Issued(o)
  BY DEF Issued
<1>2. /\ ~Owner(h)'
      /\ \A g \in Handlers \ {h} :
           /\ Op(g)' = Op(g)
           /\ \A S : At(g, S)' = At(g, S)
           /\ Owner(g)' => Owner(g)
           /\ Remembered(g)' = Remembered(g)
  BY DEF Op, At, Owner, Remembered, OwnerStages, FreshStages
<1>3. UnloadedIsEmpty' /\ LockHolder'
  BY ConstantsAssumption DEF UnloadedIsEmpty, LockHolder, Free
<1>4. IssuedIsRecorded'
  BY <1>1, CurrentHolds DEF IssuedIsRecorded
<1>5. OneOwner'
  BY <1>2 DEF OneOwner
<1>6. OwnerHasEntry'
  BY <1>2, CurrentHolds DEF OwnerHasEntry, Holds
<1>7. FreshOwner'
  <2> SUFFICES ASSUME NEW g \in Handlers, Owner(g)', Remembered(g)'
               PROVE  /\ At(g, FreshStages)' => ~Issued(Op(g))'
                      /\ At(g, {"list", "call"})' => (disk[Op(g)].state # "absent")'
    BY DEF FreshOwner
  <2>1. Owner(g) /\ Remembered(g) /\ Op(g)' = Op(g) /\ \A S : At(g, S)' = At(g, S)
    BY <1>2
  <2>2. Issued(Op(g))' = Issued(Op(g))
    BY <2>1 DEF Issued
  <2> QED
    BY <2>1, <2>2 DEF FreshOwner
<1>8. IssuedOnce'
  BY DEF IssuedOnce
<1> QED
  BY <1>3, <1>4, <1>5, <1>6, <1>7, <1>8

(* A new pending entry: the handler becomes the only owner. *)
LEMMA BeginNewStep ==
    ASSUME TypeInv, IssueInv, NEW h \in Handlers, BeginNew(h)
    PROVE  IssueInv'
<1> USE DEF IssueInv
<1> DEFINE entry == [NoEntry EXCEPT !.state = "pending", !.req = handler[h].req]
           map == [Current EXCEPT ![Op(h)] = entry]
<1>0. /\ At(h, {"begin"}) /\ Free /\ Current[Op(h)].state = "absent"
      /\ Enter(h, map, Op(h)) /\ UNCHANGED <<handler, acks>>
  BY DEF BeginNew
<1>1. /\ handler[h].pc # "idle" /\ Op(h) \in Ops
      /\ entry.state = "pending" /\ map \in [Ops -> Entry]
      /\ Current \in [Ops -> Entry]
  BY <1>0, OpType, CurrentType DEF At, TypeInv, Entry, EntryStates, NoEntry
<1>2. \A o \in Ops : map[o].state # "absent" <=> o = Op(h) \/ Current[o].state # "absent"
  BY <1>1
<1> HIDE DEF map, entry
<1>3. /\ forgotten \subseteq forgotten'
      /\ \A k \in Ops \ forgotten' : ledger'[k] = map[k]
      /\ lock' = h /\ loaded' = TRUE /\ disk' = disk
      /\ applied' = applied /\ orphans' = orphans
  BY <1>0, <1>1, EnterKeeps DEF TypeInv
<1>4. \A o \in Ops : Issued(o)' = Issued(o)
  BY <1>3 DEF Issued
<1>5. \A g \in Handlers : Op(g)' = Op(g) /\ (\A S : At(g, S)' = At(g, S))
  BY <1>0 DEF Op, At
<1>6. \A g \in Handlers : Remembered(g)' => Remembered(g)
  BY <1>3, <1>5 DEF Remembered
<1>7. \A g \in Handlers : Owner(g)' => g = h \/ (Owner(g) /\ (Remembered(g) => Op(g) # Op(h)))
  <2> SUFFICES ASSUME NEW g \in Handlers, Owner(g)', g # h
               PROVE  Owner(g) /\ (Remembered(g) => Op(g) # Op(h))
    OBVIOUS
  <2>1. Owner(g)
    BY <1>3, <1>5 DEF Owner
  <2> QED
    BY <1>0, <2>1, CurrentHolds
<1>8. Remembered(h) => ~Issued(Op(h))
  BY <1>0, <1>1, CurrentHolds DEF Remembered
<1>9. UnloadedIsEmpty' /\ LockHolder'
  BY <1>0, <1>3, <1>5 DEF UnloadedIsEmpty, LockHolder, At
<1>10. IssuedIsRecorded'
  BY <1>0, <1>2, <1>3, <1>4, CurrentHolds DEF IssuedIsRecorded
<1>11. OneOwner'
  BY <1>5, <1>6, <1>7 DEF OneOwner, Remembered
<1>12. OwnerHasEntry'
  <2> SUFFICES ASSUME NEW g \in Handlers, Owner(g)', Remembered(g)'
               PROVE  (ledger[Op(g)].state # "absent")'
    BY DEF OwnerHasEntry, Holds
  <2>1. Op(g) \in Ops /\ Op(g) \notin forgotten'
    BY <1>5, OpType DEF Remembered, Owner, At, OwnerStages, FreshStages
  <2>2. map[Op(g)].state # "absent"
    BY <1>0, <1>2, <1>6, <1>7, <2>1, CurrentHolds
  <2> QED
    BY <1>3, <1>5, <2>1, <2>2
<1>13. FreshOwner'
  <2> SUFFICES ASSUME NEW g \in Handlers, Owner(g)', Remembered(g)'
               PROVE  /\ At(g, FreshStages)' => ~Issued(Op(g))'
                      /\ At(g, {"list", "call"})' => (disk[Op(g)].state # "absent")'
    BY DEF FreshOwner
  <2>1. Op(g) \in Ops /\ Op(g)' = Op(g) /\ Remembered(g)
    BY <1>5, <1>6, OpType DEF Owner, At, OwnerStages, FreshStages
  <2>2. Issued(Op(g))' = Issued(Op(g))
    BY <1>4, <2>1
  <2>3. CASE g = h
    BY <1>0, <1>5, <1>8, <2>1, <2>2, <2>3 DEF At
  <2>4. CASE g # h
    BY <1>3, <1>5, <1>7, <2>1, <2>2, <2>4 DEF FreshOwner
  <2> QED
    BY <2>3, <2>4
<1>14. IssuedOnce'
  BY <1>3 DEF IssuedOnce
<1> QED
  BY <1>9, <1>10, <1>11, <1>12, <1>13, <1>14

(* accept and fail: an owner, or a reconciling duplicate, changes the      *)
(* entry; only an owner that knows nothing was issued deletes it.          *)
LEMMA EnterAgainStep ==
    ASSUME TypeInv, IssueInv, NEW h \in Handlers, NEW entry \in Entry, Free,
           At(h, AcceptStages \cup FailStages), Current[Op(h)].state # "absent",
           At(h, {"failRejected"}) \/ entry.state # "absent",
           Enter(h, [Current EXCEPT ![Op(h)] = entry], Op(h)), UNCHANGED <<handler, acks>>
    PROVE  IssueInv'
<1> USE DEF IssueInv
<1> DEFINE map == [Current EXCEPT ![Op(h)] = entry]
<1>1. /\ handler[h].pc # "idle" /\ Op(h) \in Ops /\ map \in [Ops -> Entry]
      /\ Current \in [Ops -> Entry] /\ Enter(h, map, Op(h))
  BY OpType, CurrentType DEF At, AcceptStages, FailStages, TypeInv
<1>2. \A o \in Ops : Current[o].state # "absent" =>
          map[o].state # "absent" \/ (o = Op(h) /\ At(h, {"failRejected"}))
  BY <1>1
<1> HIDE DEF map
<1>3. /\ forgotten \subseteq forgotten'
      /\ \A k \in Ops \ forgotten' : ledger'[k] = map[k]
      /\ lock' = h /\ loaded' = TRUE /\ disk' = disk
      /\ applied' = applied /\ orphans' = orphans
  BY <1>1, EnterKeeps DEF TypeInv
<1>4. \A o \in Ops : Issued(o)' = Issued(o)
  BY <1>3 DEF Issued
<1>5. \A g \in Handlers : Op(g)' = Op(g) /\ (\A S : At(g, S)' = At(g, S))
  BY DEF Op, At
<1>6. \A g \in Handlers :
        /\ Remembered(g)' => Remembered(g)
        /\ Owner(g)' => Owner(g)
  BY <1>3, <1>5 DEF Remembered, Owner, At, AcceptStages, FailStages
<1>7. At(h, {"failRejected"}) /\ Remembered(h) => ~Issued(Op(h))
  BY DEF FreshOwner, Owner, At, OwnerStages, FreshStages
<1>8. UnloadedIsEmpty' /\ LockHolder'
  BY <1>3, <1>5 DEF UnloadedIsEmpty, LockHolder, At
<1>9. IssuedIsRecorded'
  BY <1>2, <1>3, <1>4, <1>7, CurrentHolds DEF IssuedIsRecorded, Remembered
<1>10. OneOwner'
  BY <1>5, <1>6 DEF OneOwner
<1>11. OwnerHasEntry'
  <2> SUFFICES ASSUME NEW g \in Handlers, Holds(g)', Remembered(g)'
               PROVE  (ledger[Op(g)].state # "absent")'
    BY DEF OwnerHasEntry
  <2>1. /\ Op(g) \in Ops /\ Op(g) \notin forgotten' /\ Op(g)' = Op(g)
        /\ Owner(g) /\ Remembered(g)
    BY <1>5, <1>6, OpType DEF Remembered, Holds, Owner, At, OwnerStages, FreshStages
  <2>2. ~(Op(g) = Op(h) /\ At(h, {"failRejected"}))
    <3> SUFFICES ASSUME Op(g) = Op(h), At(h, {"failRejected"}) PROVE FALSE
      OBVIOUS
    <3>1. Owner(h) /\ Remembered(h)
      BY <2>1 DEF Owner, At, OwnerStages, FreshStages, Remembered
    <3>2. g = h
      BY <2>1, <3>1 DEF OneOwner
    <3> QED
      BY <1>3, <1>5, <3>2 DEF Holds, At
  <2>3. map[Op(g)].state # "absent"
    BY <1>2, <2>1, <2>2, CurrentHolds
  <2> QED
    BY <1>3, <2>1, <2>3
<1>12. FreshOwner'
  <2> SUFFICES ASSUME NEW g \in Handlers, Owner(g)', Remembered(g)'
               PROVE  /\ At(g, FreshStages)' => ~Issued(Op(g))'
                      /\ At(g, {"list", "call"})' => (disk[Op(g)].state # "absent")'
    BY DEF FreshOwner
  <2>1. Op(g) \in Ops /\ Op(g)' = Op(g) /\ Owner(g) /\ Remembered(g)
    BY <1>5, <1>6, OpType DEF Owner, At, OwnerStages, FreshStages
  <2>2. Issued(Op(g))' = Issued(Op(g))
    BY <1>4, <2>1
  <2> QED
    BY <1>3, <1>5, <2>1, <2>2 DEF FreshOwner
<1>13. IssuedOnce'
  BY <1>3 DEF IssuedOnce
<1> QED
  BY <1>8, <1>9, <1>10, <1>11, <1>12, <1>13

(* The call: the owner issues its request, the first for its operation. *)
LEMMA IssueStep ==
    ASSUME TypeInv, IssueInv, NEW h \in Handlers, At(h, {"call"}),
           At(h, {"checkpoint", "accept", "failUncertain"})',
           handler'[h].req = handler[h].req,
           \A g \in Handlers \ {h} : handler'[g] = handler[g],
           \/ /\ applied' = [applied EXCEPT ![handler[h].req] = @ + 1]
              /\ orphans' = orphans
           \/ /\ orphans' = [orphans EXCEPT ![handler[h].req] = @ + 1]
              /\ applied' = applied,
           UNCHANGED ledgerVars
    PROVE  IssueInv'
<1> USE DEF IssueInv, ledgerVars
<1>1. /\ handler[h].pc = "call" /\ handler[h].req \in Requests /\ Op(h) \in Ops
      /\ applied \in [Requests -> Nat] /\ orphans \in [Requests -> Nat]
      /\ Identity \in [Requests -> Ops]
  BY OpType, ConstantsAssumption DEF At, TypeInv, TypeOK
<1>2. \A r \in Requests : applied'[r] + orphans'[r] =
          IF r = handler[h].req THEN applied[r] + orphans[r] + 1 ELSE applied[r] + orphans[r]
  BY <1>1
<1>3. \A o \in Ops : o # Op(h) => Issued(o)' = Issued(o)
  BY <1>1, <1>2 DEF Issued, Op
<1>4. /\ Owner(h) /\ Holds(h)
      /\ Remembered(h) => ~Issued(Op(h)) /\ disk[Op(h)].state # "absent"
                           /\ ledger[Op(h)].state # "absent"
  BY <1>1 DEF Owner, Holds, At, OwnerStages, FreshStages, FreshOwner, OwnerHasEntry
<1>5. loaded
  BY <1>1 DEF UnloadedIsEmpty, At
<1>6. /\ Op(h)' = Op(h) /\ Remembered(h)' = Remembered(h)
      /\ ~At(h, FreshStages)' /\ ~At(h, {"list", "call"})'
      /\ \A g \in Handlers \ {h} :
           /\ Op(g)' = Op(g) /\ (\A S : At(g, S)' = At(g, S))
           /\ Owner(g)' = Owner(g) /\ Holds(g)' = Holds(g)
           /\ Remembered(g)' = Remembered(g)
  BY DEF Op, Remembered, At, FreshStages, Owner, Holds
<1>7. \A g \in Handlers : /\ Owner(g)' => Owner(g)
                          /\ Holds(g)' => Holds(g)
                          /\ Op(g)' = Op(g) /\ Remembered(g)' = Remembered(g)
  BY <1>4, <1>6
<1>8. UnloadedIsEmpty' /\ LockHolder'
  BY <1>1, <1>5 DEF UnloadedIsEmpty, LockHolder, At, AcceptStages, FailStages
<1>9. IssuedIsRecorded'
  BY <1>3, <1>4 DEF IssuedIsRecorded, Remembered
<1>10. OneOwner'
  BY <1>7 DEF OneOwner
<1>11. OwnerHasEntry'
  BY <1>7 DEF OwnerHasEntry
<1>12. FreshOwner'
  <2> SUFFICES ASSUME NEW g \in Handlers, Owner(g)', Remembered(g)'
               PROVE  /\ At(g, FreshStages)' => ~Issued(Op(g))'
                      /\ At(g, {"list", "call"})' => (disk[Op(g)].state # "absent")'
    BY DEF FreshOwner
  <2>1. CASE g = h
    BY <1>6, <2>1
  <2>2. CASE g # h
    <3>1. /\ Owner(g) /\ Remembered(g) /\ Op(g)' = Op(g) /\ (\A S : At(g, S)' = At(g, S))
          /\ Op(g) \in Ops
      BY <1>6, <2>2, OpType DEF Owner, At, OwnerStages, FreshStages
    <3>2. Op(g) # Op(h)
      BY <1>4, <2>2, <3>1 DEF OneOwner, Remembered
    <3>3. Issued(Op(g))' = Issued(Op(g))
      BY <1>3, <3>1, <3>2
    <3> QED
      BY <3>1, <3>3 DEF FreshOwner
  <2> QED
    BY <2>1, <2>2
<1>13. IssuedOnce'
  <2> SUFFICES ASSUME NEW q \in Requests, NEW r \in Requests,
                      Identity[q] = Identity[r], Identity[r] \notin forgotten
               PROVE  /\ applied'[r] + orphans'[r] <= 1
                      /\ applied'[q] + orphans'[q] > 0 /\ applied'[r] + orphans'[r] > 0 => q = r
    BY DEF IssuedOnce
  <2>1. CASE Identity[r] = Op(h)
    <3>1. ~(applied[q] + orphans[q] > 0) /\ ~(applied[r] + orphans[r] > 0)
      BY <1>4, <2>1 DEF Issued, Remembered
    <3> QED
      BY <1>1, <1>2, <3>1
  <2>2. CASE Identity[r] # Op(h)
    BY <1>2, <2>2 DEF IssuedOnce, Op
  <2> QED
    BY <2>1, <2>2
<1> QED
  BY <1>8, <1>9, <1>10, <1>11, <1>12, <1>13

(* A read of the file that fails: what was issued is forgotten. *)
LEMMA LoadFailsStep ==
    ASSUME TypeInv, IssueInv, NEW h \in Handlers, LoadFails(h)
    PROVE  IssueInv'
<1> USE DEF IssueInv
<1>1. /\ ~loaded /\ Free /\ loaded' = TRUE /\ lock' = lock /\ ledger' = ledger
      /\ disk' = disk /\ applied' = applied /\ orphans' = orphans
      /\ forgotten' = forgotten \cup {o \in Ops : Issued(o)}
      /\ handler' = [handler EXCEPT ![h] = Idle]
  BY DEF LoadFails, Answer, worldVars, queueVars
<1>2. \A o \in Ops : Issued(o)' = Issued(o)
  BY <1>1 DEF Issued
<1>3. \A g \in Handlers : ~Owner(g)'
  BY <1>1, ConstantsAssumption
     DEF UnloadedIsEmpty, Owner, At, OwnerStages, FreshStages, Free, Idle, TypeInv, TypeOK
<1>4. UnloadedIsEmpty' /\ LockHolder'
  BY <1>1, ConstantsAssumption DEF UnloadedIsEmpty, LockHolder, Free
<1>5. IssuedIsRecorded'
  BY <1>1, <1>2 DEF IssuedIsRecorded
<1>6. OneOwner' /\ OwnerHasEntry' /\ FreshOwner'
  BY <1>3 DEF OneOwner, OwnerHasEntry, FreshOwner, Holds
<1>7. IssuedOnce'
  BY <1>1 DEF IssuedOnce
<1> QED
  BY <1>4, <1>5, <1>6, <1>7

(* A late delivery turns an orphan into work done: as much is issued. *)
LEMMA LateDeliveryStep ==
    ASSUME TypeInv, IssueInv, NEW r \in Requests,
           NEW session \in Sessions \cup {NoSession}, LateDelivery(r, session)
    PROVE  IssueInv'
<1> USE DEF IssueInv
<1>1. /\ orphans[r] > 0 /\ orphans' = [orphans EXCEPT ![r] = @ - 1]
      /\ applied' = [applied EXCEPT ![r] = @ + 1]
      /\ UNCHANGED <<loaded, ledger, lock, disk, forgotten, handler>>
      /\ applied \in [Requests -> Nat] /\ orphans \in [Requests -> Nat]
  <2>1. orphans[r] \in Nat /\ queued[r] \in Nat /\ dropped[r] \in Nat
    BY DEF TypeInv, TypeOK
  <2> QED
    BY <2>1 DEF LateDelivery, Apply, ledgerVars, TypeInv, TypeOK
<1>2. \A q \in Requests : applied'[q] + orphans'[q] = applied[q] + orphans[q]
  BY <1>1
<1>3. \A o : Issued(o)' = Issued(o)
  BY <1>2 DEF Issued
<1>4. \A g \in Handlers : /\ Op(g)' = Op(g) /\ (\A S : At(g, S)' = At(g, S))
                          /\ Owner(g)' = Owner(g) /\ Holds(g)' = Holds(g)
                          /\ Remembered(g)' = Remembered(g)
  BY <1>1 DEF Op, At, Owner, Holds, Remembered
<1>5. UnloadedIsEmpty' /\ LockHolder'
  BY <1>1, <1>4 DEF UnloadedIsEmpty, LockHolder, Free
<1>6. IssuedIsRecorded'
  BY <1>1, <1>3 DEF IssuedIsRecorded
<1>7. OneOwner' /\ OwnerHasEntry'
  BY <1>1, <1>4 DEF OneOwner, OwnerHasEntry
<1>8. FreshOwner'
  <2> SUFFICES ASSUME NEW g \in Handlers, Owner(g)', Remembered(g)'
               PROVE  /\ At(g, FreshStages)' => ~Issued(Op(g))'
                      /\ At(g, {"list", "call"})' => (disk[Op(g)].state # "absent")'
    BY DEF FreshOwner
  <2>1. Issued(Op(g))' = Issued(Op(g))
    BY <1>2, <1>4 DEF Issued
  <2> QED
    BY <1>1, <1>4, <2>1 DEF FreshOwner
<1>9. IssuedOnce'
  BY <1>1, <1>2 DEF IssuedOnce
<1> QED
  BY <1>5, <1>6, <1>7, <1>8, <1>9

(* A restart keeps the file, and leaves no owner. *)
LEMMA CrashStep ==
    ASSUME TypeInv, IssueInv, Crash
    PROVE  IssueInv'
<1> USE DEF IssueInv
<1>1. /\ loaded' = FALSE /\ ledger' = [o \in Ops |-> NoEntry] /\ lock' = NoHandler
      /\ handler' = [h \in Handlers |-> Idle]
      /\ UNCHANGED <<disk, forgotten, applied, orphans>>
  BY DEF Crash, worldVars, queueVars
<1>2. \A o \in Ops : Issued(o)' = Issued(o)
  BY <1>1 DEF Issued
<1>3. \A g \in Handlers : ~Owner(g)'
  BY <1>1, ConstantsAssumption DEF Owner, At, OwnerStages, FreshStages, Idle
<1>4. UnloadedIsEmpty' /\ LockHolder'
  BY <1>1, ConstantsAssumption DEF UnloadedIsEmpty, LockHolder, Free, At, Idle
<1>5. IssuedIsRecorded'
  BY <1>1, <1>2 DEF IssuedIsRecorded
<1>6. OneOwner' /\ OwnerHasEntry' /\ FreshOwner'
  BY <1>3 DEF OneOwner, OwnerHasEntry, FreshOwner, Holds
<1>7. IssuedOnce'
  BY <1>1 DEF IssuedOnce
<1> QED
  BY <1>4, <1>5, <1>6, <1>7

(* The invariant does not look at Sessions, acknowledgements or bounds. *)
LEMMA StutterIssue ==
    ASSUME IssueInv, UNCHANGED <<loaded, ledger, lock, disk, forgotten, applied, orphans, handler>>
    PROVE  IssueInv'
<1>1. \A o : Issued(o)' = Issued(o)
  BY DEF Issued
<1>2. \A g : /\ Op(g)' = Op(g) /\ (\A S : At(g, S)' = At(g, S))
            /\ Owner(g)' = Owner(g) /\ Holds(g)' = Holds(g)
            /\ Remembered(g)' = Remembered(g)
  BY DEF Op, At, Owner, Holds, Remembered
<1> QED
  BY <1>1, <1>2 DEF IssueInv, UnloadedIsEmpty, LockHolder, Free, IssuedIsRecorded,
                    OneOwner, OwnerHasEntry, FreshOwner, IssuedOnce

-----------------------------------------------------------------------------
(* Every step of a handler keeps the invariant. *)
LEMMA StepIssue ==
    ASSUME TypeInv, IssueInv, NEW h \in Handlers, Step(h)
    PROVE  IssueInv'
<1>a. handler \in [Handlers -> HandlerState]
  BY DEF TypeInv, TypeOK
<1>b. handler[h].pc \notin {"idle", "begin"} => loaded /\ (At(h, OwnerStages) => Owner(h))
  BY DEF IssueInv, UnloadedIsEmpty, At, Owner
<1>b2. At(h, {"list", "call", "reconcile"}) => lock # h
  BY DEF IssueInv, LockHolder, At, AcceptStages, FailStages
<1>b3. (Free => lock # h) /\ (PersistFails(h) => lock' # h)
  BY ConstantsAssumption DEF Free, PersistFails
<1>c. Answer(h) => /\ At(h, {"idle"})'
                   /\ \A g \in Handlers \ {h} : handler'[g] = handler[g]
  BY <1>a DEF Answer, At, Idle
<1>d. \A target : Acknowledge(h, target) =>
         At(h, {"idle"})' /\ (\A g \in Handlers \ {h} : handler'[g] = handler[g])
  BY <1>a DEF Acknowledge, At, Idle
<1>e. \A stage : Goto(h, stage) => /\ handler'[h].pc = stage
                                  /\ handler'[h].req = handler[h].req
                                  /\ \A g \in Handlers \ {h} : handler'[g] = handler[g]
  BY <1>a DEF Goto, HandlerState
<1>f. AcceptThrows(h) /\ At(h, AcceptStages) =>
         /\ \A g \in Handlers \ {h} : handler'[g] = handler[g]
         /\ \/ At(h, {"idle"})'
            \/ /\ At(h, {"failUncertain"})' /\ handler'[h].req = handler[h].req
               /\ Holds(h) /\ loaded
  BY <1>b, <1>c, <1>d, <1>e DEF AcceptThrows, At, Holds, OwnerStages, FreshStages
<1>1. CASE BeginNew(h)
  BY <1>1, BeginNewStep
<1>2. CASE BeginConflict(h)
  BY <1>2, <1>c, KnownStep DEF BeginConflict, worldVars, queueVars, At
<1>3. CASE BeginDuplicate(h)
  <2>1. /\ At(h, {"begin"}) /\ Free /\ loaded' = TRUE /\ ledger' = Current
        /\ UNCHANGED <<lock, disk, forgotten, applied, orphans>>
    BY <1>3 DEF BeginDuplicate, worldVars, queueVars
  <2>2. /\ At(h, {"idle", "reconcile"})'
        /\ \A g \in Handlers \ {h} : handler'[g] = handler[g]
    <3>1. CASE handler' = [handler EXCEPT ![h].pc = "reconcile",
                                          ![h].before = Current[Op(h)].before]
      BY <1>a, <3>1 DEF At, HandlerState
    <3> QED
      BY <1>3, <1>c, <1>d, <3>1 DEF BeginDuplicate, At
  <2> QED
    BY <2>1, <2>2, KnownStep
<1>4. CASE LoadFails(h)
  BY <1>4, LoadFailsStep
<1>5. CASE BeginSaved(h)
  <2>1. Persist(h) /\ Holds(h)
    BY <1>5 DEF BeginSaved, Persist, Holds, Owner, At, OwnerStages, FreshStages
  <2>2. /\ At(h, {"list", "call"})' /\ handler'[h].req = handler[h].req
        /\ \A g \in Handlers \ {h} : handler'[g] = handler[g]
    BY <1>5, <1>e DEF BeginSaved, At
  <2>3. At(h, FreshStages)
    BY <1>5 DEF BeginSaved, At, FreshStages
  <2> QED
    BY <2>1, <2>2, <2>3, PersistStep DEF At, OwnerStages, FreshStages
<1>6. CASE BeginUnsaved(h)
  BY <1>6, <1>b3, <1>c, QuietStep DEF BeginUnsaved, PersistFails, worldVars, queueVars, At
<1>7. CASE ListTargets(h)
  <2>1. /\ handler'[h].pc = "call" /\ handler'[h].req = handler[h].req
        /\ \A g \in Handlers \ {h} : handler'[g] = handler[g]
    BY <1>7, <1>a DEF ListTargets, HandlerState
  <2>2. Holds(h) /\ loaded /\ At(h, FreshStages) /\ At(h, {"list", "call"})
    BY <1>7, <1>b DEF ListTargets, At, Holds, Owner, OwnerStages, FreshStages
  <2> QED
    BY <1>7, <1>b2, <2>1, <2>2, QuietStep
       DEF ListTargets, ledgerVars, worldVars, queueVars, At, OwnerStages, FreshStages
<1>8. CASE Refused(h)
  <2>1. /\ handler'[h].pc = "failRejected" /\ handler'[h].req = handler[h].req
        /\ \A g \in Handlers \ {h} : handler'[g] = handler[g]
    BY <1>8, <1>e DEF Refused
  <2>2. Holds(h) /\ loaded /\ At(h, FreshStages)
    BY <1>8, <1>b DEF Refused, At, Holds, Owner, OwnerStages, FreshStages
  <2> QED
    BY <1>8, <1>b2, <2>1, <2>2, QuietStep
       DEF Refused, ledgerVars, worldVars, queueVars, At, OwnerStages, FreshStages
<1>9. CASE CallLost(h)
  BY <1>9, <1>e, IssueStep DEF CallLost, At
<1>10. ASSUME NEW session \in Sessions \cup {NoSession}, CallSucceeds(h, session)
       PROVE  IssueInv'
  <2>1. /\ At(h, {"checkpoint", "accept"})' /\ handler'[h].req = handler[h].req
        /\ \A g \in Handlers \ {h} : handler'[g] = handler[g]
    BY <1>10, <1>a DEF CallSucceeds, HandlerState, At
  <2> QED
    BY <1>10, <2>1, IssueStep DEF CallSucceeds, Apply, TakeOver, At
<1>11. CASE EnterAccept(h)
  <2> DEFINE entry == [Current[Op(h)] EXCEPT !.state = "accepted",
                         !.target = handler[h].target, !.before = {}]
  <2>1. /\ At(h, AcceptStages) /\ Free /\ Current[Op(h)].state # "absent"
        /\ Enter(h, [Current EXCEPT ![Op(h)] = entry], Op(h)) /\ UNCHANGED <<handler, acks>>
    BY <1>11 DEF EnterAccept
  <2>2. Op(h) \in Ops /\ Current \in [Ops -> Entry]
    BY <2>1, OpType, CurrentType DEF At, AcceptStages, TypeInv
  <2>3. entry \in Entry /\ entry.state # "absent"
    BY <1>a, <2>2 DEF Entry, EntryStates, HandlerState
  <2> HIDE DEF entry
  <2> QED
    BY <2>1, <2>3, EnterAgainStep DEF At
<1>12. CASE CheckpointSaved(h)
  <2>1. /\ handler'[h].pc \in {"recheckpoint", "accept"} /\ handler'[h].req = handler[h].req
        /\ \A g \in Handlers \ {h} : handler'[g] = handler[g]
    BY <1>12, <1>e DEF CheckpointSaved
  <2>2. Persist(h) /\ Holds(h)
    BY <1>12 DEF CheckpointSaved, At, Holds, Owner, OwnerStages, FreshStages
  <2> QED
    BY <2>1, <2>2, PersistStep DEF At, OwnerStages, FreshStages
<1>13. CASE AcceptSaved(h)
  BY <1>13, <1>d, PersistStep DEF AcceptSaved
<1>14. CASE AcceptUnsaved(h)
  BY <1>14, <1>b3, <1>f, QuietStep
     DEF AcceptUnsaved, PersistFails, worldVars, queueVars, At, OwnerStages, FreshStages
<1>15. CASE AcceptMissing(h)
  BY <1>15, <1>b3, <1>f, QuietStep
     DEF AcceptMissing, ledgerVars, worldVars, queueVars, At, OwnerStages, FreshStages
<1>16. CASE EnterFail(h)
  <2> DEFINE old == Current[Op(h)]
             uncertain == IF Op(h) \in Handoffs
                          THEN [old EXCEPT !.state = "uncertain", !.target = NoSession,
                                           !.before = handler[h].before]
                          ELSE [old EXCEPT !.state = "uncertain"]
             entry == IF At(h, {"failUncertain"}) THEN uncertain ELSE NoEntry
  <2>1. /\ At(h, FailStages) /\ Free /\ Current[Op(h)].state # "absent"
        /\ Enter(h, [Current EXCEPT ![Op(h)] = entry], Op(h)) /\ UNCHANGED <<handler, acks>>
    BY <1>16 DEF EnterFail
  <2>2. Op(h) \in Ops /\ Current \in [Ops -> Entry] /\ handler[h].before \in SUBSET Sessions
    BY <1>a, <2>1, OpType, CurrentType DEF At, FailStages, TypeInv, HandlerState
  <2>3. /\ entry \in Entry
        /\ At(h, {"failRejected"}) \/ entry.state # "absent"
    BY <2>1, <2>2, NoEntryType DEF Entry, EntryStates, At, FailStages
  <2> HIDE DEF entry
  <2> QED
    BY <2>1, <2>3, EnterAgainStep DEF At
<1>17. CASE FailSaved(h)
  BY <1>17, <1>c, PersistStep DEF FailSaved
<1>18. CASE FailUnsaved(h)
  BY <1>18, <1>b3, <1>c, QuietStep DEF FailUnsaved, PersistFails, worldVars, queueVars, At
<1>19. CASE FailMissing(h)
  BY <1>19, <1>b3, <1>c, QuietStep DEF FailMissing, ledgerVars, worldVars, queueVars, At
<1>20. ASSUME NEW session \in Sessions, Reconcile(h, session)
       PROVE  IssueInv'
  <2>1. /\ handler'[h].pc = "adopt" /\ \A g \in Handlers \ {h} : handler'[g] = handler[g]
    BY <1>20, <1>a DEF Reconcile, HandlerState
  <2> QED
    BY <1>20, <1>b, <1>b2, <2>1, QuietStep DEF Reconcile, ledgerVars, worldVars, queueVars, At
<1>21. CASE ReconcileNothing(h)
  BY <1>21, <1>b2, <1>c, QuietStep DEF ReconcileNothing, ledgerVars, worldVars, queueVars, At
<1> QED
  BY <1>1, <1>2, <1>3, <1>4, <1>5, <1>6, <1>7, <1>8, <1>9, <1>10, <1>11, <1>12, <1>13,
     <1>14, <1>15, <1>16, <1>17, <1>18, <1>19, <1>20, <1>21 DEF Step

(* So does every step of the environment. *)
LEMMA EnvironmentIssue ==
    ASSUME TypeInv, IssueInv, Environment
    PROVE  IssueInv'
<1>1. ASSUME NEW h \in Handlers, NEW r \in Requests, Receive(h, r)
      PROVE  IssueInv'
  <2> USE DEF IssueInv
  <2>1. /\ UNCHANGED <<loaded, ledger, lock, disk, forgotten, applied, orphans>>
        /\ At(h, {"idle"}) /\ At(h, {"begin"})' /\ lock # h
        /\ \A g \in Handlers \ {h} : handler'[g] = handler[g]
    <3>1. lock # h
      BY <1>1 DEF Receive, LockHolder, At, AcceptStages, FailStages
    <3> QED
      BY <1>1, <3>1 DEF Receive, ledgerVars, worldVars, queueVars, At, Idle, TypeInv, TypeOK
  <2>2. \A o \in Ops : Issued(o)' = Issued(o)
    BY <2>1 DEF Issued
  <2>3. /\ ~Owner(h)'
        /\ \A g \in Handlers \ {h} :
             /\ Op(g)' = Op(g) /\ (\A S : At(g, S)' = At(g, S))
             /\ Owner(g)' = Owner(g) /\ Holds(g)' = Holds(g)
             /\ Remembered(g)' = Remembered(g)
    BY <2>1 DEF Op, At, Owner, Holds, Remembered
  <2>4. UnloadedIsEmpty' /\ LockHolder'
    BY <2>1, <2>3 DEF UnloadedIsEmpty, LockHolder, Free, At
  <2>5. IssuedIsRecorded' /\ IssuedOnce'
    BY <2>1, <2>2 DEF IssuedIsRecorded, IssuedOnce
  <2>6. OneOwner' /\ OwnerHasEntry'
    BY <2>1, <2>3 DEF OneOwner, OwnerHasEntry, Holds
  <2>7. FreshOwner'
    <3> SUFFICES ASSUME NEW g \in Handlers, Owner(g)', Remembered(g)'
                 PROVE  /\ At(g, FreshStages)' => ~Issued(Op(g))'
                        /\ At(g, {"list", "call"})' => (disk[Op(g)].state # "absent")'
      BY DEF FreshOwner
    <3>1. Issued(Op(g))' = Issued(Op(g))
      BY <2>1, <2>3 DEF Issued
    <3> QED
      BY <2>1, <2>3, <3>1 DEF FreshOwner
  <2> QED
    BY <2>4, <2>5, <2>6, <2>7
<1>2. ASSUME NEW r \in Requests, NEW session \in Sessions \cup {NoSession},
             LateDelivery(r, session)
      PROVE  IssueInv'
  BY <1>2, LateDeliveryStep
<1>3. ASSUME NEW session \in Sessions, SessionElsewhere(session)
      PROVE  IssueInv'
  BY <1>3, StutterIssue DEF SessionElsewhere, ledgerVars
<1>4. CASE Crash
  BY <1>4, CrashStep
<1>5. ASSUME NEW r \in Requests, LeaveQueue(r)
      PROVE  IssueInv'
  BY <1>5, StutterIssue DEF LeaveQueue, ledgerVars
<1> QED
  BY <1>1, <1>2, <1>3, <1>4, <1>5 DEF Environment

(* The types and the invariant hold in every reachable state. *)
THEOREM IssueInvariant == Spec => [](TypeInv /\ IssueInv)
<1>1. Init => IssueInv
  <2> SUFFICES ASSUME Init PROVE IssueInv
    OBVIOUS
  <2>1. \A o \in Ops : ~Issued(o)
    BY DEF Init, Issued
  <2>2. \A h \in Handlers : ~Owner(h) /\ At(h, {"idle", "begin"})
    BY DEF Init, Owner, At, OwnerStages, FreshStages, Idle
  <2>3. UnloadedIsEmpty /\ LockHolder
    BY ConstantsAssumption DEF Init, UnloadedIsEmpty, LockHolder, Free, At, Idle
  <2>4. IssuedOnce
    BY DEF Init, IssuedOnce
  <2> QED
    BY <2>1, <2>2, <2>3, <2>4
       DEF IssueInv, IssuedIsRecorded, OneOwner, OwnerHasEntry, FreshOwner, Holds
<1>2. TypeInv /\ IssueInv /\ [Next]_vars => IssueInv'
  <2> SUFFICES ASSUME TypeInv, IssueInv, [Next]_vars PROVE IssueInv'
    OBVIOUS
  <2>1. CASE UNCHANGED vars
    BY <2>1, StutterIssue DEF vars, ledgerVars, worldVars, queueVars
  <2> QED
    BY <2>1, StepIssue, EnvironmentIssue DEF Next
<1> QED
  BY <1>1, <1>2, TypeCorrect, PTL DEF Spec

(* At most once: while an operation is remembered, the agents carry out    *)
(* one of its requests, once, through any resending, restart, lost reply   *)
(* and failing write.                                                      *)
THEOREM AtMostOnceHolds == Spec => []AtMostOnce
<1>1. TypeInv /\ IssueInv => AtMostOnce
  <2> SUFFICES ASSUME TypeInv, IssueInv PROVE AtMostOnce
    OBVIOUS
  <2>1. applied \in [Requests -> Nat] /\ orphans \in [Requests -> Nat]
    BY DEF TypeInv, TypeOK
  <2> QED
    BY <2>1 DEF AtMostOnce, IssueInv, IssuedOnce
<1> QED
  BY <1>1, IssueInvariant, PTL

(* Durable before dispatch: what an agent did, or may still do, is in the  *)
(* file.                                                                   *)
THEOREM WorkIsRecordedHolds == Spec => []WorkIsRecorded
<1>1. TypeInv /\ IssueInv => WorkIsRecorded
  BY DEF WorkIsRecorded, IssueInv, IssuedIsRecorded
<1> QED
  BY <1>1, IssueInvariant, PTL

-----------------------------------------------------------------------------
(* What clients are told. *)

DoneStages == {"checkpoint", "recheckpoint", "accept"}
HandoffStages == {"list", "checkpoint", "recheckpoint", "reconcile", "adopt"}

(* Only a handoff lists, checkpoints, reconciles and adopts. *)
HandoffsOnly ==
    \A h \in Handlers : At(h, HandoffStages) => Op(h) \in Handoffs

(* A handler comes to accept when the call for its request succeeded. *)
DoneFirst ==
    \A h \in Handlers : At(h, DoneStages) => handler[h].req \in taken

(* A handler whose prompt, command or stop has its entry, still its own. *)
PlainHolder(h) ==
    /\ Holds(h) /\ Op(h) \notin Handoffs
    /\ ~At(h, {"failUncertain"})
    /\ ~(At(h, {"accept"}) /\ lock = h)

PlainEntry ==
    \A h \in Handlers : PlainHolder(h) =>
        /\ ledger[Op(h)].state \in {"pending", "uncertain"}
        /\ ledger[Op(h)].req = handler[h].req

OnePlainHolder ==
    \A g, h \in Handlers : PlainHolder(g) /\ PlainHolder(h) /\ Op(g) = Op(h) => g = h

(* An entry names a request of its operation. *)
NamesItsRequest(o, entry) ==
    entry.state # "absent" => entry.req \in Requests /\ Identity[entry.req] = o

EntriesNamed ==
    \A o \in Ops : NamesItsRequest(o, ledger[o]) /\ NamesItsRequest(o, disk[o])

(* What the map or the file calls accepted was taken. *)
AcceptedWorkTaken ==
    \A o \in Ops \ Handoffs :
        /\ ledger[o].state = "accepted" => ledger[o].req \in taken
        /\ disk[o].state = "accepted" => disk[o].req \in taken

WorkInv ==
    /\ HandoffsOnly
    /\ DoneFirst
    /\ PlainEntry
    /\ OnePlainHolder
    /\ EntriesNamed
    /\ AcceptedWorkTaken
    /\ AckedWorkWasTaken


-----------------------------------------------------------------------------
(* Entering the chain leaves of each entry what the section wrote, or      *)
(* nothing if the entry was accepted and is now forgotten.                 *)
LEMMA EnterLeaves ==
    ASSUME TypeOK, NEW h \in Handlers, NEW map \in [Ops -> Entry], NEW o \in Ops,
           Enter(h, map, o)
    PROVE  \A k \in Ops :
             \/ ledger'[k] = map[k]
             \/ map[k].state = "accepted" /\ ledger'[k] = NoEntry /\ k \in forgotten'
<1>1. PICK T \in Trims(map, o) :
         /\ ledger' = [k \in Ops |-> IF k \in T THEN NoEntry ELSE map[k]]
         /\ forgotten' = forgotten \cup {k \in T : map[k].state = "accepted"}
  BY DEF Enter
<1>2. \A k \in T : map[k].state = "accepted"
  BY DEF Trims
<1> QED
  BY <1>1, <1>2

(* A handler that holds something has read the file, so the map is what a  *)
(* section starts from.                                                    *)
LEMMA HolderHasLoaded ==
    ASSUME TypeInv, IssueInv, NEW h \in Handlers, Owner(h) \/ At(h, {"reconcile", "adopt"})
    PROVE  loaded /\ Current = ledger /\ handler[h].pc # "idle"
BY ConstantsAssumption
   DEF IssueInv, UnloadedIsEmpty, Owner, At, OwnerStages, FreshStages, Free, Current

(* A section that writes one entry keeps WorkInv if the entry is the       *)
(* writer's, nobody else's, and accepted only for work that was done.      *)
LEMMA EnterWork ==
    ASSUME TypeInv, IssueInv, WorkInv, NEW h \in Handlers, NEW entry \in Entry, Free,
           Op(h) \in Ops,
           Enter(h, [Current EXCEPT ![Op(h)] = entry], Op(h)), UNCHANGED <<handler, acks>>,
           PlainHolder(h)' => /\ entry.state \in {"pending", "uncertain"}
                              /\ entry.req = handler[h].req,
           \A g \in Handlers \ {h} : PlainHolder(g) /\ Op(g) = Op(h) =>
              /\ ~PlainHolder(h)'
              /\ entry.state \in {"pending", "uncertain"}
              /\ entry.req = Current[Op(h)].req,
           NamesItsRequest(Op(h), entry),
           entry.state = "accepted" /\ Op(h) \notin Handoffs => entry.req \in taken
    PROVE  WorkInv'
<1> USE DEF WorkInv
<1> DEFINE map == [Current EXCEPT ![Op(h)] = entry]
<1>1. Current \in [Ops -> Entry] /\ map \in [Ops -> Entry]
  BY CurrentType DEF TypeInv
<1>2. map[Op(h)] = entry /\ \A k \in Ops : k # Op(h) => map[k] = Current[k]
  BY <1>1
<1>3. Enter(h, map, Op(h))
  OBVIOUS
<1> HIDE DEF map
<1>4. \A k \in Ops :
        \/ ledger'[k] = map[k]
        \/ map[k].state = "accepted" /\ ledger'[k] = NoEntry
  BY <1>1, <1>3, EnterLeaves DEF TypeInv
<1>5. /\ lock = NoHandler /\ lock' = h /\ disk' = disk /\ taken' = taken
      /\ \A g \in Handlers : Op(g)' = Op(g) /\ (\A S : At(g, S)' = At(g, S))
  BY <1>3 DEF Free, Enter, worldVars, queueVars, Op, At
<1>6. \A g \in Handlers \ {h} : PlainHolder(g)' => PlainHolder(g)
  BY <1>5, ConstantsAssumption DEF PlainHolder, Holds, Owner
<1>7. \A g \in Handlers : PlainHolder(g) => Current = ledger /\ Op(g) \in Ops
  BY HolderHasLoaded, OpType DEF PlainHolder, Holds
<1>8. HandoffsOnly' /\ DoneFirst'
  BY <1>5 DEF HandoffsOnly, DoneFirst
<1>9. PlainEntry'
  <2> SUFFICES ASSUME NEW g \in Handlers, PlainHolder(g)'
               PROVE  (/\ ledger[Op(g)].state \in {"pending", "uncertain"}
                       /\ ledger[Op(g)].req = handler[g].req)'
    BY DEF PlainEntry
  <2>1. /\ map[Op(g)].state \in {"pending", "uncertain"}
        /\ map[Op(g)].req = handler[g].req
        /\ Op(g) \in Ops
    <3>1. CASE g = h
      BY <1>2, <3>1
    <3>2. CASE g # h
      BY <1>2, <1>6, <1>7, <3>2 DEF PlainEntry
    <3> QED
      BY <3>1, <3>2
  <2> QED
    BY <1>4, <1>5, <2>1
<1>10. OnePlainHolder'
  BY <1>5, <1>6 DEF OnePlainHolder
<1>11. AcceptedWorkTaken'
  <2>1. \A k \in Ops \ Handoffs : map[k].state = "accepted" => map[k].req \in taken
    BY <1>1, <1>2 DEF AcceptedWorkTaken, Current
  <2> QED
    BY <1>4, <1>5, <2>1 DEF AcceptedWorkTaken, NoEntry
<1>12. AckedWorkWasTaken'
  BY <1>5 DEF AckedWorkWasTaken
<1>13. EntriesNamed'
  <2>1. \A k \in Ops : NamesItsRequest(k, map[k])
    BY <1>1, <1>2 DEF EntriesNamed, Current
  <2> QED
    BY <1>4, <1>5, <2>1 DEF EntriesNamed, NamesItsRequest, NoEntry
<1> QED
  BY <1>8, <1>9, <1>10, <1>11, <1>12, <1>13

(* A step outside a section keeps WorkInv if nobody becomes a holder, a    *)
(* handler reaches accept only with its work done, and answers "accepted"  *)
(* only for a handoff or for work that was done.                           *)
LEMMA OutsideWork ==
    ASSUME TypeInv, IssueInv, WorkInv, NEW h \in Handlers,
           \A g \in Handlers \ {h} : handler'[g] = handler[g],
           lock' = lock \/ (lock' = NoHandler /\ lock \in {h, NoHandler}),
           ledger' = ledger \/ ledger' = Current,
           disk' = disk \/ disk' = ledger,
           taken \subseteq taken',
           PlainHolder(h)' => PlainHolder(h) /\ handler'[h].req = handler[h].req,
           At(h, HandoffStages)' => Op(h)' \in Handoffs,
           At(h, DoneStages)' => handler'[h].req \in taken',
           \/ acks' = acks
           \/ \E t : /\ acks' = acks \cup {[req |-> handler[h].req, target |-> t]}
                     /\ Op(h) \in Handoffs \/ handler[h].req \in taken'
    PROVE  WorkInv'
<1> USE DEF WorkInv
<1>0. /\ \A g \in Handlers : handler[g].pc # "idle" => handler[g].req \in Requests
      /\ \A a \in acks : a.req \in Requests
  BY DEF TypeInv, TypeOK, Busy, Acknowledgement
<1>1. \A g \in Handlers \ {h} :
        /\ Op(g)' = Op(g) /\ (\A S : At(g, S)' = At(g, S))
        /\ PlainHolder(g)' => PlainHolder(g)
  BY ConstantsAssumption DEF PlainHolder, Holds, Owner, Op, At
<1>2. \A g \in Handlers : PlainHolder(g)' =>
        PlainHolder(g) /\ Op(g)' = Op(g) /\ ledger' = ledger /\ handler'[g].req = handler[g].req
  <2> SUFFICES ASSUME NEW g \in Handlers, PlainHolder(g)'
               PROVE  PlainHolder(g) /\ Op(g)' = Op(g) /\ ledger' = ledger
                      /\ handler'[g].req = handler[g].req
    OBVIOUS
  <2>1. PlainHolder(g) /\ handler'[g].req = handler[g].req
    BY <1>1
  <2> QED
    BY <2>1, HolderHasLoaded DEF PlainHolder, Holds, Op
<1>3. HandoffsOnly'
  BY <1>1 DEF HandoffsOnly
<1>4. DoneFirst'
  <2> SUFFICES ASSUME NEW g \in Handlers \ {h}, At(g, DoneStages)
               PROVE  handler[g].req \in taken'
    BY <1>1 DEF DoneFirst
  <2>1. handler[g].req \in Requests /\ handler[g].req \in taken
    BY <1>0 DEF DoneFirst, At, DoneStages
  <2> QED
    BY <1>0, <2>1
<1>5. PlainEntry'
  BY <1>2 DEF PlainEntry
<1>6. OnePlainHolder'
  BY <1>2 DEF OnePlainHolder
<1>7. AcceptedWorkTaken'
  <2>1. ASSUME NEW o \in Ops \ Handoffs
        PROVE  /\ ledger[o].state = "accepted" => ledger[o].req \in taken'
               /\ disk[o].state = "accepted" => disk[o].req \in taken'
    BY <1>0 DEF AcceptedWorkTaken, EntriesNamed, NamesItsRequest
  <2> QED
    BY <2>1 DEF AcceptedWorkTaken, Current
<1>8. AckedWorkWasTaken'
  <2>1. \A a \in acks : Identity[a.req] \notin Handoffs => a.req \in taken'
    BY <1>0 DEF AckedWorkWasTaken
  <2> QED
    BY <2>1 DEF AckedWorkWasTaken, Op
<1>9. EntriesNamed'
  BY DEF EntriesNamed, Current
<1> QED
  BY <1>3, <1>4, <1>5, <1>6, <1>7, <1>8, <1>9

(* What a handler does when it answers, acknowledges or moves on.          *)
LEMMA Moves ==
    ASSUME TypeInv, NEW h \in Handlers
    PROVE  /\ Answer(h) => /\ handler'[h] = Idle /\ acks' = acks
                           /\ \A g \in Handlers \ {h} : handler'[g] = handler[g]
           /\ \A target : Acknowledge(h, target) =>
                 /\ handler'[h] = Idle
                 /\ acks' = acks \cup {[req |-> handler[h].req, target |-> target]}
                 /\ \A g \in Handlers \ {h} : handler'[g] = handler[g]
           /\ \A stage : Goto(h, stage) =>
                 /\ handler'[h].pc = stage /\ handler'[h].req = handler[h].req
                 /\ handler'[h].target = handler[h].target
                 /\ handler'[h].before = handler[h].before
                 /\ \A g \in Handlers \ {h} : handler'[g] = handler[g]
BY DEF TypeInv, TypeOK, HandlerState, Answer, Acknowledge, Goto

(* An accept that throws: a handoff whose checkpoint is durable is answered *)
(* anyway, a dispatch goes on to record its doubt, an adoption gives up.   *)
LEMMA ThrowMoves ==
    ASSUME TypeInv, HandoffsOnly, NEW h \in Handlers, At(h, AcceptStages), AcceptThrows(h)
    PROVE  /\ \A g \in Handlers \ {h} : handler'[g] = handler[g]
           /\ \/ /\ handler'[h] = Idle /\ acks' = acks
              \/ /\ handler'[h] = Idle
                 /\ acks' = acks \cup {[req |-> handler[h].req, target |-> handler[h].target]}
                 /\ At(h, {"recheckpoint", "accept"}) /\ Op(h) \in Handoffs
              \/ /\ handler'[h].pc = "failUncertain" /\ handler'[h].req = handler[h].req
                 /\ handler'[h].before = handler[h].before
                 /\ At(h, {"checkpoint", "accept"}) /\ acks' = acks
<1>1. CASE /\ At(h, {"checkpoint"}) \/ (At(h, {"accept"}) /\ Op(h) \notin Handoffs)
           /\ Goto(h, "failUncertain") /\ UNCHANGED acks
  BY <1>1, Moves DEF At
<1>2. CASE /\ At(h, {"recheckpoint"}) \/ (At(h, {"accept"}) /\ Op(h) \in Handoffs)
           /\ Acknowledge(h, handler[h].target)
  BY <1>2, Moves DEF At, HandoffsOnly, HandoffStages
<1>3. CASE Answer(h)
  BY <1>3, Moves
<1> QED
  BY <1>1, <1>2, <1>3 DEF AcceptThrows

(* Every step of a handler keeps WorkInv. *)
LEMMA StepWork ==
    ASSUME TypeInv, IssueInv, WorkInv, NEW h \in Handlers, Step(h)
    PROVE  WorkInv'
<1>a. /\ handler \in [Handlers -> HandlerState] /\ taken \subseteq taken
  BY DEF TypeInv, TypeOK
<1>b. Answer(h) => /\ handler'[h] = Idle /\ acks' = acks
                   /\ \A g \in Handlers \ {h} : handler'[g] = handler[g]
                   /\ ~PlainHolder(h)' /\ ~At(h, HandoffStages)' /\ ~At(h, DoneStages)'
  BY Moves DEF Idle, PlainHolder, Holds, Owner, At, OwnerStages, FreshStages,
               HandoffStages, DoneStages
<1>c. \A target : Acknowledge(h, target) =>
         /\ \A g \in Handlers \ {h} : handler'[g] = handler[g]
         /\ acks' = acks \cup {[req |-> handler[h].req, target |-> target]}
         /\ ~PlainHolder(h)' /\ ~At(h, HandoffStages)' /\ ~At(h, DoneStages)'
  BY Moves DEF Idle, PlainHolder, Holds, Owner, At, OwnerStages, FreshStages,
               HandoffStages, DoneStages
<1>d. \A stage : Goto(h, stage) =>
         /\ handler'[h].pc = stage /\ handler'[h].req = handler[h].req
         /\ \A g \in Handlers \ {h} : handler'[g] = handler[g]
  BY Moves
<1>e. /\ (At(h, {"begin"}) /\ lock # h => ~PlainHolder(h))
      /\ (Free => lock # h)
  BY ConstantsAssumption DEF PlainHolder, Holds, Owner, At, Free
<1>f. AcceptThrows(h) /\ At(h, AcceptStages) =>
         /\ \A g \in Handlers \ {h} : handler'[g] = handler[g]
         /\ ~PlainHolder(h)' /\ ~At(h, HandoffStages)' /\ ~At(h, DoneStages)'
         /\ \/ acks' = acks
            \/ \E t : /\ acks' = acks \cup {[req |-> handler[h].req, target |-> t]}
                      /\ Op(h) \in Handoffs
  <2>1. handler'[h] = Idle \/ handler'[h].pc = "failUncertain" =>
          ~PlainHolder(h)' /\ ~At(h, HandoffStages)' /\ ~At(h, DoneStages)'
    BY DEF Idle, PlainHolder, Holds, Owner, At, OwnerStages, FreshStages, HandoffStages, DoneStages
  <2> QED
    BY <2>1, ThrowMoves DEF WorkInv
<1>1. CASE BeginNew(h)
  <2> DEFINE entry == [NoEntry EXCEPT !.state = "pending", !.req = handler[h].req]
  <2>1. /\ At(h, {"begin"}) /\ Free /\ Current[Op(h)].state = "absent"
        /\ Enter(h, [Current EXCEPT ![Op(h)] = entry], Op(h)) /\ UNCHANGED <<handler, acks>>
    BY <1>1 DEF BeginNew
  <2>2. Op(h) \in Ops /\ handler[h].req \in Requests
    BY <2>1, OpType DEF At
  <2>3. entry \in Entry /\ entry.state = "pending" /\ entry.req = handler[h].req
    BY <2>2, NoEntryType DEF Entry, EntryStates, NoEntry
  <2> HIDE DEF entry
  <2>4. NamesItsRequest(Op(h), entry)
    BY <2>2, <2>3 DEF NamesItsRequest, Op
  <2>5. ASSUME NEW g \in Handlers \ {h}, PlainHolder(g), Op(g) = Op(h)
        PROVE  FALSE
    <3>1. Current = ledger
      BY <2>5, HolderHasLoaded DEF PlainHolder, Holds
    <3> QED
      BY <2>1, <2>5, <3>1 DEF WorkInv, PlainEntry
  <2> QED
    BY <2>1, <2>2, <2>3, <2>4, <2>5, EnterWork
<1>2. CASE BeginConflict(h)
  BY <1>2, <1>a, <1>b, OutsideWork DEF BeginConflict, worldVars, queueVars
<1>3. CASE BeginDuplicate(h)
  <2> DEFINE entry == Current[Op(h)]
  <2>1. /\ At(h, {"begin"}) /\ Free /\ entry.req = handler[h].req /\ ledger' = Current
        /\ UNCHANGED <<lock, disk, taken>> /\ Op(h) \in Ops /\ entry.state # "absent"
    BY <1>3, OpType DEF BeginDuplicate, worldVars, queueVars, At
  <2>2. CASE /\ Op(h) \in Handoffs /\ UNCHANGED acks
             /\ handler' = [handler EXCEPT ![h].pc = "reconcile", ![h].before = entry.before]
    <3>1. /\ handler'[h].pc = "reconcile" /\ handler'[h].req = handler[h].req
          /\ \A g \in Handlers \ {h} : handler'[g] = handler[g]
      BY <1>a, <2>2 DEF HandlerState
    <3>2. ~PlainHolder(h)' /\ ~At(h, DoneStages)' /\ Op(h)' \in Handoffs
      BY <2>2, <3>1 DEF PlainHolder, Holds, Owner, At, OwnerStages, FreshStages, DoneStages, Op
    <3> QED
      BY <1>a, <2>1, <2>2, <3>1, <3>2, OutsideWork
  <2>3. CASE entry.state = "accepted" /\ Acknowledge(h, entry.target)
    <3>1. Op(h) \in Handoffs \/ handler[h].req \in taken
      BY <2>1, <2>3 DEF WorkInv, AcceptedWorkTaken, Current
    <3> HIDE DEF entry
    <3> QED
      BY <1>a, <1>c, <2>1, <2>3, <3>1, OutsideWork
  <2>4. CASE Answer(h)
    BY <1>a, <1>b, <2>1, <2>4, OutsideWork
  <2> QED
    BY <1>3, <2>2, <2>3, <2>4 DEF BeginDuplicate
<1>4. CASE LoadFails(h)
  BY <1>4, <1>a, <1>b, OutsideWork DEF LoadFails, worldVars, queueVars
<1>5. CASE BeginSaved(h)
  <2>1. /\ At(h, {"begin"}) /\ Persist(h) /\ acks' = acks
        /\ handler'[h].pc = IF Op(h) \in Handoffs THEN "list" ELSE "call"
        /\ handler'[h].req = handler[h].req
        /\ \A g \in Handlers \ {h} : handler'[g] = handler[g]
    BY <1>5, <1>d DEF BeginSaved
  <2>2. PlainHolder(h)' => PlainHolder(h)
    BY <2>1 DEF Persist, PlainHolder, Holds, Owner, At, Op, OwnerStages, FreshStages
  <2>3. ~At(h, DoneStages)' /\ (At(h, HandoffStages)' => Op(h)' \in Handoffs)
    BY <2>1 DEF At, Op, DoneStages, HandoffStages
  <2> QED
    BY <1>a, <2>1, <2>2, <2>3, OutsideWork DEF Persist, worldVars, queueVars
<1>6. CASE BeginUnsaved(h)
  BY <1>6, <1>a, <1>b, OutsideWork DEF BeginUnsaved, PersistFails, worldVars, queueVars
<1>7. CASE ListTargets(h)
  <2>1. /\ At(h, {"list"}) /\ handler'[h].pc = "call" /\ handler'[h].req = handler[h].req
        /\ \A g \in Handlers \ {h} : handler'[g] = handler[g]
    BY <1>7, <1>a DEF ListTargets, HandlerState
  <2>2. Op(h)' \in Handoffs /\ ~PlainHolder(h)' /\ ~At(h, DoneStages)'
    BY <2>1 DEF Op, At, PlainHolder, DoneStages, HandoffStages, WorkInv, HandoffsOnly
  <2> QED
    BY <1>7, <1>a, <2>1, <2>2, OutsideWork DEF ListTargets, ledgerVars, worldVars, queueVars
<1>8. CASE Refused(h)
  <2>1. /\ At(h, {"list", "call"})
        /\ handler'[h].pc = "failRejected" /\ handler'[h].req = handler[h].req
        /\ \A g \in Handlers \ {h} : handler'[g] = handler[g]
    BY <1>8, <1>d DEF Refused
  <2>2. ~At(h, DoneStages)' /\ ~At(h, HandoffStages)' /\ (PlainHolder(h)' => PlainHolder(h))
    BY <2>1 DEF Op, At, PlainHolder, DoneStages, HandoffStages, Holds, Owner, OwnerStages, FreshStages
  <2> QED
    BY <1>8, <1>a, <2>1, <2>2, OutsideWork DEF Refused, ledgerVars, worldVars, queueVars
<1>9. CASE CallLost(h)
  <2>1. /\ handler'[h].pc = "failUncertain" /\ handler'[h].req = handler[h].req
        /\ \A g \in Handlers \ {h} : handler'[g] = handler[g]
    BY <1>9, <1>d DEF CallLost
  <2>2. ~At(h, DoneStages)' /\ ~At(h, HandoffStages)' /\ ~PlainHolder(h)'
    BY <2>1 DEF At, PlainHolder, DoneStages, HandoffStages
  <2> QED
    BY <1>9, <1>a, <2>1, <2>2, OutsideWork DEF CallLost, ledgerVars, queueVars
<1>10. ASSUME NEW session \in Sessions \cup {NoSession}, CallSucceeds(h, session)
       PROVE  WorkInv'
  <2>1. /\ At(h, {"call"}) /\ handler'[h].req = handler[h].req
        /\ handler'[h].pc = IF Op(h) \in Handoffs THEN "checkpoint" ELSE "accept"
        /\ \A g \in Handlers \ {h} : handler'[g] = handler[g]
        /\ taken' = taken \cup {handler[h].req}
        /\ UNCHANGED <<ledgerVars, acks>>
    BY <1>10, <1>a DEF CallSucceeds, HandlerState
  <2>3. taken \subseteq taken' /\ handler'[h].req \in taken'
    BY <2>1
  <2>4. /\ PlainHolder(h)' => PlainHolder(h)
        /\ At(h, HandoffStages)' => Op(h)' \in Handoffs
    BY <2>1 DEF PlainHolder, Holds, Owner, At, Op, OwnerStages, FreshStages, HandoffStages, ledgerVars
  <2> QED
    BY <2>1, <2>3, <2>4, OutsideWork DEF ledgerVars
<1>11. CASE EnterAccept(h)
  <2> DEFINE old == Current[Op(h)]
             entry == [old EXCEPT !.state = "accepted", !.target = handler[h].target, !.before = {}]
  <2>1. /\ At(h, AcceptStages) /\ Free /\ old.state # "absent"
        /\ Enter(h, [Current EXCEPT ![Op(h)] = entry], Op(h)) /\ UNCHANGED <<handler, acks>>
    BY <1>11 DEF EnterAccept
  <2>2. Op(h) \in Ops /\ old \in Entry
    BY <2>1, OpType, CurrentType DEF At, AcceptStages, TypeInv
  <2>3. entry \in Entry /\ entry.state = "accepted" /\ entry.req = old.req
    BY <1>a, <2>2 DEF Entry, EntryStates, HandlerState
  <2> HIDE DEF entry
  <2>4. NamesItsRequest(Op(h), entry)
    BY <2>1, <2>2, <2>3 DEF NamesItsRequest, WorkInv, EntriesNamed, Current
  <2>5. ~PlainHolder(h)'
    <3>1. handler' = handler /\ lock' = h
      BY <2>1 DEF Enter
    <3> QED
      BY <2>1, <3>1 DEF PlainHolder, Holds, Owner, At, AcceptStages, OwnerStages, FreshStages,
                        WorkInv, HandoffsOnly, HandoffStages, Op
  <2>6. Op(h) \notin Handoffs => PlainHolder(h) /\ At(h, {"accept"}) /\ Current = ledger
    <3> SUFFICES ASSUME Op(h) \notin Handoffs
                 PROVE  PlainHolder(h) /\ At(h, {"accept"}) /\ Current = ledger
      OBVIOUS
    <3>1. At(h, {"accept"})
      BY <2>1 DEF At, AcceptStages, WorkInv, HandoffsOnly, HandoffStages
    <3>2. PlainHolder(h)
      BY <1>e, <2>1, <3>1 DEF PlainHolder, Holds, Owner, At, OwnerStages
    <3> QED
      BY <3>1, <3>2, HolderHasLoaded DEF PlainHolder, Holds
  <2>7. ASSUME NEW g \in Handlers \ {h}, PlainHolder(g), Op(g) = Op(h)
        PROVE  FALSE
    BY <2>6, <2>7 DEF WorkInv, OnePlainHolder, PlainHolder
  <2>8. Op(h) \notin Handoffs => entry.req \in taken
    BY <2>3, <2>6 DEF WorkInv, PlainEntry, DoneFirst, At, DoneStages
  <2> QED
    BY <2>1, <2>2, <2>3, <2>4, <2>5, <2>7, <2>8, EnterWork
<1>12. CASE CheckpointSaved(h)
  <2>1. /\ At(h, {"checkpoint", "recheckpoint"}) /\ Persist(h) /\ acks' = acks
        /\ handler'[h].pc \in {"recheckpoint", "accept"} /\ handler'[h].req = handler[h].req
        /\ \A g \in Handlers \ {h} : handler'[g] = handler[g]
    BY <1>12, <1>d DEF CheckpointSaved
  <2>2. Op(h)' \in Handoffs /\ handler'[h].req \in taken
    BY <2>1 DEF WorkInv, HandoffsOnly, DoneFirst, At, HandoffStages, DoneStages, Op
  <2>3. ~PlainHolder(h)'
    BY <2>2 DEF PlainHolder
  <2> QED
    BY <1>a, <2>1, <2>2, <2>3, OutsideWork DEF Persist, worldVars, queueVars
<1>13. CASE AcceptSaved(h)
  <2>1. At(h, {"accept", "adopt"}) /\ Persist(h) /\ Acknowledge(h, handler[h].target)
    BY <1>13 DEF AcceptSaved
  <2>2. Op(h) \in Handoffs \/ handler[h].req \in taken
    BY <2>1 DEF WorkInv, HandoffsOnly, DoneFirst, At, HandoffStages, DoneStages
  <2> QED
    BY <1>a, <1>c, <2>1, <2>2, OutsideWork DEF Persist, worldVars, queueVars
<1>14. CASE AcceptUnsaved(h)
  BY <1>14, <1>a, <1>f, OutsideWork DEF AcceptUnsaved, PersistFails, worldVars, queueVars
<1>15. CASE AcceptMissing(h)
  BY <1>15, <1>a, <1>f, OutsideWork DEF AcceptMissing, ledgerVars, worldVars, queueVars
<1>16. CASE EnterFail(h)
  <2> DEFINE old == Current[Op(h)]
             uncertain == IF Op(h) \in Handoffs
                          THEN [old EXCEPT !.state = "uncertain", !.target = NoSession,
                                           !.before = handler[h].before]
                          ELSE [old EXCEPT !.state = "uncertain"]
             entry == IF At(h, {"failUncertain"}) THEN uncertain ELSE NoEntry
  <2>1. /\ At(h, FailStages) /\ Free /\ old.state # "absent"
        /\ Enter(h, [Current EXCEPT ![Op(h)] = entry], Op(h)) /\ UNCHANGED <<handler, acks>>
    BY <1>16 DEF EnterFail
  <2>2. Op(h) \in Ops /\ old \in Entry /\ handler[h].before \in SUBSET Sessions
    BY <1>a, <2>1, OpType, CurrentType DEF At, FailStages, TypeInv, HandlerState
  <2>3. /\ entry \in Entry
        /\ At(h, {"failUncertain"}) => entry.state = "uncertain" /\ entry.req = old.req
        /\ ~At(h, {"failUncertain"}) => entry.state = "absent"
    BY <2>2, NoEntryType DEF Entry, EntryStates, NoEntry
  <2> HIDE DEF entry
  <2>4. NamesItsRequest(Op(h), entry)
    BY <2>1, <2>2, <2>3 DEF NamesItsRequest, WorkInv, EntriesNamed, Current
  <2>5. ~PlainHolder(h)'
    <3>1. handler' = handler /\ lock' = h
      BY <2>1 DEF Enter
    <3> QED
      BY <2>1, <3>1 DEF PlainHolder, Holds, At, FailStages
  <2>6. ASSUME NEW g \in Handlers \ {h}, PlainHolder(g), Op(g) = Op(h), ~At(h, {"failUncertain"})
        PROVE  FALSE
    <3>1. At(h, {"failRejected"}) /\ lock # h
      BY <1>e, <2>1, <2>6 DEF At, FailStages
    <3>2. PlainHolder(h)
      BY <2>6, <3>1 DEF PlainHolder, Holds, Owner, At, OwnerStages, FreshStages
    <3> QED
      BY <2>6, <3>2 DEF WorkInv, OnePlainHolder
  <2> QED
    BY <2>1, <2>2, <2>3, <2>4, <2>5, <2>6, EnterWork
<1>17. CASE FailSaved(h)
  BY <1>17, <1>a, <1>b, OutsideWork DEF FailSaved, Persist, worldVars, queueVars
<1>18. CASE FailUnsaved(h)
  BY <1>18, <1>a, <1>b, OutsideWork DEF FailUnsaved, PersistFails, worldVars, queueVars
<1>19. CASE FailMissing(h)
  BY <1>19, <1>a, <1>b, OutsideWork DEF FailMissing, ledgerVars, worldVars, queueVars
<1>20. ASSUME NEW session \in Sessions, Reconcile(h, session)
       PROVE  WorkInv'
  <2>1. /\ At(h, {"reconcile"}) /\ handler'[h].pc = "adopt" /\ handler'[h].req = handler[h].req
        /\ \A g \in Handlers \ {h} : handler'[g] = handler[g]
    BY <1>20, <1>a DEF Reconcile, HandlerState
  <2>2. Op(h)' \in Handoffs /\ ~PlainHolder(h)' /\ ~At(h, DoneStages)'
    BY <2>1 DEF Op, At, PlainHolder, DoneStages, HandoffStages, WorkInv, HandoffsOnly
  <2> QED
    BY <1>20, <1>a, <2>1, <2>2, OutsideWork DEF Reconcile, ledgerVars, worldVars, queueVars
<1>21. CASE ReconcileNothing(h)
  BY <1>21, <1>a, <1>b, OutsideWork DEF ReconcileNothing, ledgerVars, worldVars, queueVars
<1> QED
  BY <1>1, <1>2, <1>3, <1>4, <1>5, <1>6, <1>7, <1>8, <1>9, <1>10, <1>11, <1>12, <1>13,
     <1>14, <1>15, <1>16, <1>17, <1>18, <1>19, <1>20, <1>21 DEF Step

(* More work done by the agents, and nothing else, keeps WorkInv. *)
LEMMA WorldWork ==
    ASSUME TypeInv, WorkInv, UNCHANGED <<ledgerVars, handler, acks>>,
           taken \subseteq taken'
    PROVE  WorkInv'
<1> USE DEF WorkInv, ledgerVars
<1>1. /\ \A g \in Handlers : At(g, DoneStages) => handler[g].req \in Requests
      /\ \A a \in acks : a.req \in Requests
  BY DEF TypeInv, TypeOK, Busy, Acknowledgement, At, DoneStages
<1>2. \A g \in Handlers : /\ Op(g)' = Op(g) /\ (\A S : At(g, S)' = At(g, S))
                          /\ PlainHolder(g)' = PlainHolder(g)
  BY DEF Op, At, PlainHolder, Holds, Owner
<1>3. HandoffsOnly' /\ PlainEntry' /\ OnePlainHolder' /\ EntriesNamed'
  BY <1>2 DEF HandoffsOnly, PlainEntry, OnePlainHolder, EntriesNamed
<1>4. DoneFirst'
  BY <1>1, <1>2 DEF DoneFirst
<1>5. AcceptedWorkTaken'
  BY <1>1 DEF AcceptedWorkTaken, EntriesNamed, NamesItsRequest
<1>6. AckedWorkWasTaken'
  BY <1>1 DEF AckedWorkWasTaken
<1> QED
  BY <1>3, <1>4, <1>5, <1>6

(* So does every step of the environment. *)
LEMMA EnvironmentWork ==
    ASSUME TypeInv, IssueInv, WorkInv, Environment
    PROVE  WorkInv'
<1>a. /\ handler \in [Handlers -> HandlerState] /\ taken \subseteq taken
  BY DEF TypeInv, TypeOK
<1>1. ASSUME NEW h \in Handlers, NEW r \in Requests, Receive(h, r)
      PROVE  WorkInv'
  <2>1. /\ At(h, {"idle"}) /\ handler'[h].pc = "begin"
        /\ \A g \in Handlers \ {h} : handler'[g] = handler[g]
        /\ UNCHANGED <<ledgerVars, worldVars, acks>>
    BY <1>1, <1>a DEF Receive, Idle, HandlerState
  <2>2. lock # h
    BY <2>1 DEF IssueInv, LockHolder, At, AcceptStages, FailStages
  <2>3. ~PlainHolder(h)' /\ ~At(h, DoneStages)' /\ ~At(h, HandoffStages)'
    BY <2>1, <2>2 DEF PlainHolder, Holds, Owner, At, DoneStages, HandoffStages, ledgerVars
  <2> QED
    BY <1>a, <2>1, <2>3, OutsideWork DEF ledgerVars, worldVars, queueVars
<1>2. ASSUME NEW r \in Requests, NEW session \in Sessions \cup {NoSession},
             LateDelivery(r, session)
      PROVE  WorkInv'
  BY <1>2, WorldWork DEF LateDelivery, queueVars
<1>3. ASSUME NEW session \in Sessions, SessionElsewhere(session)
      PROVE  WorkInv'
  BY <1>3, WorldWork DEF SessionElsewhere, queueVars
<1>4. CASE Crash
  <2>1. /\ ledger' = [o \in Ops |-> NoEntry] /\ handler' = [h \in Handlers |-> Idle]
        /\ UNCHANGED <<disk, taken, acks>>
    BY <1>4 DEF Crash, worldVars, queueVars
  <2>2. \A h \in Handlers : ~PlainHolder(h)' /\ ~At(h, HandoffStages)' /\ ~At(h, DoneStages)'
    BY <2>1 DEF PlainHolder, Holds, Owner, At, OwnerStages, FreshStages, HandoffStages,
                DoneStages, Idle
  <2> QED
    BY <2>1, <2>2 DEF WorkInv, HandoffsOnly, DoneFirst, PlainEntry, OnePlainHolder, EntriesNamed,
                      NamesItsRequest, AcceptedWorkTaken, AckedWorkWasTaken, NoEntry
<1>5. ASSUME NEW r \in Requests, LeaveQueue(r)
      PROVE  WorkInv'
  BY <1>5, WorldWork DEF LeaveQueue
<1> QED
  BY <1>1, <1>2, <1>3, <1>4, <1>5 DEF Environment

(* Types, IssueInv and WorkInv hold in every reachable state. *)
THEOREM WorkInvariant == Spec => [](TypeInv /\ IssueInv /\ WorkInv)
<1>1. Init => WorkInv
  <2> SUFFICES ASSUME Init PROVE WorkInv
    OBVIOUS
  <2>1. \A h \in Handlers : ~PlainHolder(h) /\ ~At(h, HandoffStages) /\ ~At(h, DoneStages)
    BY DEF Init, PlainHolder, Holds, Owner, At, OwnerStages, FreshStages, HandoffStages,
           DoneStages, Idle
  <2> QED
    BY <2>1 DEF Init, WorkInv, HandoffsOnly, DoneFirst, PlainEntry, OnePlainHolder, EntriesNamed,
                NamesItsRequest, AcceptedWorkTaken, AckedWorkWasTaken, NoEntry
<1>2. TypeInv /\ IssueInv /\ WorkInv /\ [Next]_vars => WorkInv'
  <2> SUFFICES ASSUME TypeInv, IssueInv, WorkInv, [Next]_vars PROVE WorkInv'
    OBVIOUS
  <2>1. CASE UNCHANGED vars
    BY <2>1, WorldWork DEF vars, worldVars, queueVars
  <2> QED
    BY <2>1, StepWork, EnvironmentWork DEF Next
<1> QED
  BY <1>1, <1>2, IssueInvariant, PTL DEF Spec

(* HTTP 200 for a prompt, command or stop is only given for a body that an *)
(* agent received, by the handler that sent it or by a duplicate that      *)
(* found its entry, through any trim, restart and failing write.           *)
THEOREM AckedWorkWasTakenHolds == Spec => []AckedWorkWasTaken
<1>1. WorkInv => AckedWorkWasTaken
  BY DEF WorkInv
<1> QED
  BY <1>1, WorkInvariant, PTL

-----------------------------------------------------------------------------
(***************************************************************************)
(* The record.  Of a remembered operation, the entry names the request     *)
(* that was issued, and only what was issued is accepted or uncertain.     *)
(***************************************************************************)
RequestIssued(r) == applied[r] + orphans[r] > 0

IssuedStages == DoneStages \cup {"failUncertain", "reconcile", "adopt"}

(* Of a remembered operation, a handler past its call, an acknowledgement  *)
(* and an entry that says more than "pending" mean that it was issued.     *)
OnlyIssued ==
    /\ \A h \in Handlers : At(h, IssuedStages) /\ Remembered(h) => RequestIssued(handler[h].req)
    /\ \A a \in acks : Identity[a.req] \notin forgotten => RequestIssued(a.req)
    /\ \A o \in Ops \ forgotten :
          /\ ledger[o].state \in {"accepted", "uncertain"} => Issued(o)
          /\ disk[o].state \in {"accepted", "uncertain"} => Issued(o)

(* The entry of a remembered operation names the request that was issued.  *)
RecordedRequest ==
    /\ \A r \in Requests : RequestIssued(r) /\ Identity[r] \notin forgotten =>
          /\ disk[Identity[r]].req = r
          /\ loaded => ledger[Identity[r]].req = r
    /\ \A h \in Handlers : Holds(h) /\ Remembered(h) => ledger[Op(h)].req = handler[h].req
    /\ \A h \in Handlers : At(h, {"list", "call"}) /\ Remembered(h) => disk[Op(h)].req = handler[h].req

RecordInv == OnlyIssued /\ RecordedRequest

(* A section that writes one entry keeps the record. *)
LEMMA EnterRecord ==
    ASSUME TypeInv, IssueInv, RecordInv, NEW h \in Handlers, NEW entry \in Entry, Free,
           Op(h) \in Ops, handler[h].pc # "idle",
           Enter(h, [Current EXCEPT ![Op(h)] = entry], Op(h)), UNCHANGED <<handler, acks>>,
           Remembered(h) /\ entry.state \in {"accepted", "uncertain"} => Issued(Op(h)),
           Remembered(h) /\ Issued(Op(h)) => entry.req = Current[Op(h)].req,
           \A g \in Handlers : Holds(g)' /\ Op(g) = Op(h) /\ Remembered(h) =>
              entry.req = handler[g].req,
           \A g \in Handlers : Holds(g)' => Holds(g) \/ g = h
    PROVE  RecordInv'
<1> USE DEF RecordInv
<1> DEFINE map == [Current EXCEPT ![Op(h)] = entry]
<1>1. Current \in [Ops -> Entry] /\ map \in [Ops -> Entry] /\ Enter(h, map, Op(h))
  BY CurrentType DEF TypeInv
<1>2. map[Op(h)] = entry /\ \A k \in Ops : k # Op(h) => map[k] = Current[k]
  BY <1>1
<1> HIDE DEF map
<1>3. /\ forgotten \subseteq forgotten'
      /\ \A k \in Ops \ forgotten' : ledger'[k] = map[k]
      /\ loaded' = TRUE /\ disk' = disk /\ applied' = applied /\ orphans' = orphans
  BY <1>1, EnterKeeps DEF TypeInv
<1>4. /\ \A r : RequestIssued(r)' = RequestIssued(r)
      /\ \A o : Issued(o)' = Issued(o)
  BY <1>3 DEF RequestIssued, Issued
<1>5. \A g \in Handlers : /\ Op(g)' = Op(g) /\ (\A S : At(g, S)' = At(g, S))
                          /\ Remembered(g)' => Remembered(g)
  BY <1>3 DEF Op, At, Remembered
<1>6. /\ \A o \in Ops \ forgotten : Current[o].state \in {"accepted", "uncertain"} => Issued(o)
      /\ \A r \in Requests : RequestIssued(r) /\ Identity[r] \notin forgotten =>
            Current[Identity[r]].req = r
      /\ \A g \in Handlers : Holds(g) /\ Remembered(g) => Current[Op(g)].req = handler[g].req
  <2>1. \A g \in Handlers : Holds(g) => Current = ledger
    BY HolderHasLoaded DEF Holds
  <2> QED
    BY <2>1 DEF Current, OnlyIssued, RecordedRequest
<1>7. OnlyIssued'
  <2>1. \A o \in Ops \ forgotten' : map[o].state \in {"accepted", "uncertain"} => Issued(o)
    BY <1>2, <1>3, <1>6 DEF Remembered
  <2> QED
    BY <1>3, <1>4, <1>5, <2>1 DEF OnlyIssued
<1>8. RecordedRequest'
  <2>1. \A r \in Requests : RequestIssued(r) /\ Identity[r] \notin forgotten' =>
            map[Identity[r]].req = r
    BY <1>2, <1>3, <1>6, ConstantsAssumption DEF Remembered, Issued, RequestIssued
  <2>2. \A g \in Handlers : Holds(g)' /\ Remembered(g)' => map[Op(g)].req = handler[g].req
    <3> SUFFICES ASSUME NEW g \in Handlers, Holds(g)', Remembered(g)'
                 PROVE  map[Op(g)].req = handler[g].req
      OBVIOUS
    <3>1. Op(g) \in Ops /\ Remembered(g)
      BY <1>5, OpType DEF Holds, Owner, At, OwnerStages, FreshStages
    <3>2. CASE Op(g) = Op(h)
      BY <1>2, <3>1, <3>2 DEF Remembered
    <3>3. CASE Op(g) # Op(h)
      BY <1>2, <1>6, <3>1, <3>3
    <3> QED
      BY <3>2, <3>3
  <2>3. \A g \in Handlers : Holds(g)' => Op(g) \in Ops
    BY <1>5, OpType DEF Holds, Owner, At, OwnerStages, FreshStages
  <2> QED
    BY <1>3, <1>4, <1>5, <2>1, <2>2, <2>3, ConstantsAssumption DEF RecordedRequest, Remembered
<1> QED
  BY <1>7, <1>8

(* A step outside a section that issues nothing keeps the record. *)
LEMMA OutsideRecord ==
    ASSUME TypeInv, TypeInv', IssueInv, RecordInv, NEW h \in Handlers,
           \A g \in Handlers \ {h} : handler'[g] = handler[g],
           lock' = lock \/ (lock' = NoHandler /\ lock \in {h, NoHandler}),
           \/ ledger' = ledger /\ loaded' = loaded
           \/ ledger' = Current /\ loaded' = TRUE,
           disk' = disk \/ (disk' = ledger /\ loaded), forgotten' = forgotten,
           \A r \in Requests : RequestIssued(r)' = RequestIssued(r),
           Holds(h)' => Holds(h) /\ handler'[h].req = handler[h].req,
           At(h, {"list", "call"})' =>
              /\ Holds(h) /\ handler'[h].req = handler[h].req
              /\ At(h, {"list", "call"}) \/ disk' = ledger,
           At(h, IssuedStages)' /\ Remembered(h)' => RequestIssued(handler'[h].req),
           \/ acks' = acks
           \/ \E t : /\ acks' = acks \cup {[req |-> handler[h].req, target |-> t]}
                     /\ Remembered(h) => RequestIssued(handler[h].req)
    PROVE  RecordInv'
<1> USE DEF RecordInv
<1>1. \A o : Issued(o)' = Issued(o)
  BY DEF Issued, RequestIssued
<1>2. \A g \in Handlers \ {h} :
        /\ Op(g)' = Op(g) /\ (\A S : At(g, S)' = At(g, S)) /\ Remembered(g)' = Remembered(g)
        /\ Holds(g)' => Holds(g)
  BY ConstantsAssumption DEF Holds, Owner, Op, At, Remembered
<1>3. \A g \in Handlers : Holds(g) => ledger' = ledger
  BY HolderHasLoaded DEF Holds
<1>4. \A g \in Handlers \ {h} : At(g, {"list", "call"}) => Holds(g)
  BY DEF Holds, Owner, At, OwnerStages, FreshStages
<1>5. OnlyIssued'
  <2>1. ASSUME NEW g \in Handlers, At(g, IssuedStages)', Remembered(g)'
        PROVE  RequestIssued(handler[g].req)'
    <3>1. RequestIssued(handler'[g].req)
      BY <1>2, <2>1 DEF OnlyIssued
    <3>2. handler'[g].req \in Requests
      BY <2>1 DEF TypeInv, Busy, At, IssuedStages, DoneStages
    <3>3. RequestIssued(handler[g].req)' = (applied'[handler'[g].req] + orphans'[handler'[g].req] > 0)
      BY DEF RequestIssued
    <3> QED
      BY <3>1, <3>2, <3>3 DEF RequestIssued
  <2>2. ASSUME NEW a \in acks', Identity[a.req] \notin forgotten'
        PROVE  RequestIssued(a.req)'
    <3>1. RequestIssued(a.req)
      BY <2>2 DEF OnlyIssued, Remembered, Op
    <3>2. a.req \in Requests
      BY DEF TypeInv, TypeOK, Acknowledgement
    <3> QED
      BY <3>1, <3>2
  <2>3. \A o \in Ops \ forgotten' :
          /\ (ledger[o].state \in {"accepted", "uncertain"})' => Issued(o)'
          /\ (disk[o].state \in {"accepted", "uncertain"})' => Issued(o)'
    BY <1>1 DEF OnlyIssued, Current
  <2> QED
    BY <2>1, <2>2, <2>3 DEF OnlyIssued
<1>6. RecordedRequest'
  <2>1. \A r \in Requests : RequestIssued(r)' /\ Identity[r] \notin forgotten' =>
          /\ disk'[Identity[r]].req = r
          /\ loaded' => ledger'[Identity[r]].req = r
    BY DEF RecordedRequest, Current
  <2>2. \A g \in Handlers : Holds(g)' /\ Remembered(g)' => ledger'[Op(g)'].req = handler'[g].req
    BY <1>2, <1>3 DEF RecordedRequest, Op, Remembered
  <2>3. \A g \in Handlers : At(g, {"list", "call"})' /\ Remembered(g)' =>
          disk'[Op(g)'].req = handler'[g].req
    BY <1>2, <1>4 DEF RecordedRequest, Op, Remembered
  <2> QED
    BY <2>1, <2>2, <2>3 DEF RecordedRequest
<1> QED
  BY <1>5, <1>6

(* The call: the owner's request is issued, and both the map and the file  *)
(* name it.                                                                *)
LEMMA IssueRecord ==
    ASSUME TypeInv, IssueInv, RecordInv, NEW h \in Handlers, At(h, {"call"}),
           At(h, {"checkpoint", "accept", "failUncertain"})',
           handler'[h].req = handler[h].req,
           \A g \in Handlers \ {h} : handler'[g] = handler[g],
           \/ /\ applied' = [applied EXCEPT ![handler[h].req] = @ + 1]
              /\ orphans' = orphans
           \/ /\ orphans' = [orphans EXCEPT ![handler[h].req] = @ + 1]
              /\ applied' = applied,
           UNCHANGED <<ledgerVars, acks>>
    PROVE  RecordInv'
<1> USE DEF RecordInv, ledgerVars
<1>1. /\ handler[h].req \in Requests /\ Op(h) \in Ops /\ handler[h].pc = "call"
      /\ applied \in [Requests -> Nat] /\ orphans \in [Requests -> Nat]
  BY OpType DEF At, TypeInv, TypeOK
<1>2. \A r \in Requests : RequestIssued(r)' = (RequestIssued(r) \/ r = handler[h].req)
  BY <1>1 DEF RequestIssued
<1>3. \A o : Issued(o) => Issued(o)'
  BY <1>2 DEF Issued, RequestIssued
<1>4. /\ Remembered(h) => ledger[Op(h)].req = handler[h].req /\ disk[Op(h)].req = handler[h].req
      /\ Holds(h)
  BY <1>1 DEF RecordedRequest, Holds, Owner, At, OwnerStages, FreshStages
<1>5. \A g \in Handlers :
        /\ Op(g)' = Op(g) /\ Remembered(g)' = Remembered(g)
        /\ Holds(g)' => Holds(g)
        /\ handler'[g].req = handler[g].req
        /\ g # h => \A S : At(g, S)' = At(g, S)
  BY <1>4 DEF Op, Remembered, Holds, Owner, At
<1>6. OnlyIssued'
  <2>1. \A g \in Handlers : At(g, IssuedStages)' => handler[g].req \in Requests
    BY <1>1, <1>5 DEF TypeInv, Busy, At, IssuedStages, DoneStages
  <2>2. \A a \in acks : a.req \in Requests
    BY DEF TypeInv, TypeOK, Acknowledgement
  <2>3. ASSUME NEW g \in Handlers, At(g, IssuedStages)', Remembered(g)'
        PROVE  RequestIssued(handler[g].req)'
    <3>0. g # h => At(g, IssuedStages) /\ Remembered(g)
      BY <1>5, <2>3
    <3>1. handler[g].req \in Requests /\ (g = h \/ RequestIssued(handler[g].req))
      BY <2>1, <2>3, <3>0 DEF OnlyIssued
    <3>2. RequestIssued(handler[g].req)' = (applied'[handler[g].req] + orphans'[handler[g].req] > 0)
      BY <1>5 DEF RequestIssued
    <3>3. applied'[handler[g].req] + orphans'[handler[g].req] > 0
      <4>1. \A r \in Requests : RequestIssued(r) \/ r = handler[h].req => RequestIssued(r)'
        BY <1>2
      <4> QED
        BY <3>1, <4>1 DEF RequestIssued
    <3> QED
      BY <3>2, <3>3
  <2>4. \A a \in acks' : Identity[a.req] \notin forgotten' => RequestIssued(a.req)'
    BY <1>2, <2>2 DEF OnlyIssued
  <2> QED
    BY <1>3, <2>3, <2>4 DEF OnlyIssued
<1>7. RecordedRequest'
  <2>1. At(h, {"list", "call"})' => FALSE
    BY DEF At
  <2> QED
    BY <1>2, <1>4, <1>5, <2>1 DEF RecordedRequest, Op, Remembered
<1> QED
  BY <1>6, <1>7

(* A failing read of the file forgets what was issued, and leaves nobody   *)
(* past begin.                                                             *)
LEMMA LoadFailsRecord ==
    ASSUME TypeInv, IssueInv, RecordInv, NEW h \in Handlers, LoadFails(h)
    PROVE  RecordInv'
<1> USE DEF RecordInv
<1>1. /\ ~loaded /\ forgotten' = forgotten \cup {o \in Ops : Issued(o)}
      /\ UNCHANGED <<ledger, lock, disk, applied, orphans, acks>>
      /\ \A g \in Handlers \ {h} : handler'[g] = handler[g]
      /\ handler'[h] = Idle
  BY Moves DEF LoadFails, worldVars, queueVars
<1>2. \A r : RequestIssued(r)' = RequestIssued(r)
  BY <1>1 DEF RequestIssued
<1>3. \A o : Issued(o)' = Issued(o)
  BY <1>1 DEF Issued
<1>4. \A g \in Handlers : ~Holds(g)' /\ ~At(g, IssuedStages)' /\ ~At(g, {"list", "call"})'
  BY <1>1, ConstantsAssumption
     DEF IssueInv, UnloadedIsEmpty, Holds, Owner, At, OwnerStages, FreshStages, IssuedStages,
         DoneStages, Free, Idle
<1>5. \A r \in Requests : RequestIssued(r) => Identity[r] \in forgotten'
  BY <1>1, ConstantsAssumption DEF Issued, RequestIssued
<1>6. OnlyIssued'
  BY <1>1, <1>2, <1>3, <1>4 DEF OnlyIssued
<1>7. RecordedRequest'
  BY <1>2, <1>4, <1>5 DEF RecordedRequest
<1> QED
  BY <1>6, <1>7

(* When the map or the file that a request finds says more than pending of *)
(* a remembered operation, what it names was issued.                       *)
LEMMA FoundIsIssued ==
    ASSUME TypeInv, RecordInv, NEW h \in Handlers, Remembered(h), handler[h].pc # "idle",
           Current[Op(h)].state \in {"accepted", "uncertain"},
           Current[Op(h)].req = handler[h].req
    PROVE  RequestIssued(handler[h].req)
<1>1. Op(h) \in Ops \ forgotten
  BY OpType DEF Remembered
<1>2. Issued(Op(h))
  BY <1>1 DEF RecordInv, OnlyIssued, Current
<1>3. PICK r \in Requests : Identity[r] = Op(h) /\ RequestIssued(r)
  BY <1>2 DEF Issued, RequestIssued
<1>4. Current[Op(h)].req = r
  BY <1>1, <1>3 DEF RecordInv, RecordedRequest, Current
<1> QED
  BY <1>3, <1>4

(* The record does not look at the world beyond what is issued. *)
LEMMA SameRecord ==
    ASSUME TypeInv, RecordInv, UNCHANGED <<ledgerVars, handler, acks>>,
           \/ UNCHANGED <<applied, orphans>>
           \/ \A r \in Requests : applied'[r] + orphans'[r] = applied[r] + orphans[r]
    PROVE  RecordInv'
<1> USE DEF RecordInv, ledgerVars
<1>1. /\ \A r \in Requests : RequestIssued(r)' = RequestIssued(r)
      /\ \A o : Issued(o)' = Issued(o)
  BY DEF RequestIssued, Issued
<1>2. \A g \in Handlers : /\ Op(g)' = Op(g) /\ (\A S : At(g, S)' = At(g, S))
                          /\ Holds(g)' = Holds(g) /\ Remembered(g)' = Remembered(g)
                          /\ At(g, IssuedStages) => handler[g].req \in Requests
  BY DEF Op, At, Holds, Owner, Remembered, TypeInv, Busy, IssuedStages, DoneStages
<1>3. \A a \in acks : a.req \in Requests
  BY DEF TypeInv, TypeOK, Acknowledgement
<1>4. \A g \in Handlers : At(g, IssuedStages) => RequestIssued(handler[g].req)' = RequestIssued(handler[g].req)
  BY <1>2 DEF RequestIssued
<1>5. OnlyIssued'
  BY <1>1, <1>2, <1>3, <1>4 DEF OnlyIssued
<1>6. RecordedRequest'
  BY <1>1, <1>2 DEF RecordedRequest
<1> QED
  BY <1>5, <1>6

(* Every step of a handler keeps the record. *)
LEMMA StepRecord ==
    ASSUME TypeInv, TypeInv', IssueInv, IssueInv', WorkInv, RecordInv, NEW h \in Handlers, Step(h)
    PROVE  RecordInv'
<1>a. /\ handler \in [Handlers -> HandlerState]
      /\ UNCHANGED <<applied, orphans>> => \A r \in Requests : RequestIssued(r)' = RequestIssued(r)
  BY DEF TypeInv, TypeOK, RequestIssued
<1>b. /\ handler'[h].pc = "idle" => ~Holds(h)' /\ ~At(h, {"list", "call"})' /\ ~At(h, IssuedStages)'
      /\ handler'[h].pc = "failUncertain" => ~At(h, {"list", "call"})'
  BY DEF Holds, Owner, At, OwnerStages, FreshStages, IssuedStages, DoneStages
<1>c. Idle.pc = "idle"
  BY DEF Idle
<1>d. At(h, IssuedStages) /\ Remembered(h) => RequestIssued(handler[h].req)
  BY DEF RecordInv, OnlyIssued
<1>e. At(h, OwnerStages \ {"begin", "failRejected"}) => Holds(h) /\ loaded
  BY HolderHasLoaded DEF Holds, Owner, At
<1>f. AcceptThrows(h) /\ At(h, AcceptStages) =>
         /\ \A g \in Handlers \ {h} : handler'[g] = handler[g]
         /\ Holds(h)' => Holds(h) /\ handler'[h].req = handler[h].req
         /\ ~At(h, {"list", "call"})'
         /\ At(h, IssuedStages)' /\ Remembered(h)' /\ forgotten' = forgotten =>
               RequestIssued(handler'[h].req)
         /\ \/ acks' = acks
            \/ \E t : /\ acks' = acks \cup {[req |-> handler[h].req, target |-> t]}
                      /\ Remembered(h) => RequestIssued(handler[h].req)
  <2> SUFFICES ASSUME AcceptThrows(h), At(h, AcceptStages)
               PROVE  /\ \A g \in Handlers \ {h} : handler'[g] = handler[g]
                      /\ Holds(h)' => Holds(h) /\ handler'[h].req = handler[h].req
                      /\ ~At(h, {"list", "call"})'
                      /\ At(h, IssuedStages)' /\ Remembered(h)' /\ forgotten' = forgotten =>
                            RequestIssued(handler'[h].req)
                      /\ \/ acks' = acks
                         \/ \E t : /\ acks' = acks \cup {[req |-> handler[h].req, target |-> t]}
                                   /\ Remembered(h) => RequestIssued(handler[h].req)
    OBVIOUS
  <2>1. At(h, {"recheckpoint", "accept", "checkpoint"}) => At(h, IssuedStages) /\ Holds(h)
    BY <1>e DEF At, IssuedStages, DoneStages, OwnerStages
  <2>2. CASE handler'[h] = Idle
    BY <1>b, <1>c, <1>d, <2>1, <2>2, ThrowMoves DEF WorkInv, At
  <2>3. CASE handler'[h].pc = "failUncertain" /\ At(h, {"checkpoint", "accept"})
             /\ handler'[h].req = handler[h].req /\ acks' = acks
    <3>1. At(h, IssuedStages) /\ Holds(h)
      BY <2>1, <2>3 DEF At
    <3>2. forgotten' = forgotten => Remembered(h)' = Remembered(h)
      BY <2>3 DEF Remembered, Op
    <3> QED
      BY <1>b, <1>d, <2>3, <3>1, <3>2, ThrowMoves DEF WorkInv
  <2> QED
    BY <2>2, <2>3, ThrowMoves DEF WorkInv
<1>1. CASE BeginNew(h)
  <2> DEFINE entry == [NoEntry EXCEPT !.state = "pending", !.req = handler[h].req]
  <2>1. /\ At(h, {"begin"}) /\ Free /\ Current[Op(h)].state = "absent"
        /\ Enter(h, [Current EXCEPT ![Op(h)] = entry], Op(h)) /\ UNCHANGED <<handler, acks>>
    BY <1>1 DEF BeginNew
  <2>2. Op(h) \in Ops /\ handler[h].req \in Requests /\ handler[h].pc # "idle"
    BY <2>1, OpType DEF At
  <2>3. entry \in Entry /\ entry.state = "pending" /\ entry.req = handler[h].req
    BY <2>2, NoEntryType DEF Entry, EntryStates, NoEntry
  <2> HIDE DEF entry
  <2>4. Remembered(h) => ~Issued(Op(h))
    BY <2>1, <2>2, CurrentHolds DEF Remembered
  <2>5. \A g \in Handlers : Holds(g)' => g = h \/ (Holds(g) /\ (Remembered(g) => Op(g) # Op(h)))
    <3> SUFFICES ASSUME NEW g \in Handlers \ {h}, Holds(g)'
                 PROVE  Holds(g) /\ (Remembered(g) => Op(g) # Op(h))
      OBVIOUS
    <3>1. lock' = h /\ lock = NoHandler /\ handler' = handler
      BY <2>1 DEF Enter, Free
    <3>2. Holds(g)
      BY <3>1, ConstantsAssumption DEF Holds, Owner, At
    <3> QED
      BY <2>1, <3>2, CurrentHolds DEF Holds
  <2> QED
    BY <2>1, <2>2, <2>3, <2>4, <2>5, EnterRecord DEF Remembered
<1>2. CASE BeginConflict(h)
  <2>1. handler'[h] = Idle /\ acks' = acks /\ \A g \in Handlers \ {h} : handler'[g] = handler[g]
    BY <1>2, Moves DEF BeginConflict
  <2> QED
    BY <1>2, <1>a, <1>b, <1>c, <2>1, OutsideRecord DEF BeginConflict, worldVars, queueVars
<1>3. CASE BeginDuplicate(h)
  <2> DEFINE entry == Current[Op(h)]
  <2>1. /\ At(h, {"begin"}) /\ Free /\ entry.req = handler[h].req /\ ledger' = Current
        /\ loaded' = TRUE /\ UNCHANGED <<lock, disk, forgotten, applied, orphans>>
        /\ handler[h].pc # "idle"
    BY <1>3 DEF BeginDuplicate, worldVars, queueVars, At
  <2>2. CASE /\ entry.state = "uncertain" /\ UNCHANGED acks
             /\ handler' = [handler EXCEPT ![h].pc = "reconcile", ![h].before = entry.before]
    <3>1. /\ handler'[h].pc = "reconcile" /\ handler'[h].req = handler[h].req
          /\ \A g \in Handlers \ {h} : handler'[g] = handler[g]
      BY <1>a, <2>2 DEF HandlerState
    <3>2. ~Holds(h)' /\ ~At(h, {"list", "call"})' /\ Remembered(h)' = Remembered(h)
      BY <2>1, <3>1 DEF Holds, Owner, At, OwnerStages, FreshStages, Remembered, Op
    <3>3. Remembered(h) => RequestIssued(handler[h].req)
      BY <2>1, <2>2, FoundIsIssued
    <3> HIDE DEF entry
    <3> QED
      BY <1>a, <2>1, <2>2, <3>1, <3>2, <3>3, OutsideRecord
  <2>3. CASE entry.state = "accepted" /\ Acknowledge(h, entry.target)
    <3>1. Remembered(h) => RequestIssued(handler[h].req)
      BY <2>1, <2>3, FoundIsIssued
    <3>2. /\ handler'[h] = Idle /\ \A g \in Handlers \ {h} : handler'[g] = handler[g]
          /\ acks' = acks \cup {[req |-> handler[h].req, target |-> entry.target]}
      BY <2>3, Moves
    <3> HIDE DEF entry
    <3> QED
      BY <1>a, <1>b, <1>c, <2>1, <3>1, <3>2, OutsideRecord
  <2>4. CASE Answer(h)
    <3>1. handler'[h] = Idle /\ acks' = acks /\ \A g \in Handlers \ {h} : handler'[g] = handler[g]
      BY <2>4, Moves
    <3> HIDE DEF entry
    <3> QED
      BY <1>a, <1>b, <1>c, <2>1, <3>1, OutsideRecord
  <2> QED
    BY <1>3, <2>2, <2>3, <2>4 DEF BeginDuplicate
<1>4. CASE LoadFails(h)
  BY <1>4, LoadFailsRecord
<1>5. CASE BeginSaved(h)
  <2>1. /\ At(h, {"begin"}) /\ Persist(h) /\ acks' = acks
        /\ handler'[h].pc \in {"list", "call"} /\ handler'[h].req = handler[h].req
        /\ \A g \in Handlers \ {h} : handler'[g] = handler[g]
    BY <1>5, Moves DEF BeginSaved
  <2>2. Holds(h) /\ loaded
    BY <2>1, HolderHasLoaded DEF Persist, Holds, Owner, At, OwnerStages, FreshStages
  <2>3. ~At(h, IssuedStages)'
    BY <2>1 DEF At, IssuedStages, DoneStages
  <2> QED
    BY <1>a, <2>1, <2>2, <2>3, OutsideRecord DEF Persist, worldVars, queueVars
<1>6. CASE BeginUnsaved(h)
  <2>1. handler'[h] = Idle /\ acks' = acks /\ \A g \in Handlers \ {h} : handler'[g] = handler[g]
    BY <1>6, Moves DEF BeginUnsaved
  <2> QED
    BY <1>6, <1>a, <1>b, <1>c, <2>1, OutsideRecord DEF BeginUnsaved, PersistFails, worldVars, queueVars
<1>7. CASE ListTargets(h)
  <2>1. /\ At(h, {"list"}) /\ handler'[h].pc = "call" /\ handler'[h].req = handler[h].req
        /\ \A g \in Handlers \ {h} : handler'[g] = handler[g]
    BY <1>7, <1>a DEF ListTargets, HandlerState
  <2>2. Holds(h) /\ At(h, {"list", "call"}) /\ ~At(h, IssuedStages)'
    BY <1>e, <2>1 DEF At, OwnerStages, FreshStages, IssuedStages, DoneStages
  <2> QED
    BY <1>7, <1>a, <2>1, <2>2, OutsideRecord DEF ListTargets, ledgerVars, worldVars, queueVars
<1>8. CASE Refused(h)
  <2>1. /\ At(h, {"list", "call"})
        /\ handler'[h].pc = "failRejected" /\ handler'[h].req = handler[h].req
        /\ \A g \in Handlers \ {h} : handler'[g] = handler[g]
    BY <1>8, Moves DEF Refused
  <2>2. Holds(h) /\ ~At(h, {"list", "call"})' /\ ~At(h, IssuedStages)'
    BY <1>e, <2>1 DEF At, OwnerStages, FreshStages, IssuedStages, DoneStages
  <2> QED
    BY <1>8, <1>a, <2>1, <2>2, OutsideRecord DEF Refused, ledgerVars, worldVars, queueVars
<1>9. CASE CallLost(h)
  <2>1. /\ handler'[h].pc = "failUncertain" /\ handler'[h].req = handler[h].req
        /\ \A g \in Handlers \ {h} : handler'[g] = handler[g]
    BY <1>9, Moves DEF CallLost
  <2> QED
    BY <1>9, <2>1, IssueRecord DEF CallLost, At
<1>10. ASSUME NEW session \in Sessions \cup {NoSession}, CallSucceeds(h, session)
       PROVE  RecordInv'
  <2>1. /\ handler'[h].pc \in {"checkpoint", "accept"} /\ handler'[h].req = handler[h].req
        /\ \A g \in Handlers \ {h} : handler'[g] = handler[g]
    BY <1>10, <1>a DEF CallSucceeds, HandlerState
  <2> QED
    BY <1>10, <2>1, IssueRecord DEF CallSucceeds, Apply, TakeOver, At
<1>11. CASE EnterAccept(h)
  <2> DEFINE old == Current[Op(h)]
             entry == [old EXCEPT !.state = "accepted", !.target = handler[h].target, !.before = {}]
  <2>1. /\ At(h, AcceptStages) /\ Free /\ old.state # "absent"
        /\ Enter(h, [Current EXCEPT ![Op(h)] = entry], Op(h)) /\ UNCHANGED <<handler, acks>>
    BY <1>11 DEF EnterAccept
  <2>2. Op(h) \in Ops /\ old \in Entry /\ handler[h].pc # "idle" /\ handler[h].req \in Requests
    BY <2>1, OpType, CurrentType DEF At, AcceptStages, TypeInv
  <2>3. entry \in Entry /\ entry.state = "accepted" /\ entry.req = old.req
    BY <1>a, <2>2 DEF Entry, EntryStates, HandlerState
  <2> HIDE DEF entry
  <2>4. Remembered(h) => Issued(Op(h))
    BY <1>d, <2>1, <2>2 DEF At, AcceptStages, IssuedStages, DoneStages, Issued, RequestIssued, Op
  <2>5. \A g \in Handlers : Holds(g)' => Holds(g) /\ Current = ledger
    <3>1. lock' = h /\ lock = NoHandler /\ handler' = handler
      BY <2>1 DEF Enter, Free
    <3>2. \A g \in Handlers : Holds(g)' => Holds(g)
      BY <2>1, <3>1, ConstantsAssumption DEF Holds, Owner, At, AcceptStages
    <3> QED
      BY <3>2, HolderHasLoaded DEF Holds
  <2>6. \A g \in Handlers : Holds(g)' /\ Op(g) = Op(h) /\ Remembered(h) => entry.req = handler[g].req
    BY <2>3, <2>5 DEF RecordInv, RecordedRequest, Remembered
  <2> QED
    BY <2>1, <2>2, <2>3, <2>4, <2>5, <2>6, EnterRecord
<1>12. CASE CheckpointSaved(h)
  <2>1. /\ At(h, {"checkpoint", "recheckpoint"}) /\ Persist(h) /\ acks' = acks
        /\ handler'[h].pc \in {"recheckpoint", "accept"} /\ handler'[h].req = handler[h].req
        /\ \A g \in Handlers \ {h} : handler'[g] = handler[g]
    BY <1>12, Moves DEF CheckpointSaved
  <2>2. Holds(h) /\ loaded /\ At(h, IssuedStages) /\ ~At(h, {"list", "call"})'
    BY <1>e, <2>1 DEF At, OwnerStages, IssuedStages, DoneStages
  <2>3. forgotten' = forgotten /\ Remembered(h)' = Remembered(h)
    BY <2>1 DEF Persist, Remembered, Op
  <2> QED
    BY <1>a, <1>d, <2>1, <2>2, <2>3, OutsideRecord DEF Persist, worldVars, queueVars
<1>13. CASE AcceptSaved(h)
  <2>1. /\ At(h, IssuedStages) /\ Persist(h) /\ loaded
        /\ acks' = acks \cup {[req |-> handler[h].req, target |-> handler[h].target]}
        /\ handler'[h] = Idle /\ \A g \in Handlers \ {h} : handler'[g] = handler[g]
    BY <1>13, Moves, HolderHasLoaded
       DEF AcceptSaved, At, IssuedStages, DoneStages, Owner, OwnerStages
  <2> QED
    BY <1>a, <1>b, <1>c, <1>d, <2>1, OutsideRecord DEF Persist, worldVars, queueVars
<1>14. CASE AcceptUnsaved(h)
  BY <1>14, <1>a, <1>f, OutsideRecord DEF AcceptUnsaved, PersistFails, worldVars, queueVars
<1>15. CASE AcceptMissing(h)
  BY <1>15, <1>a, <1>f, OutsideRecord DEF AcceptMissing, ledgerVars, worldVars, queueVars
<1>16. CASE EnterFail(h)
  <2> DEFINE old == Current[Op(h)]
             uncertain == IF Op(h) \in Handoffs
                          THEN [old EXCEPT !.state = "uncertain", !.target = NoSession,
                                           !.before = handler[h].before]
                          ELSE [old EXCEPT !.state = "uncertain"]
             entry == IF At(h, {"failUncertain"}) THEN uncertain ELSE NoEntry
  <2>1. /\ At(h, FailStages) /\ Free /\ old.state # "absent"
        /\ Enter(h, [Current EXCEPT ![Op(h)] = entry], Op(h)) /\ UNCHANGED <<handler, acks>>
    BY <1>16 DEF EnterFail
  <2>2. /\ Op(h) \in Ops /\ old \in Entry /\ handler[h].before \in SUBSET Sessions
        /\ handler[h].pc # "idle" /\ handler[h].req \in Requests
    BY <1>a, <2>1, OpType, CurrentType DEF At, FailStages, TypeInv, HandlerState
  <2>3. /\ entry \in Entry
        /\ At(h, {"failUncertain"}) => entry.state = "uncertain" /\ entry.req = old.req
        /\ ~At(h, {"failUncertain"}) => entry.state = "absent"
    BY <2>2, NoEntryType DEF Entry, EntryStates, NoEntry
  <2> HIDE DEF entry
  <2>4. lock' = h /\ lock = NoHandler /\ handler' = handler
    BY <2>1 DEF Enter, Free
  <2>5. \A g \in Handlers : Holds(g)' => Holds(g) /\ Current = ledger
    <3>2. \A g \in Handlers : Holds(g)' => Holds(g)
      BY <2>1, <2>4, ConstantsAssumption DEF Holds, Owner, At, FailStages
    <3> QED
      BY <3>2, HolderHasLoaded DEF Holds
  <2>6. CASE At(h, {"failUncertain"})
    <3>1. Remembered(h) => Issued(Op(h))
      BY <1>d, <2>2, <2>6 DEF At, IssuedStages, Issued, RequestIssued, Op
    <3>2. \A g \in Handlers : Holds(g)' /\ Op(g) = Op(h) /\ Remembered(h) => entry.req = handler[g].req
      BY <2>3, <2>5, <2>6 DEF RecordInv, RecordedRequest, Remembered
    <3> QED
      BY <2>1, <2>2, <2>3, <2>5, <2>6, <3>1, <3>2, EnterRecord
  <2>7. CASE ~At(h, {"failUncertain"})
    <3>1. At(h, {"failRejected"}) /\ Owner(h) /\ ~Holds(h)'
      BY <2>1, <2>4, <2>7 DEF At, FailStages, Owner, OwnerStages, FreshStages, Holds
    <3>2. Remembered(h) => ~Issued(Op(h))
      BY <3>1 DEF IssueInv, FreshOwner, At, FreshStages
    <3>3. \A g \in Handlers : ~(Holds(g)' /\ Op(g) = Op(h) /\ Remembered(h))
      BY <2>5, <3>1 DEF IssueInv, OneOwner, Holds, Remembered
    <3> QED
      BY <2>1, <2>2, <2>3, <2>5, <2>7, <3>2, <3>3, EnterRecord
  <2> QED
    BY <2>6, <2>7
<1>17. CASE FailSaved(h)
  <2>1. /\ At(h, FailStages) /\ Persist(h) /\ loaded
        /\ handler'[h] = Idle /\ acks' = acks /\ \A g \in Handlers \ {h} : handler'[g] = handler[g]
    BY <1>17, Moves, HolderHasLoaded DEF FailSaved, At, FailStages, Owner, OwnerStages, FreshStages
  <2> QED
    BY <1>a, <1>b, <1>c, <2>1, OutsideRecord DEF Persist, worldVars, queueVars
<1>18. CASE FailUnsaved(h)
  <2>1. handler'[h] = Idle /\ acks' = acks /\ \A g \in Handlers \ {h} : handler'[g] = handler[g]
    BY <1>18, Moves DEF FailUnsaved
  <2> QED
    BY <1>18, <1>a, <1>b, <1>c, <2>1, OutsideRecord DEF FailUnsaved, PersistFails, worldVars, queueVars
<1>19. CASE FailMissing(h)
  <2>1. handler'[h] = Idle /\ acks' = acks /\ \A g \in Handlers \ {h} : handler'[g] = handler[g]
    BY <1>19, Moves DEF FailMissing
  <2> QED
    BY <1>19, <1>a, <1>b, <1>c, <2>1, OutsideRecord DEF FailMissing, ledgerVars, worldVars, queueVars
<1>20. ASSUME NEW session \in Sessions, Reconcile(h, session)
       PROVE  RecordInv'
  <2>1. /\ At(h, {"reconcile"}) /\ handler'[h].pc = "adopt" /\ handler'[h].req = handler[h].req
        /\ \A g \in Handlers \ {h} : handler'[g] = handler[g]
    BY <1>20, <1>a DEF Reconcile, HandlerState
  <2>2. ~Holds(h)' /\ ~At(h, {"list", "call"})' /\ At(h, IssuedStages)
    BY <2>1 DEF At, Holds, Owner, OwnerStages, FreshStages, IssuedStages
  <2>3. forgotten' = forgotten /\ Remembered(h)' = Remembered(h)
    BY <1>20, <2>1 DEF Reconcile, ledgerVars, Remembered, Op
  <2> QED
    BY <1>20, <1>a, <1>d, <2>1, <2>2, <2>3, OutsideRecord DEF Reconcile, ledgerVars, worldVars, queueVars
<1>21. CASE ReconcileNothing(h)
  <2>1. handler'[h] = Idle /\ acks' = acks /\ \A g \in Handlers \ {h} : handler'[g] = handler[g]
    BY <1>21, Moves DEF ReconcileNothing
  <2> QED
    BY <1>21, <1>a, <1>b, <1>c, <2>1, OutsideRecord DEF ReconcileNothing, ledgerVars, worldVars, queueVars
<1> QED
  BY <1>1, <1>2, <1>3, <1>4, <1>5, <1>6, <1>7, <1>8, <1>9, <1>10, <1>11, <1>12, <1>13,
     <1>14, <1>15, <1>16, <1>17, <1>18, <1>19, <1>20, <1>21 DEF Step

(* So does every step of the environment. *)
LEMMA EnvironmentRecord ==
    ASSUME TypeInv, TypeInv', IssueInv, IssueInv', RecordInv, Environment
    PROVE  RecordInv'
<1>a. /\ handler \in [Handlers -> HandlerState]
      /\ applied \in [Requests -> Nat] /\ orphans \in [Requests -> Nat]
      /\ \A a \in acks : a.req \in Requests
  BY DEF TypeInv, TypeOK, Acknowledgement
<1>1. ASSUME NEW h \in Handlers, NEW r \in Requests, Receive(h, r)
      PROVE  RecordInv'
  <2>1. /\ At(h, {"idle"}) /\ handler'[h].pc = "begin"
        /\ \A g \in Handlers \ {h} : handler'[g] = handler[g]
        /\ UNCHANGED <<ledgerVars, worldVars, acks>>
    BY <1>1, <1>a DEF Receive, Idle, HandlerState
  <2>2. ~Holds(h)' /\ ~At(h, IssuedStages)' /\ ~At(h, {"list", "call"})'
    BY <2>1 DEF Holds, Owner, At, IssuedStages, DoneStages, ledgerVars, IssueInv, LockHolder,
                AcceptStages, FailStages
  <2>3. \A q \in Requests : RequestIssued(q)' = RequestIssued(q)
    BY <2>1 DEF RequestIssued, worldVars, queueVars
  <2> QED
    BY <2>1, <2>2, <2>3, OutsideRecord DEF ledgerVars
<1>2. ASSUME NEW r \in Requests, NEW session \in Sessions \cup {NoSession},
             LateDelivery(r, session)
      PROVE  RecordInv'
  <2>1. /\ UNCHANGED <<ledgerVars, handler, acks>> /\ orphans[r] > 0
        /\ applied' = [applied EXCEPT ![r] = @ + 1] /\ orphans' = [orphans EXCEPT ![r] = @ - 1]
    <3>1. orphans[r] \in Nat /\ queued[r] \in Nat /\ dropped[r] \in Nat
      BY DEF TypeInv, TypeOK
    <3> QED
      BY <1>2, <3>1 DEF LateDelivery, Apply
  <2>2. \A q \in Requests : applied'[q] + orphans'[q] = applied[q] + orphans[q]
    BY <1>a, <2>1
  <2> QED
    BY <1>a, <2>1, <2>2, SameRecord
<1>3. ASSUME NEW session \in Sessions, SessionElsewhere(session)
      PROVE  RecordInv'
  BY <1>3, SameRecord DEF SessionElsewhere
<1>4. CASE Crash
  <2>1. /\ ledger' = [o \in Ops |-> NoEntry] /\ handler' = [h \in Handlers |-> Idle]
        /\ UNCHANGED <<disk, applied, orphans, forgotten, acks>> /\ ~loaded'
    BY <1>4 DEF Crash, worldVars, queueVars
  <2>2. \A h \in Handlers : ~Holds(h)' /\ ~At(h, {"list", "call"})' /\ ~At(h, IssuedStages)'
    BY <2>1 DEF Holds, Owner, At, OwnerStages, FreshStages, IssuedStages, DoneStages, Idle
  <2>3. /\ \A r : RequestIssued(r)' = RequestIssued(r)
        /\ \A o : Issued(o)' = Issued(o)
    BY <2>1 DEF RequestIssued, Issued
  <2>4. OnlyIssued'
    BY <2>1, <2>2, <2>3 DEF RecordInv, OnlyIssued, NoEntry
  <2>5. RecordedRequest'
    BY <2>1, <2>2, <2>3 DEF RecordInv, RecordedRequest
  <2> QED
    BY <2>4, <2>5 DEF RecordInv
<1>5. ASSUME NEW r \in Requests, LeaveQueue(r)
      PROVE  RecordInv'
  BY <1>5, SameRecord DEF LeaveQueue
<1> QED
  BY <1>1, <1>2, <1>3, <1>4, <1>5 DEF Environment

(* Types, IssueInv, WorkInv and RecordInv hold in every reachable state. *)
THEOREM RecordInvariant == Spec => [](TypeInv /\ IssueInv /\ WorkInv /\ RecordInv)
<1>1. Init => RecordInv
  <2> SUFFICES ASSUME Init PROVE RecordInv
    OBVIOUS
  <2>1. \A h \in Handlers : ~Holds(h) /\ ~At(h, {"list", "call"}) /\ ~At(h, IssuedStages)
    BY DEF Init, Holds, Owner, At, OwnerStages, FreshStages, IssuedStages, DoneStages, Idle
  <2> QED
    BY <2>1 DEF Init, RecordInv, OnlyIssued, RecordedRequest, RequestIssued, NoEntry
<1>2. /\ TypeInv /\ IssueInv /\ WorkInv /\ RecordInv /\ [Next]_vars
      /\ TypeInv' /\ IssueInv'
      => RecordInv'
  <2> SUFFICES ASSUME TypeInv, IssueInv, WorkInv, RecordInv, [Next]_vars, TypeInv', IssueInv'
               PROVE  RecordInv'
    OBVIOUS
  <2>1. CASE UNCHANGED vars
    BY <2>1, SameRecord DEF vars, worldVars, queueVars
  <2> QED
    BY <2>1, StepRecord, EnvironmentRecord DEF Next
<1> QED
  BY <1>1, <1>2, WorkInvariant, PTL DEF Spec

-----------------------------------------------------------------------------
(***************************************************************************)
(* One target.  A reconciliation adopts the only Session its baseline does *)
(* not list, and every target named before is another such Session, so it  *)
(* is the same.                                                            *)
(***************************************************************************)
NameStages == DoneStages \cup {"adopt"}
BaseStages == DoneStages \cup {"failUncertain", "reconcile"}

(* The targets that answers, entries and handlers name for an operation.   *)
Named(o, t) ==
    \/ \E a \in acks : Identity[a.req] = o /\ a.target = t
    \/ ledger[o].state = "accepted" /\ ledger[o].target = t
    \/ disk[o].state = "accepted" /\ disk[o].target = t
    \/ \E h \in Handlers : At(h, NameStages) /\ Op(h) = o /\ handler[h].target = t

(* The Sessions that were there before it: what a reconciliation leaves out. *)
Baseline(o, B) ==
    \/ ledger[o].state = "uncertain" /\ ledger[o].before = B
    \/ disk[o].state = "uncertain" /\ disk[o].before = B
    \/ \E h \in Handlers : At(h, BaseStages) /\ Op(h) = o /\ handler[h].before = B

Targets == Sessions \cup {NoSession}

OneTarget ==
    \A o \in Ops \ forgotten : \A s, t \in Targets : Named(o, s) /\ Named(o, t) => s = t

OneBaseline ==
    \A o \in Handoffs \ forgotten : \A A, B \in SUBSET Sessions :
        Baseline(o, A) /\ Baseline(o, B) => A = B

TargetIsNew ==
    \A o \in Handoffs \ forgotten : \A t \in Targets : Named(o, t) =>
        /\ t \in Existing
        /\ \A B \in SUBSET Sessions : Baseline(o, B) => t \notin B

BaselineExisted ==
    \A h \in Handlers :
        At(h, {"call"}) /\ Op(h) \in Handoffs => handler[h].before \subseteq Existing

NameInv ==
    /\ OneTarget
    /\ OneBaseline
    /\ TargetIsNew
    /\ BaselineExisted

(* What is not issued has no target and no baseline. *)
LEMMA NothingNamed ==
    ASSUME TypeInv, RecordInv, NEW o \in Ops \ forgotten, ~Issued(o)
    PROVE  /\ \A t : ~Named(o, t)
           /\ \A B : ~Baseline(o, B)
<1> USE DEF RecordInv, OnlyIssued
<1>1. \A r \in Requests : Identity[r] = o => ~RequestIssued(r)
  BY DEF Issued, RequestIssued
<1>2. \A a \in acks : Identity[a.req] # o
  BY <1>1 DEF TypeInv, TypeOK, Acknowledgement
<1>3. \A h \in Handlers : At(h, IssuedStages) => Op(h) # o
  BY <1>1 DEF TypeInv, Busy, At, IssuedStages, DoneStages, Op, Remembered
<1>4. ledger[o].state \notin {"accepted", "uncertain"} /\ disk[o].state \notin {"accepted", "uncertain"}
  OBVIOUS
<1> QED
  BY <1>2, <1>3, <1>4 DEF Named, Baseline, At, NameStages, BaseStages, IssuedStages

(* A step that names at most one more target and one more baseline, both   *)
(* of one operation, and names no other of that operation.                 *)
NamesOnly(p, s, C) ==
    /\ forgotten \subseteq forgotten' /\ Existing \subseteq Existing'
    /\ \A o \in Ops \ forgotten' : o # p => \A t : Named(o, t)' => Named(o, t)
    /\ \A o \in Handoffs \ forgotten' : o # p => \A B : Baseline(o, B)' => Baseline(o, B)
    /\ p \notin forgotten' =>
          /\ \A t : Named(p, t)' => t = s /\ (p \in Handoffs => s \in Existing' /\ s \notin C)
          /\ p \in Handoffs => \A B : Baseline(p, B)' => B = C

(* It keeps NameInv. *)
LEMMA NamesStep ==
    ASSUME NameInv, NEW p, NEW s, NEW C, NamesOnly(p, s, C), BaselineExisted'
    PROVE  NameInv'
<1> USE DEF NameInv, NamesOnly
<1>1. OneTarget'
  BY DEF OneTarget, Targets
<1>2. OneBaseline'
  BY DEF OneBaseline
<1>3. TargetIsNew'
  BY ConstantsAssumption DEF TargetIsNew, Targets
<1> QED
  BY <1>1, <1>2, <1>3

(* An entry that repeats what is already named. *)
EntryNamed(o, entry) ==
    /\ entry.state = "accepted" => Named(o, entry.target)
    /\ entry.state = "uncertain" /\ o \in Handoffs => Baseline(o, entry.before)

(* A step that only repeats targets and baselines keeps NameInv. *)
LEMMA NamesKept ==
    ASSUME TypeInv, NameInv, NEW h \in Handlers,
           forgotten \subseteq forgotten', Existing \subseteq Existing',
           \A g \in Handlers \ {h} : handler'[g] = handler[g],
           At(h, NameStages)' /\ Remembered(h)' => Named(Op(h)', handler'[h].target),
           At(h, BaseStages)' /\ Remembered(h)' => Baseline(Op(h)', handler'[h].before),
           At(h, {"call"})' /\ Op(h)' \in Handoffs => handler'[h].before \subseteq Existing',
           \A o \in Ops \ forgotten' :
              ledger'[o] = ledger[o] \/ ledger'[o] = Current[o] \/ EntryNamed(o, ledger'[o]),
           disk' = disk \/ disk' = ledger,
           \/ acks' = acks
           \/ \E t : /\ acks' = acks \cup {[req |-> handler[h].req, target |-> t]}
                     /\ Remembered(h) => Named(Op(h), t)
    PROVE  NameInv'
<1>1. \A g \in Handlers \ {h} : Op(g)' = Op(g) /\ (\A S : At(g, S)' = At(g, S))
  BY DEF Op, At
<1>2. ASSUME NEW o \in Ops \ forgotten', NEW t, Named(o, t)'
      PROVE  Named(o, t)
  <2>0. o \notin forgotten
    OBVIOUS
  <2>1. ASSUME NEW a \in acks', Identity[a.req] = o, a.target = t
        PROVE  Named(o, t)
    <3>1. CASE a \in acks
      BY <2>1, <3>1 DEF Named
    <3>2. CASE a \notin acks
      <4>1. PICK u : a = [req |-> handler[h].req, target |-> u] /\ (Remembered(h) => Named(Op(h), u))
        BY <2>1, <3>2
      <4> QED
        BY <2>0, <2>1, <4>1 DEF Op, Remembered
    <3> QED
      BY <3>1, <3>2
  <2>2. ASSUME (ledger[o].state = "accepted" /\ ledger[o].target = t)'
        PROVE  Named(o, t)
    BY <2>2 DEF Named, EntryNamed, Current
  <2>3. ASSUME (disk[o].state = "accepted" /\ disk[o].target = t)'
        PROVE  Named(o, t)
    BY <2>3 DEF Named
  <2>4. ASSUME NEW g \in Handlers, (At(g, NameStages) /\ Op(g) = o /\ handler[g].target = t)'
        PROVE  Named(o, t)
    <3>1. CASE g = h
      BY <2>4, <3>1 DEF Remembered
    <3>2. CASE g # h
      BY <1>1, <2>4, <3>2 DEF Named
    <3> QED
      BY <3>1, <3>2
  <2> QED
    BY <1>2, <2>1, <2>2, <2>3, <2>4 DEF Named
<1>3. ASSUME NEW o \in Handoffs \ forgotten', NEW B, Baseline(o, B)'
      PROVE  Baseline(o, B)
  <2>0. o \in Ops \ forgotten'
    BY ConstantsAssumption
  <2>1. ASSUME (ledger[o].state = "uncertain" /\ ledger[o].before = B)'
        PROVE  Baseline(o, B)
    BY <2>0, <2>1 DEF Baseline, EntryNamed, Current
  <2>2. ASSUME (disk[o].state = "uncertain" /\ disk[o].before = B)'
        PROVE  Baseline(o, B)
    BY <2>2 DEF Baseline
  <2>3. ASSUME NEW g \in Handlers, (At(g, BaseStages) /\ Op(g) = o /\ handler[g].before = B)'
        PROVE  Baseline(o, B)
    <3>1. CASE g = h
      BY <2>3, <3>1 DEF Remembered
    <3>2. CASE g # h
      BY <1>1, <2>3, <3>2 DEF Baseline
    <3> QED
      BY <3>1, <3>2
  <2> QED
    BY <1>3, <2>1, <2>2, <2>3 DEF Baseline
<1>4. BaselineExisted'
  BY <1>1 DEF NameInv, BaselineExisted
<1>5. OneTarget'
  BY <1>2 DEF NameInv, OneTarget
<1>6. OneBaseline'
  BY <1>3 DEF NameInv, OneBaseline
<1>7. TargetIsNew'
  BY <1>2, <1>3, ConstantsAssumption DEF NameInv, TargetIsNew
<1> QED
  BY <1>4, <1>5, <1>6, <1>7 DEF NameInv

(* So does a step of the world, in which Sessions only come to exist. *)
LEMMA NamesInWorld ==
    ASSUME NameInv, UNCHANGED <<ledgerVars, handler, acks>>, Existing \subseteq Existing'
    PROVE  NameInv'
<1> USE DEF ledgerVars
<1>1. /\ \A o : \A t : Named(o, t)' = Named(o, t)
      /\ \A o : \A B : Baseline(o, B)' = Baseline(o, B)
  BY DEF Named, Baseline, At, Op
<1>2. BaselineExisted'
  BY DEF NameInv, BaselineExisted, At, Op
<1>3. OneTarget' /\ OneBaseline'
  BY <1>1 DEF NameInv, OneTarget, OneBaseline
<1>4. TargetIsNew'
  BY <1>1 DEF NameInv, TargetIsNew
<1> QED
  BY <1>2, <1>3, <1>4 DEF NameInv

(* Sessions are never unmade. *)
LEMMA ApplyKeepsSessions ==
    ASSUME TypeInv, NEW r \in Requests, NEW session, Apply(r, session)
    PROVE  /\ Existing \subseteq Existing'
           /\ Identity[r] \in Handoffs => session \in Existing' \ Existing
BY ConstantsAssumption DEF Apply, Existing, TypeInv, TypeOK

(* When a handler makes its call, nothing was named for its operation. *)
CalledFirst(h) ==
    Remembered(h) => (\A t : ~Named(Op(h), t)) /\ (\A B : ~Baseline(Op(h), B))

LEMMA CallIsFirst ==
    ASSUME TypeInv, IssueInv, RecordInv, NEW h \in Handlers, At(h, {"call"})
    PROVE  CalledFirst(h)
<1>1. Owner(h) /\ At(h, FreshStages) /\ Op(h) \in Ops
  BY OpType DEF Owner, At, OwnerStages, FreshStages
<1>2. Remembered(h) => ~Issued(Op(h))
  BY <1>1 DEF IssueInv, FreshOwner
<1> QED
  BY <1>1, <1>2, NothingNamed DEF CalledFirst, Remembered

(* Every step of a handler keeps NameInv. *)
LEMMA StepNames ==
    ASSUME TypeInv, IssueInv, WorkInv, RecordInv, NameInv, NEW h \in Handlers, Step(h)
    PROVE  NameInv'
<1>a. /\ handler \in [Handlers -> HandlerState]
      /\ madeBy' = madeBy => Existing \subseteq Existing'
      /\ handler[h].before \in SUBSET Sessions /\ handler[h].target \in Targets
  BY DEF TypeInv, TypeOK, HandlerState, Existing, Targets
<1>b. handler'[h] = Idle => ~At(h, NameStages)' /\ ~At(h, BaseStages)' /\ ~At(h, {"call"})'
  BY DEF At, NameStages, BaseStages, DoneStages, Idle
<1>c. /\ At(h, NameStages) => Named(Op(h), handler[h].target)
      /\ At(h, BaseStages) => Baseline(Op(h), handler[h].before)
  BY DEF Named, Baseline
<1>d. AcceptThrows(h) /\ At(h, AcceptStages) =>
         /\ \A g \in Handlers \ {h} : handler'[g] = handler[g]
         /\ ~At(h, NameStages)' /\ ~At(h, {"call"})'
         /\ At(h, BaseStages)' => Baseline(Op(h)', handler'[h].before)
         /\ \/ acks' = acks
            \/ \E t : /\ acks' = acks \cup {[req |-> handler[h].req, target |-> t]}
                      /\ Remembered(h) => Named(Op(h), t)
  <2> SUFFICES ASSUME AcceptThrows(h), At(h, AcceptStages)
               PROVE  /\ \A g \in Handlers \ {h} : handler'[g] = handler[g]
                      /\ ~At(h, NameStages)' /\ ~At(h, {"call"})'
                      /\ At(h, BaseStages)' => Baseline(Op(h)', handler'[h].before)
                      /\ \/ acks' = acks
                         \/ \E t : /\ acks' = acks \cup {[req |-> handler[h].req, target |-> t]}
                                   /\ Remembered(h) => Named(Op(h), t)
    OBVIOUS
  <2>1. At(h, AcceptStages) => At(h, NameStages)
    BY DEF At, AcceptStages, NameStages, DoneStages
  <2>2. CASE handler'[h] = Idle
    BY <1>b, <1>c, <2>1, <2>2, ThrowMoves DEF WorkInv
  <2>3. CASE /\ handler'[h].pc = "failUncertain" /\ handler'[h].req = handler[h].req
             /\ handler'[h].before = handler[h].before
             /\ At(h, {"checkpoint", "accept"}) /\ acks' = acks
    <3>1. At(h, BaseStages) /\ Op(h)' = Op(h) /\ ~At(h, NameStages)' /\ ~At(h, {"call"})'
      BY <2>3 DEF At, BaseStages, NameStages, DoneStages, Op
    <3> QED
      BY <1>c, <2>3, <3>1, ThrowMoves DEF WorkInv
  <2> QED
    BY <2>2, <2>3, ThrowMoves DEF WorkInv
<1>e. ASSUME NEW entry \in Entry, Op(h) \in Ops,
             Enter(h, [Current EXCEPT ![Op(h)] = entry], Op(h)), UNCHANGED <<handler, acks>>,
             EntryNamed(Op(h), entry), BaselineExisted
      PROVE  NameInv'
  <2> DEFINE map == [Current EXCEPT ![Op(h)] = entry]
  <2>1. map \in [Ops -> Entry] /\ Enter(h, map, Op(h))
    BY <1>e, CurrentType DEF TypeInv
  <2>2. \A k \in Ops : map[k] = IF k = Op(h) THEN entry ELSE Current[k]
    BY CurrentType DEF TypeInv
  <2> HIDE DEF map
  <2>3. /\ forgotten \subseteq forgotten' /\ disk' = disk
        /\ \A k \in Ops \ forgotten' : ledger'[k] = map[k]
    BY <1>e, <2>1, EnterKeeps DEF TypeInv
  <2>4. Existing \subseteq Existing' /\ (Remembered(h)' => Remembered(h))
    BY <1>e, <2>1, <2>3 DEF Enter, worldVars, queueVars, Existing, Remembered, Op
  <2>5. \A o \in Ops \ forgotten' : ledger'[o] = Current[o] \/ EntryNamed(o, ledger'[o])
    BY <1>e, <2>2, <2>3
  <2>6. handler' = handler /\ Op(h)' = Op(h) /\ \A S : At(h, S)' = At(h, S)
    BY <1>e DEF At, Op
  <2>7. /\ At(h, NameStages)' => Named(Op(h)', handler'[h].target)
        /\ At(h, BaseStages)' => Baseline(Op(h)', handler'[h].before)
    BY <1>c, <2>6
  <2>8. At(h, {"call"})' /\ Op(h)' \in Handoffs => handler'[h].before \subseteq Existing'
    BY <1>e, <2>4, <2>6 DEF BaselineExisted
  <2> QED
    BY <1>e, <2>3, <2>4, <2>5, <2>6, <2>7, <2>8, NamesKept
<1>f. BaselineExisted
  BY DEF NameInv
<1>1. CASE BeginNew(h)
  <2> DEFINE entry == [NoEntry EXCEPT !.state = "pending", !.req = handler[h].req]
  <2>1. /\ Enter(h, [Current EXCEPT ![Op(h)] = entry], Op(h)) /\ UNCHANGED <<handler, acks>>
        /\ Op(h) \in Ops /\ handler[h].req \in Requests
    BY <1>1, OpType DEF BeginNew, At
  <2>2. entry \in Entry /\ EntryNamed(Op(h), entry)
    BY <2>1, NoEntryType DEF Entry, EntryStates, NoEntry, EntryNamed
  <2> HIDE DEF entry
  <2> QED
    BY <1>e, <1>f, <2>1, <2>2
<1>2. CASE BeginConflict(h)
  <2>1. handler'[h] = Idle /\ acks' = acks /\ \A g \in Handlers \ {h} : handler'[g] = handler[g]
    BY <1>2, Moves DEF BeginConflict
  <2> QED
    BY <1>2, <1>a, <1>b, <2>1, NamesKept DEF BeginConflict, worldVars, queueVars
<1>3. CASE BeginDuplicate(h)
  <2> DEFINE entry == Current[Op(h)]
  <2>1. /\ ledger' = Current /\ UNCHANGED <<disk, forgotten, madeBy>> /\ Op(h) \in Ops
    BY <1>3, OpType DEF BeginDuplicate, worldVars, queueVars, At
  <2>2. CASE /\ entry.state = "uncertain" /\ UNCHANGED acks
             /\ handler' = [handler EXCEPT ![h].pc = "reconcile", ![h].before = entry.before]
    <3>1. /\ handler'[h].pc = "reconcile" /\ handler'[h].req = handler[h].req
          /\ handler'[h].before = entry.before
          /\ \A g \in Handlers \ {h} : handler'[g] = handler[g]
      BY <1>a, <2>2 DEF HandlerState
    <3>2. Op(h)' = Op(h) /\ ~At(h, NameStages)' /\ ~At(h, {"call"})'
      BY <3>1 DEF At, NameStages, DoneStages, Op
    <3>3. Baseline(Op(h), entry.before)
      BY <2>2 DEF Baseline, Current
    <3> HIDE DEF entry
    <3> QED
      BY <1>a, <2>1, <2>2, <3>1, <3>2, <3>3, NamesKept
  <2>3. CASE entry.state = "accepted" /\ Acknowledge(h, entry.target)
    <3>1. Named(Op(h), entry.target)
      BY <2>3 DEF Named, Current
    <3>2. /\ handler'[h] = Idle /\ \A g \in Handlers \ {h} : handler'[g] = handler[g]
          /\ acks' = acks \cup {[req |-> handler[h].req, target |-> entry.target]}
      BY <2>3, Moves
    <3> HIDE DEF entry
    <3> QED
      BY <1>a, <1>b, <2>1, <3>1, <3>2, NamesKept
  <2>4. CASE Answer(h)
    <3>1. handler'[h] = Idle /\ acks' = acks /\ \A g \in Handlers \ {h} : handler'[g] = handler[g]
      BY <2>4, Moves
    <3> HIDE DEF entry
    <3> QED
      BY <1>a, <1>b, <2>1, <3>1, NamesKept
  <2> QED
    BY <1>3, <2>2, <2>3, <2>4 DEF BeginDuplicate
<1>4. CASE LoadFails(h)
  <2>1. handler'[h] = Idle /\ acks' = acks /\ \A g \in Handlers \ {h} : handler'[g] = handler[g]
    BY <1>4, Moves DEF LoadFails
  <2> QED
    BY <1>4, <1>a, <1>b, <2>1, NamesKept DEF LoadFails, worldVars, queueVars
<1>5. CASE BeginSaved(h)
  <2>1. /\ Persist(h) /\ acks' = acks
        /\ handler'[h].pc = (IF Op(h) \in Handoffs THEN "list" ELSE "call")
        /\ handler'[h].before = handler[h].before
        /\ \A g \in Handlers \ {h} : handler'[g] = handler[g]
    BY <1>5, Moves DEF BeginSaved
  <2>2. ~At(h, NameStages)' /\ ~At(h, BaseStages)'
    BY <2>1 DEF At, NameStages, BaseStages, DoneStages
  <2>3. At(h, {"call"})' => Op(h)' \notin Handoffs
    BY <1>5, <2>1, Moves DEF BeginSaved, At, Op
  <2> QED
    BY <1>a, <2>1, <2>2, <2>3, NamesKept DEF Persist, worldVars, queueVars
<1>6. CASE BeginUnsaved(h)
  <2>1. handler'[h] = Idle /\ acks' = acks /\ \A g \in Handlers \ {h} : handler'[g] = handler[g]
    BY <1>6, Moves DEF BeginUnsaved
  <2> QED
    BY <1>6, <1>a, <1>b, <2>1, NamesKept DEF BeginUnsaved, PersistFails, worldVars, queueVars
<1>7. CASE ListTargets(h)
  <2>1. /\ handler'[h].pc = "call" /\ handler'[h].before = Existing
        /\ \A g \in Handlers \ {h} : handler'[g] = handler[g]
    BY <1>7, <1>a DEF ListTargets, HandlerState
  <2>2. ~At(h, NameStages)' /\ ~At(h, BaseStages)'
    BY <2>1 DEF At, NameStages, BaseStages, DoneStages
  <2> QED
    BY <1>7, <1>a, <2>1, <2>2, NamesKept DEF ListTargets, ledgerVars, worldVars, queueVars
<1>8. CASE Refused(h)
  <2>1. /\ handler'[h].pc = "failRejected" /\ \A g \in Handlers \ {h} : handler'[g] = handler[g]
    BY <1>8, Moves DEF Refused
  <2>2. ~At(h, NameStages)' /\ ~At(h, BaseStages)' /\ ~At(h, {"call"})'
    BY <2>1 DEF At, NameStages, BaseStages, DoneStages
  <2> QED
    BY <1>8, <1>a, <2>1, <2>2, NamesKept DEF Refused, ledgerVars, worldVars, queueVars
<1>9. CASE CallLost(h)
  <2>1. /\ At(h, {"call"}) /\ UNCHANGED <<ledgerVars, madeBy, acks>>
        /\ handler'[h].pc = "failUncertain" /\ handler'[h].req = handler[h].req
        /\ handler'[h].before = handler[h].before
        /\ \A g \in Handlers \ {h} : handler'[g] = handler[g]
    BY <1>9, Moves DEF CallLost
  <2>2. CalledFirst(h)
    BY <2>1, CallIsFirst
  <2>3. /\ \A o : \A t : Named(o, t)' => Named(o, t)
        /\ \A o : \A B : Baseline(o, B)' => Baseline(o, B) \/ (o = Op(h) /\ B = handler[h].before)
    BY <2>1 DEF Named, Baseline, At, Op, NameStages, BaseStages, DoneStages, ledgerVars
  <2>4. BaselineExisted'
    BY <1>a, <2>1 DEF NameInv, BaselineExisted, At, Op
  <2> QED
    <3>1. PICK p, base : p = Op(h) /\ base = handler[h].before
      OBVIOUS
    <3>2. NamesOnly(p, NoSession, base)
      BY <1>a, <3>1, <2>1, <2>2, <2>3 DEF NamesOnly, CalledFirst, Remembered, ledgerVars
    <3> QED
      BY <2>4, <3>2, NamesStep
<1>10. ASSUME NEW session \in Sessions \cup {NoSession}, CallSucceeds(h, session)
       PROVE  NameInv'
  <2>1. /\ At(h, {"call"}) /\ UNCHANGED <<ledgerVars, acks>>
        /\ IF Op(h) \in Handoffs THEN Apply(handler[h].req, session) ELSE madeBy' = madeBy
        /\ handler'[h].pc \in {"checkpoint", "accept"} /\ handler'[h].req = handler[h].req
        /\ handler'[h].before = handler[h].before /\ handler'[h].target = session
        /\ \A g \in Handlers \ {h} : handler'[g] = handler[g]
        /\ handler[h].req \in Requests
    BY <1>10, <1>a, OpType DEF CallSucceeds, TakeOver, HandlerState, At
  <2>2. CalledFirst(h)
    BY <2>1, CallIsFirst
  <2>3. /\ \A o : \A t : Named(o, t)' => Named(o, t) \/ (o = Op(h) /\ t = session)
        /\ \A o : \A B : Baseline(o, B)' => Baseline(o, B) \/ (o = Op(h) /\ B = handler[h].before)
    BY <2>1 DEF Named, Baseline, At, Op, ledgerVars
  <2>4. /\ Existing \subseteq Existing'
        /\ Op(h) \in Handoffs => session \in Existing' /\ session \notin handler[h].before
    BY <2>1, ApplyKeepsSessions DEF Op, NameInv, BaselineExisted, Existing
  <2>5. BaselineExisted'
    BY <2>1, <2>4 DEF NameInv, BaselineExisted, At, Op
  <2> QED
    <3>1. PICK p, base : p = Op(h) /\ base = handler[h].before
      OBVIOUS
    <3>2. NamesOnly(p, session, base)
      BY <1>a, <3>1, <2>1, <2>2, <2>3, <2>4 DEF NamesOnly, CalledFirst, Remembered, ledgerVars
    <3> QED
      BY <2>5, <3>2, NamesStep
<1>11. CASE EnterAccept(h)
  <2> DEFINE old == Current[Op(h)]
             entry == [old EXCEPT !.state = "accepted", !.target = handler[h].target, !.before = {}]
  <2>1. /\ At(h, NameStages) /\ Op(h) \in Ops
        /\ Enter(h, [Current EXCEPT ![Op(h)] = entry], Op(h)) /\ UNCHANGED <<handler, acks>>
    BY <1>11, OpType DEF EnterAccept, At, AcceptStages, NameStages, DoneStages
  <2>2. old \in Entry
    BY <2>1, CurrentType DEF TypeInv
  <2>3. entry \in Entry /\ entry.state = "accepted" /\ entry.target = handler[h].target
    BY <1>a, <2>2 DEF Entry, EntryStates, HandlerState
  <2> HIDE DEF entry
  <2>4. EntryNamed(Op(h), entry)
    BY <1>c, <2>1, <2>3 DEF EntryNamed
  <2> QED
    BY <1>e, <1>f, <2>1, <2>3, <2>4
<1>12. CASE CheckpointSaved(h)
  <2>1. /\ Persist(h) /\ acks' = acks /\ At(h, NameStages) /\ At(h, BaseStages)
        /\ handler'[h].pc \in {"recheckpoint", "accept"} /\ Op(h)' = Op(h)
        /\ handler'[h].before = handler[h].before /\ handler'[h].target = handler[h].target
        /\ \A g \in Handlers \ {h} : handler'[g] = handler[g]
    BY <1>12, Moves DEF CheckpointSaved, At, NameStages, BaseStages, DoneStages, Op
  <2>2. ~At(h, {"call"})'
    BY <2>1 DEF At
  <2> QED
    BY <1>a, <1>c, <2>1, <2>2, NamesKept DEF Persist, worldVars, queueVars
<1>13. CASE AcceptSaved(h)
  <2>1. /\ At(h, NameStages) /\ Persist(h)
        /\ acks' = acks \cup {[req |-> handler[h].req, target |-> handler[h].target]}
        /\ handler'[h] = Idle /\ \A g \in Handlers \ {h} : handler'[g] = handler[g]
    BY <1>13, Moves DEF AcceptSaved, At, NameStages, DoneStages
  <2> QED
    BY <1>a, <1>b, <1>c, <2>1, NamesKept DEF Persist, worldVars, queueVars
<1>14. CASE AcceptUnsaved(h)
  BY <1>14, <1>a, <1>d, NamesKept DEF AcceptUnsaved, PersistFails, worldVars, queueVars
<1>15. CASE AcceptMissing(h)
  BY <1>15, <1>a, <1>d, NamesKept DEF AcceptMissing, ledgerVars, worldVars, queueVars
<1>16. CASE EnterFail(h)
  <2> DEFINE old == Current[Op(h)]
             uncertain == IF Op(h) \in Handoffs
                          THEN [old EXCEPT !.state = "uncertain", !.target = NoSession,
                                           !.before = handler[h].before]
                          ELSE [old EXCEPT !.state = "uncertain"]
             entry == IF At(h, {"failUncertain"}) THEN uncertain ELSE NoEntry
  <2>1. /\ At(h, FailStages) /\ Op(h) \in Ops
        /\ Enter(h, [Current EXCEPT ![Op(h)] = entry], Op(h)) /\ UNCHANGED <<handler, acks>>
    BY <1>16, OpType DEF EnterFail, At, FailStages
  <2>2. old \in Entry
    BY <2>1, CurrentType DEF TypeInv
  <2>3. /\ entry \in Entry
        /\ At(h, {"failUncertain"}) =>
              entry.state = "uncertain" /\ (Op(h) \in Handoffs => entry.before = handler[h].before)
        /\ ~At(h, {"failUncertain"}) => entry.state = "absent"
    BY <1>a, <2>2, NoEntryType DEF Entry, EntryStates, NoEntry
  <2> HIDE DEF entry
  <2>4. EntryNamed(Op(h), entry)
    BY <1>c, <2>3 DEF EntryNamed, At, BaseStages
  <2> QED
    BY <1>e, <1>f, <2>1, <2>3, <2>4
<1>17. CASE FailSaved(h)
  <2>1. /\ Persist(h) /\ handler'[h] = Idle /\ acks' = acks
        /\ \A g \in Handlers \ {h} : handler'[g] = handler[g]
    BY <1>17, Moves DEF FailSaved
  <2> QED
    BY <1>a, <1>b, <2>1, NamesKept DEF Persist, worldVars, queueVars
<1>18. CASE FailUnsaved(h)
  <2>1. handler'[h] = Idle /\ acks' = acks /\ \A g \in Handlers \ {h} : handler'[g] = handler[g]
    BY <1>18, Moves DEF FailUnsaved
  <2> QED
    BY <1>18, <1>a, <1>b, <2>1, NamesKept DEF FailUnsaved, PersistFails, worldVars, queueVars
<1>19. CASE FailMissing(h)
  <2>1. handler'[h] = Idle /\ acks' = acks /\ \A g \in Handlers \ {h} : handler'[g] = handler[g]
    BY <1>19, Moves DEF FailMissing
  <2> QED
    BY <1>19, <1>a, <1>b, <2>1, NamesKept DEF FailMissing, ledgerVars, worldVars, queueVars
<1>20. ASSUME NEW session \in Sessions, Reconcile(h, session)
       PROVE  NameInv'
  <2>1. /\ At(h, {"reconcile"}) /\ UNCHANGED <<ledgerVars, worldVars, acks>>
        /\ Existing \ handler[h].before = {session}
        /\ handler'[h].pc = "adopt" /\ handler'[h].req = handler[h].req
        /\ handler'[h].target = session
        /\ \A g \in Handlers \ {h} : handler'[g] = handler[g]
    BY <1>20, <1>a DEF Reconcile, HandlerState
  <2>2. /\ \A o : \A t : Named(o, t)' => Named(o, t) \/ (o = Op(h) /\ t = session)
        /\ \A o : \A D : Baseline(o, D)' => Baseline(o, D)
    BY <2>1 DEF Named, Baseline, At, Op, NameStages, BaseStages, DoneStages, ledgerVars
  <2>3. Baseline(Op(h), handler[h].before) /\ Op(h) \in Handoffs
    BY <1>c, <2>1 DEF At, BaseStages, WorkInv, HandoffsOnly, HandoffStages
  <2>4. Existing' = Existing
    BY <2>1 DEF Existing, worldVars, queueVars
  <2>5. BaselineExisted'
    BY <2>1, <2>4 DEF NameInv, BaselineExisted, At, Op
  <2>6. ASSUME Op(h) \notin forgotten
        PROVE  /\ \A t : Named(Op(h), t) => t = session
               /\ \A C : Baseline(Op(h), C) => C = handler[h].before
    <3>1. \A t : Named(Op(h), t) => t \in Targets
      BY ConstantsAssumption, <2>3
         DEF Named, TypeInv, TypeOK, Entry, HandlerState, Acknowledgement, Targets
    <3>2. \A C : Baseline(Op(h), C) => C \in SUBSET Sessions
      BY ConstantsAssumption, <2>3 DEF Baseline, TypeInv, TypeOK, Entry, HandlerState
    <3>3. \A C : Baseline(Op(h), C) => C = handler[h].before
      BY <1>a, <2>3, <2>6, <3>2 DEF NameInv, OneBaseline
    <3>4. \A t : Named(Op(h), t) => t \in Existing /\ t \notin handler[h].before
      BY <1>a, <2>3, <2>6, <3>1 DEF NameInv, TargetIsNew
    <3> QED
      BY <2>1, <3>3, <3>4
  <2> QED
    <3>1. PICK p, base : p = Op(h) /\ base = handler[h].before
      OBVIOUS
    <3>2. NamesOnly(p, session, base)
      BY <1>a, <3>1, <2>1, <2>2, <2>4, <2>6 DEF NamesOnly, ledgerVars
    <3> QED
      BY <2>5, <3>2, NamesStep
<1>21. CASE ReconcileNothing(h)
  <2>1. handler'[h] = Idle /\ acks' = acks /\ \A g \in Handlers \ {h} : handler'[g] = handler[g]
    BY <1>21, Moves DEF ReconcileNothing
  <2> QED
    BY <1>21, <1>a, <1>b, <2>1, NamesKept DEF ReconcileNothing, ledgerVars, worldVars, queueVars
<1> QED
  BY <1>1, <1>2, <1>3, <1>4, <1>5, <1>6, <1>7, <1>8, <1>9, <1>10, <1>11, <1>12, <1>13,
     <1>14, <1>15, <1>16, <1>17, <1>18, <1>19, <1>20, <1>21 DEF Step

(* So does every step of the environment. *)
LEMMA EnvironmentNames ==
    ASSUME TypeInv, NameInv, Environment
    PROVE  NameInv'
<1>1. ASSUME NEW h \in Handlers, NEW r \in Requests, Receive(h, r)
      PROVE  NameInv'
  <2>1. /\ handler'[h].pc = "begin" /\ \A g \in Handlers \ {h} : handler'[g] = handler[g]
        /\ UNCHANGED <<ledgerVars, worldVars, acks>>
    BY <1>1 DEF Receive, Idle, TypeInv, TypeOK, HandlerState
  <2>2. ~At(h, NameStages)' /\ ~At(h, BaseStages)' /\ ~At(h, {"call"})'
    BY <2>1 DEF At, NameStages, BaseStages, DoneStages
  <2>3. /\ Existing \subseteq Existing' /\ forgotten \subseteq forgotten'
        /\ ledger' = ledger /\ disk' = disk /\ acks' = acks
    BY <2>1 DEF Existing, worldVars, queueVars, ledgerVars
  <2> QED
    BY <2>1, <2>2, <2>3, NamesKept
<1>2. ASSUME NEW r \in Requests, NEW session \in Sessions \cup {NoSession},
             LateDelivery(r, session)
      PROVE  NameInv'
  <2>1. Apply(r, session) /\ UNCHANGED <<ledgerVars, handler, acks>>
    BY <1>2 DEF LateDelivery
  <2>2. Existing \subseteq Existing'
    BY <2>1, ApplyKeepsSessions
  <2> QED
    BY <2>1, <2>2, NamesInWorld
<1>3. ASSUME NEW session \in Sessions, SessionElsewhere(session)
      PROVE  NameInv'
  <2>1. UNCHANGED <<ledgerVars, handler, acks>> /\ Existing \subseteq Existing'
    BY <1>3, ConstantsAssumption DEF SessionElsewhere, Existing, TypeInv, TypeOK
  <2> QED
    BY <2>1, NamesInWorld
<1>4. CASE Crash
  <2>1. /\ ledger' = [o \in Ops |-> NoEntry] /\ handler' = [h \in Handlers |-> Idle]
        /\ UNCHANGED <<disk, madeBy, forgotten, acks>>
    BY <1>4 DEF Crash, worldVars, queueVars
  <2>2. \A h \in Handlers : ~At(h, NameStages)' /\ ~At(h, BaseStages)' /\ ~At(h, {"call"})'
    BY <2>1 DEF At, NameStages, BaseStages, DoneStages, Idle
  <2>3. \A o \in Ops : ledger'[o].state = "absent"
    BY <2>1 DEF NoEntry
  <2>4. \A o \in Ops : (\A t : Named(o, t)' => Named(o, t))
                     /\ (\A B : Baseline(o, B)' => Baseline(o, B))
    BY <2>1, <2>2, <2>3 DEF Named, Baseline
  <2>5. BaselineExisted' /\ Existing' = Existing
    BY <2>1, <2>2 DEF BaselineExisted, Existing
  <2>6. OneTarget'
    BY <2>1, <2>4 DEF NameInv, OneTarget
  <2>7. OneBaseline' /\ TargetIsNew'
    BY <2>1, <2>4, <2>5, ConstantsAssumption DEF NameInv, OneBaseline, TargetIsNew
  <2> QED
    BY <2>5, <2>6, <2>7 DEF NameInv
<1>5. ASSUME NEW r \in Requests, LeaveQueue(r)
      PROVE  NameInv'
  BY <1>5, NamesInWorld DEF LeaveQueue, Existing
<1> QED
  BY <1>1, <1>2, <1>3, <1>4, <1>5 DEF Environment

(* All the invariants so far hold in every reachable state. *)
THEOREM NameInvariant == Spec => [](TypeInv /\ IssueInv /\ WorkInv /\ RecordInv /\ NameInv)
<1>1. Init => NameInv
  <2> SUFFICES ASSUME Init PROVE NameInv
    OBVIOUS
  <2>1. \A h \in Handlers : ~At(h, NameStages) /\ ~At(h, BaseStages) /\ ~At(h, {"call"})
    BY DEF Init, At, NameStages, BaseStages, DoneStages, Idle
  <2>2. \A o \in Ops : (\A t : ~Named(o, t)) /\ (\A B : ~Baseline(o, B))
    BY <2>1 DEF Init, Named, Baseline, NoEntry
  <2> QED
    BY <2>1, <2>2, ConstantsAssumption
       DEF NameInv, OneTarget, OneBaseline, TargetIsNew, BaselineExisted
<1>2. /\ TypeInv /\ IssueInv /\ WorkInv /\ RecordInv /\ NameInv /\ [Next]_vars
      => NameInv'
  <2> SUFFICES ASSUME TypeInv, IssueInv, WorkInv, RecordInv, NameInv, [Next]_vars
               PROVE  NameInv'
    OBVIOUS
  <2>1. CASE UNCHANGED vars
    <3>1. UNCHANGED <<ledgerVars, handler, acks>> /\ Existing \subseteq Existing'
      BY <2>1 DEF vars, worldVars, queueVars, Existing
    <3> QED
      BY <3>1, NamesInWorld
  <2> QED
    BY <2>1, StepNames, EnvironmentNames DEF Next
<1> QED
  BY <1>1, <1>2, RecordInvariant, PTL DEF Spec

(* The retries of a remembered handoff are all told one Session, whether   *)
(* the target was checkpointed, found by a reconciliation after a lost     *)
(* reply, or read from the file after a restart.                           *)
THEOREM OneTargetPerHandoffHolds == Spec => []OneTargetPerHandoff
<1>1. TypeInv /\ NameInv => OneTargetPerHandoff
  <2> SUFFICES ASSUME TypeInv, NameInv, NEW a \in acks, NEW b \in acks,
                      Identity[a.req] = Identity[b.req], Identity[a.req] \notin forgotten
               PROVE  a.target = b.target
    BY DEF OneTargetPerHandoff
  <2>1. /\ a.target \in Targets /\ b.target \in Targets /\ Identity[a.req] \in Ops \ forgotten
    BY ConstantsAssumption DEF TypeInv, TypeOK, Acknowledgement, Targets
  <2>2. Named(Identity[a.req], a.target) /\ Named(Identity[a.req], b.target)
    BY DEF Named
  <2> QED
    BY <2>1, <2>2 DEF NameInv, OneTarget
<1> QED
  BY <1>1, NameInvariant, PTL

(* What was taken is counted among the calls made: done, or still an orphan. *)
TakenIsIssued == \A r \in taken : applied[r] + orphans[r] > 0

(* Only calls, their late delivery and their success touch those counts.   *)
LEMMA OnlyCallsCount ==
    ASSUME [Next]_vars
    PROVE  \/ UNCHANGED <<applied, orphans, taken>>
           \/ \E r \in Requests, session \in Sessions \cup {NoSession} : LateDelivery(r, session)
           \/ \E h \in Handlers, session \in Sessions \cup {NoSession} : CallSucceeds(h, session)
           \/ \E h \in Handlers : CallLost(h)
<1> USE DEF queueVars
<1>1. CASE UNCHANGED vars
  BY <1>1 DEF vars, worldVars
<1>2. CASE Environment
  BY <1>2 DEF Environment, Receive, LeaveQueue, SessionElsewhere, Crash, worldVars
<1>3. ASSUME NEW h \in Handlers, Step(h)
      PROVE  \/ UNCHANGED <<applied, orphans, taken>>
             \/ \E session \in Sessions \cup {NoSession} : CallSucceeds(h, session)
             \/ CallLost(h)
  <2>1. CASE BeginNew(h) \/ EnterAccept(h) \/ EnterFail(h)
    BY <2>1 DEF BeginNew, EnterAccept, EnterFail, Enter, worldVars
  <2>2. CASE BeginConflict(h) \/ BeginDuplicate(h) \/ LoadFails(h)
    BY <2>2 DEF BeginConflict, BeginDuplicate, LoadFails, worldVars
  <2>3. CASE BeginSaved(h) \/ CheckpointSaved(h) \/ AcceptSaved(h) \/ FailSaved(h)
    BY <2>3 DEF BeginSaved, CheckpointSaved, AcceptSaved, FailSaved, Persist, worldVars
  <2>4. CASE BeginUnsaved(h) \/ AcceptUnsaved(h) \/ FailUnsaved(h)
    BY <2>4 DEF BeginUnsaved, AcceptUnsaved, FailUnsaved, PersistFails, worldVars
  <2>5. CASE \/ ListTargets(h) \/ Refused(h) \/ AcceptMissing(h)
             \/ FailMissing(h) \/ ReconcileNothing(h)
    BY <2>5 DEF ListTargets, Refused, AcceptMissing, FailMissing, ReconcileNothing, worldVars
  <2>6. CASE \E session \in Sessions : Reconcile(h, session)
    BY <2>6 DEF Reconcile, worldVars
  <2> QED
    BY <1>3, <2>1, <2>2, <2>3, <2>4, <2>5, <2>6 DEF Step
<1> QED
  BY <1>1, <1>2, <1>3 DEF Next

LEMMA TakenInvariant == Spec => []TakenIsIssued
<1>1. Init => TakenIsIssued
  BY DEF Init, TakenIsIssued
<1>2. TypeInv /\ TypeInv' /\ TakenIsIssued /\ [Next]_vars => TakenIsIssued'
  <2> SUFFICES ASSUME TypeInv, TypeInv', TakenIsIssued, [Next]_vars, NEW r \in taken'
               PROVE  applied'[r] + orphans'[r] > 0
    BY DEF TakenIsIssued
  <2>a. /\ r \in Requests
        /\ applied \in [Requests -> Nat] /\ orphans \in [Requests -> Nat]
        /\ queued \in [Requests -> Nat] /\ dropped \in [Requests -> Nat]
    BY DEF TypeInv, TypeOK
  <2>1. CASE UNCHANGED <<applied, orphans, taken>>
    BY <2>1 DEF TakenIsIssued
  <2>2. ASSUME NEW q \in Requests, NEW session, LateDelivery(q, session)
        PROVE  applied'[r] + orphans'[r] > 0
    <3>1. r \in taken /\ applied' = [applied EXCEPT ![q] = @ + 1]
          /\ orphans' = [orphans EXCEPT ![q] = @ - 1]
      BY <2>2 DEF LateDelivery, Apply, queueVars
    <3>2. applied[r] + orphans[r] > 0
      BY <3>1 DEF TakenIsIssued
    <3> QED
      BY <2>a, <3>1, <3>2
  <2>3. ASSUME NEW h \in Handlers, NEW session, CallSucceeds(h, session)
        PROVE  applied'[r] + orphans'[r] > 0
    <3>1. /\ taken' = taken \cup {handler[h].req} /\ handler[h].req \in Requests
          /\ \/ applied' = [applied EXCEPT ![handler[h].req] = @ + 1] /\ orphans' = orphans
             \/ orphans' = [orphans EXCEPT ![handler[h].req] = @ + 1] /\ applied' = applied
      BY <2>3, OpType DEF CallSucceeds, Apply, TakeOver, At
    <3>2. CASE r = handler[h].req
      BY <2>a, <3>1, <3>2
    <3>3. CASE r # handler[h].req
      <4>1. applied[r] + orphans[r] > 0
        BY <3>1, <3>3 DEF TakenIsIssued
      <4> QED
        BY <2>a, <3>1, <3>3, <4>1
    <3> QED
      BY <3>2, <3>3
  <2>4. ASSUME NEW h \in Handlers, CallLost(h)
        PROVE  applied'[r] + orphans'[r] > 0
    <3>1. /\ r \in taken /\ handler[h].req \in Requests /\ applied' = applied
          /\ orphans' = [orphans EXCEPT ![handler[h].req] = @ + 1]
      BY <2>4, OpType DEF CallLost, queueVars, At
    <3>2. applied[r] + orphans[r] > 0
      BY <3>1 DEF TakenIsIssued
    <3> QED
      BY <2>a, <3>1, <3>2
  <2> QED
    BY <2>1, <2>2, <2>3, <2>4, OnlyCallsCount
<1> QED
  BY <1>1, <1>2, TypeCorrect, PTL DEF Spec

-----------------------------------------------------------------------------
-----------------------------------------------------------------------------
(* The ledger implements MutationPromise, step by step.                    *)

(* An answer with a target that the operation already has is an answer     *)
(* that the promise allows.                                                *)
LEMMA AckIsPromised ==
    ASSUME TypeInv, TypeInv', NameInv', NEW r \in Requests, NEW t,
           acks' = acks \cup {[req |-> r, target |-> t]},
           UNCHANGED <<applied, taken, forgotten>>,
           Identity[r] \in Handoffs \/ r \in taken
    PROVE  Promise!Next
<1>1. t \in Targets /\ [req |-> r, target |-> t] \in acks'
  BY DEF TypeInv, TypeOK, Acknowledgement, Targets
<1>2. ASSUME Identity[r] \notin forgotten, NEW a \in acks, Identity[a.req] = Identity[r]
      PROVE  a.target = t
  <2>1. Identity[r] \in Ops \ forgotten' /\ a \in acks' /\ a.target \in Targets
    BY <1>2, ConstantsAssumption DEF TypeInv, TypeOK, Acknowledgement, Targets
  <2>2. Named(Identity[r], a.target)' /\ Named(Identity[r], t)'
    BY <1>1, <1>2, <2>1 DEF Named
  <2> QED
    BY <1>1, <2>1, <2>2 DEF NameInv, OneTarget
<1>3. Promise!Acknowledge(r, t)
  BY <1>2 DEF Promise!Acknowledge
<1> QED
  BY <1>1, <1>3 DEF Promise!Next, Targets

(* So is a request carried out for the first time. *)
LEMMA WorkIsPromised ==
    ASSUME NEW r \in Requests, UNCHANGED <<acks, forgotten>>,
           applied' = [applied EXCEPT ![r] = @ + 1],
           taken' = taken \/ taken' = taken \cup {r},
           Identity[r] \notin forgotten =>
              \A q \in Requests : Identity[q] = Identity[r] => applied[q] = 0
    PROVE  Promise!Next
BY DEF Promise!Next, Promise!Perform

(* And a request taken for the first time. *)
LEMMA TakingIsPromised ==
    ASSUME NEW r \in Requests, UNCHANGED <<applied, acks, forgotten>>,
           taken' = taken \cup {r},
           Identity[r] \notin forgotten =>
              \A q \in Requests : Identity[q] = Identity[r] => q \notin taken /\ applied[q] = 0
    PROVE  Promise!Next
BY DEF Promise!Next, Promise!Take

(* And so is giving up records. *)
LEMMA TrimIsPromised ==
    ASSUME TypeInv', UNCHANGED <<applied, taken, acks>>, forgotten \subseteq forgotten'
    PROVE  Promise!Next
BY DEF Promise!Next, Promise!Forget, TypeInv, TypeOK

(* Every step of a handler is a step of the promise or invisible to it. *)
LEMMA StepKeepsPromise ==
    ASSUME TypeInv, TypeInv', IssueInv, WorkInv, TakenIsIssued, NameInv',
           NEW h \in Handlers, Step(h)
    PROVE  [Promise!Next]_(Promise!vars)
<1> USE DEF Promise!vars
<1>a. ASSUME NEW entry \in Entry, Op(h) \in Ops,
             Enter(h, [Current EXCEPT ![Op(h)] = entry], Op(h)), UNCHANGED acks
      PROVE  Promise!Next
  <2>1. [Current EXCEPT ![Op(h)] = entry] \in [Ops -> Entry]
    BY <1>a, CurrentType DEF TypeInv
  <2>2. forgotten \subseteq forgotten' /\ applied' = applied /\ taken' = taken
    BY <1>a, <2>1, EnterKeeps DEF TypeInv, Enter, worldVars, queueVars
  <2> QED
    BY <1>a, <2>2, TrimIsPromised
<1>b. ASSUME At(h, AcceptStages), AcceptThrows(h), UNCHANGED <<applied, taken, forgotten>>
      PROVE  [Promise!Next]_(Promise!vars)
  <2>1. CASE acks' = acks
    BY <1>b, <2>1
  <2>2. CASE acks' # acks
    <3>1. /\ acks' = acks \cup {[req |-> handler[h].req, target |-> handler[h].target]}
          /\ At(h, {"recheckpoint", "accept"}) /\ Op(h) \in Handoffs
      BY <1>b, <2>2, ThrowMoves DEF WorkInv
    <3>2. handler[h].req \in Requests
      BY <3>1, OpType DEF At
    <3> QED
      BY <1>b, <3>1, <3>2, AckIsPromised DEF Op
  <2> QED
    BY <2>1, <2>2
<1>1. CASE BeginNew(h)
  <2> DEFINE entry == [NoEntry EXCEPT !.state = "pending", !.req = handler[h].req]
  <2>1. /\ Enter(h, [Current EXCEPT ![Op(h)] = entry], Op(h)) /\ UNCHANGED acks
        /\ Op(h) \in Ops /\ handler[h].req \in Requests
    BY <1>1, OpType DEF BeginNew, At
  <2>2. entry \in Entry
    BY <2>1, NoEntryType DEF Entry, EntryStates, NoEntry
  <2> HIDE DEF entry
  <2> QED
    BY <1>a, <2>1, <2>2
<1>2. CASE BeginConflict(h)
  BY <1>2 DEF BeginConflict, Answer, worldVars, queueVars
<1>3. CASE BeginDuplicate(h)
  <2> DEFINE entry == Current[Op(h)]
  <2>1. /\ UNCHANGED <<applied, taken, forgotten>>
        /\ Op(h) \in Ops /\ handler[h].req \in Requests
        /\ entry.req = handler[h].req
    BY <1>3, OpType DEF BeginDuplicate, worldVars, queueVars, At
  <2>2. CASE acks' = acks
    BY <2>1, <2>2
  <2>3. CASE entry.state = "accepted" /\ Acknowledge(h, entry.target)
    <3>1. Op(h) \in Handoffs \/ handler[h].req \in taken
      BY <2>1, <2>3 DEF WorkInv, AcceptedWorkTaken, Current
    <3>2. acks' = acks \cup {[req |-> handler[h].req, target |-> entry.target]}
      BY <2>3 DEF Acknowledge
    <3> HIDE DEF entry
    <3> QED
      BY <2>1, <3>1, <3>2, AckIsPromised DEF Op
  <2> QED
    BY <1>3, <2>2, <2>3 DEF BeginDuplicate, Answer
<1>4. CASE LoadFails(h)
  BY <1>4, TrimIsPromised DEF LoadFails, Answer, worldVars, queueVars
<1>5. CASE BeginSaved(h)
  BY <1>5 DEF BeginSaved, Persist, worldVars, queueVars
<1>6. CASE BeginUnsaved(h)
  BY <1>6 DEF BeginUnsaved, PersistFails, Answer, worldVars, queueVars
<1>7. CASE ListTargets(h)
  BY <1>7 DEF ListTargets, ledgerVars, worldVars, queueVars
<1>8. CASE Refused(h)
  BY <1>8 DEF Refused, ledgerVars, worldVars, queueVars
<1>9. CASE CallLost(h)
  BY <1>9 DEF CallLost, ledgerVars, queueVars
<1>10. ASSUME NEW session \in Sessions \cup {NoSession}, CallSucceeds(h, session)
       PROVE  [Promise!Next]_(Promise!vars)
  <2>1. /\ At(h, {"call"}) /\ UNCHANGED <<forgotten, acks>>
        /\ taken' = taken \cup {handler[h].req}
        /\ handler[h].req \in Requests
    BY <1>10, OpType DEF CallSucceeds, ledgerVars, At
  <2>2. Owner(h) /\ At(h, FreshStages)
    BY <2>1 DEF Owner, At, OwnerStages, FreshStages
  <2>3. Op(h) \notin forgotten => ~Issued(Op(h))
    BY <2>2 DEF IssueInv, FreshOwner, Remembered
  <2>4. \A q \in Requests : applied[q] \in Nat /\ orphans[q] \in Nat
    BY DEF TypeInv, TypeOK
  <2>5. Op(h) \notin forgotten => \A q \in Requests : Identity[q] = Op(h) =>
                                      q \notin taken /\ applied[q] = 0
    BY <2>3, <2>4 DEF Issued, TakenIsIssued
  <2>6. CASE Op(h) \in Handoffs
    <3>1. applied' = [applied EXCEPT ![handler[h].req] = @ + 1]
      BY <1>10, <2>6 DEF CallSucceeds, Apply
    <3> QED
      BY <2>1, <2>5, <3>1, WorkIsPromised DEF Op
  <2>7. CASE Op(h) \notin Handoffs
    <3>1. applied' = applied
      BY <1>10, <2>7 DEF CallSucceeds, TakeOver
    <3> QED
      BY <2>1, <2>5, <3>1, TakingIsPromised DEF Op
  <2> QED
    BY <2>6, <2>7
<1>11. CASE EnterAccept(h)
  <2> DEFINE old == Current[Op(h)]
             entry == [old EXCEPT !.state = "accepted", !.target = handler[h].target, !.before = {}]
  <2>1. /\ Op(h) \in Ops /\ handler[h].target \in Sessions \cup {NoSession}
        /\ Enter(h, [Current EXCEPT ![Op(h)] = entry], Op(h)) /\ UNCHANGED acks
    BY <1>11, OpType DEF EnterAccept, At, AcceptStages, TypeInv, TypeOK, HandlerState
  <2>2. old \in Entry
    BY <2>1, CurrentType DEF TypeInv
  <2>3. entry \in Entry
    BY <2>1, <2>2 DEF Entry, EntryStates
  <2> HIDE DEF entry
  <2> QED
    BY <1>a, <2>1, <2>3
<1>12. CASE CheckpointSaved(h)
  BY <1>12 DEF CheckpointSaved, Persist, worldVars, queueVars
<1>13. CASE AcceptSaved(h)
  <2>1. /\ At(h, {"accept", "adopt"}) /\ UNCHANGED <<applied, taken, forgotten>>
        /\ acks' = acks \cup {[req |-> handler[h].req, target |-> handler[h].target]}
        /\ handler[h].req \in Requests
    BY <1>13, OpType DEF AcceptSaved, Persist, Acknowledge, worldVars, queueVars, At
  <2>2. Op(h) \in Handoffs \/ handler[h].req \in taken
    BY <2>1 DEF WorkInv, HandoffsOnly, DoneFirst, At, HandoffStages, DoneStages
  <2> QED
    BY <2>1, <2>2, AckIsPromised DEF Op
<1>14. CASE AcceptUnsaved(h)
  BY <1>14, <1>b DEF AcceptUnsaved, PersistFails, worldVars, queueVars
<1>15. CASE AcceptMissing(h)
  BY <1>15, <1>b DEF AcceptMissing, ledgerVars, worldVars, queueVars
<1>16. CASE EnterFail(h)
  <2> DEFINE old == Current[Op(h)]
             uncertain == IF Op(h) \in Handoffs
                          THEN [old EXCEPT !.state = "uncertain", !.target = NoSession,
                                           !.before = handler[h].before]
                          ELSE [old EXCEPT !.state = "uncertain"]
             entry == IF At(h, {"failUncertain"}) THEN uncertain ELSE NoEntry
  <2>1. /\ Op(h) \in Ops /\ handler[h].before \in SUBSET Sessions
        /\ Enter(h, [Current EXCEPT ![Op(h)] = entry], Op(h)) /\ UNCHANGED acks
    BY <1>16, OpType DEF EnterFail, At, FailStages, TypeInv, TypeOK, HandlerState
  <2>2. old \in Entry
    BY <2>1, CurrentType DEF TypeInv
  <2>3. entry \in Entry
    BY <2>1, <2>2, NoEntryType DEF Entry, EntryStates, NoEntry
  <2> HIDE DEF entry
  <2> QED
    BY <1>a, <2>1, <2>3
<1>17. CASE FailSaved(h)
  BY <1>17 DEF FailSaved, Persist, Answer, worldVars, queueVars
<1>18. CASE FailUnsaved(h)
  BY <1>18 DEF FailUnsaved, PersistFails, Answer, worldVars, queueVars
<1>19. CASE FailMissing(h)
  BY <1>19 DEF FailMissing, Answer, ledgerVars, worldVars, queueVars
<1>20. ASSUME NEW session \in Sessions, Reconcile(h, session)
       PROVE  [Promise!Next]_(Promise!vars)
  BY <1>20 DEF Reconcile, ledgerVars, worldVars, queueVars
<1>21. CASE ReconcileNothing(h)
  BY <1>21 DEF ReconcileNothing, Answer, ledgerVars, worldVars, queueVars
<1> QED
  BY <1>1, <1>2, <1>3, <1>4, <1>5, <1>6, <1>7, <1>8, <1>9, <1>10, <1>11, <1>12, <1>13,
     <1>14, <1>15, <1>16, <1>17, <1>18, <1>19, <1>20, <1>21 DEF Step

(* So is every step of the environment. *)
LEMMA EnvironmentKeepsPromise ==
    ASSUME TypeInv, IssueInv, Environment
    PROVE  [Promise!Next]_(Promise!vars)
<1> USE DEF Promise!vars
<1>1. ASSUME NEW r \in Requests, NEW session, LateDelivery(r, session)
      PROVE  Promise!Next
  <2>1. /\ orphans[r] > 0 /\ UNCHANGED <<forgotten, acks>>
        /\ applied' = [applied EXCEPT ![r] = @ + 1] /\ taken' = taken
    <3>1. orphans[r] \in Nat /\ queued[r] \in Nat /\ dropped[r] \in Nat
      BY DEF TypeInv, TypeOK
    <3> QED
      BY <1>1, <3>1 DEF LateDelivery, Apply, ledgerVars, queueVars
  <2>2. \A q \in Requests : applied[q] \in Nat /\ orphans[q] \in Nat
    BY DEF TypeInv, TypeOK
  <2>3. ASSUME Identity[r] \notin forgotten, NEW q \in Requests, Identity[q] = Identity[r]
        PROVE  applied[q] = 0
    <3>1. /\ applied[r] + orphans[r] <= 1
          /\ applied[q] + orphans[q] > 0 /\ applied[r] + orphans[r] > 0 => q = r
      BY <2>3 DEF IssueInv, IssuedOnce
    <3> QED
      BY <2>1, <2>2, <3>1
  <2> QED
    BY <2>1, <2>3, WorkIsPromised
<1>2. ASSUME NEW h \in Handlers, NEW r \in Requests, Receive(h, r)
      PROVE  UNCHANGED Promise!vars
  BY <1>2 DEF Receive, ledgerVars, worldVars, queueVars
<1>3. ASSUME NEW session \in Sessions, SessionElsewhere(session)
      PROVE  UNCHANGED Promise!vars
  BY <1>3 DEF SessionElsewhere, ledgerVars, queueVars
<1>4. CASE Crash
  BY <1>4 DEF Crash
<1>5. ASSUME NEW r \in Requests, LeaveQueue(r)
      PROVE  UNCHANGED Promise!vars
  BY <1>5 DEF LeaveQueue, ledgerVars
<1> QED
  BY <1>1, <1>2, <1>3, <1>4, <1>5 DEF Environment

(* The ledger, with its file, its serial chain, its handlers and its       *)
(* restarts, implements MutationPromise: a remembered operation is taken   *)
(* and carried out at most once, what is answered "accepted" was taken,    *)
(* and all the answers for one operation name one target.                  *)
THEOREM KeepsPromiseHolds == Spec => KeepsPromise
<1>1. Init => Promise!Init
  BY DEF Init, Promise!Init
<1>2. /\ TypeInv /\ IssueInv /\ WorkInv /\ TakenIsIssued /\ [Next]_vars
      /\ TypeInv' /\ NameInv'
      => [Promise!Next]_(Promise!vars)
  <2> SUFFICES ASSUME TypeInv, IssueInv, WorkInv, TakenIsIssued, [Next]_vars, TypeInv', NameInv'
               PROVE  [Promise!Next]_(Promise!vars)
    OBVIOUS
  <2>1. CASE UNCHANGED vars
    BY <2>1 DEF vars, ledgerVars, worldVars, queueVars, Promise!vars
  <2> QED
    BY <2>1, StepKeepsPromise, EnvironmentKeepsPromise DEF Next
<1> QED
  BY <1>1, <1>2, NameInvariant, TakenInvariant, PTL DEF Spec, KeepsPromise, Promise!Spec

-----------------------------------------------------------------------------
(***************************************************************************)
(* The file.  As long as no write of it fails, the file and the map say    *)
(* the same of every operation that was issued, and what was acknowledged  *)
(* stays accepted: the only section that could take it back is the fail of *)
(* an owner that lost its reply, and such an owner finds its entry still   *)
(* pending.                                                                *)
(***************************************************************************)
Says(entry, r, t) == entry.state = "accepted" /\ entry.req = r /\ entry.target = t

(* While accept is being written the map says so. *)
AcceptInMap ==
    \A h \in Handlers : lock = h /\ At(h, AcceptStages) /\ Remembered(h) =>
        Says(ledger[Op(h)], handler[h].req, handler[h].target)

(* The file differs from the map only for the operation being written. *)
InStep ==
    writeFailures = 0 /\ loaded =>
        /\ \A o \in Ops \ forgotten : Issued(o) =>
              ledger[o] = disk[o] \/ \E h \in Handlers : lock = h /\ Op(h) = o
        /\ \A h \in Handlers : At(h, {"list", "call"}) /\ Remembered(h) =>
              ledger[Op(h)] = disk[Op(h)]

(* An owner that lost its reply has not been overtaken. *)
LostIsPending ==
    writeFailures = 0 =>
        \A h \in Handlers : At(h, {"failUncertain"}) /\ Remembered(h) =>
            /\ ledger[Op(h)].state = IF lock = h THEN "uncertain" ELSE "pending"
            /\ \A g \in Handlers : At(g, {"reconcile", "adopt"}) => Op(g) # Op(h)

(* What was acknowledged is in the file, and in the map once that was read. *)
AckIsInBoth ==
    writeFailures = 0 =>
        \A a \in acks : Identity[a.req] \notin forgotten =>
            /\ Says(disk[Identity[a.req]], a.req, a.target)
            /\ loaded => Says(ledger[Identity[a.req]], a.req, a.target)

DiskInv == AcceptInMap /\ InStep /\ LostIsPending /\ AckIsInBoth

(* An acknowledged operation was issued. *)
LEMMA AckedIsIssued ==
    ASSUME TypeInv, RecordInv, NEW a \in acks, Identity[a.req] \notin forgotten
    PROVE  Identity[a.req] \in Ops /\ Issued(Identity[a.req])
BY ConstantsAssumption
   DEF TypeInv, TypeOK, Acknowledgement, RecordInv, OnlyIssued, RequestIssued, Issued

(* Once the lock is free the section that takes it starts from a map that  *)
(* says what the file says of everything issued.                           *)
LEMMA CurrentIsOnDisk ==
    ASSUME DiskInv, ConstantsAssumption, Free, writeFailures = 0
    PROVE  /\ \A o \in Ops \ forgotten : Issued(o) => Current[o] = disk[o]
           /\ \A a \in acks : Identity[a.req] \notin forgotten =>
                 Says(Current[Identity[a.req]], a.req, a.target)
BY DEF DiskInv, InStep, AckIsInBoth, Current, Free, ConstantsAssumption

(* A section that writes one entry keeps DiskInv if it takes back no       *)
(* acknowledgement and no entry of another handler.                        *)
LEMMA EnterDisk ==
    ASSUME TypeInv, IssueInv, RecordInv, DiskInv, NEW h \in Handlers, NEW entry \in Entry, Free,
           Op(h) \in Ops, At(h, {"begin"} \cup AcceptStages \cup FailStages),
           Enter(h, [Current EXCEPT ![Op(h)] = entry], Op(h)), UNCHANGED <<handler, acks>>,
           At(h, AcceptStages) /\ Remembered(h) =>
              Says(entry, handler[h].req, handler[h].target),
           \A g \in Handlers : At(g, {"list", "call"}) /\ Remembered(g) => Op(g) # Op(h),
           writeFailures = 0 =>
              /\ \A g \in Handlers : At(g, {"failUncertain"}) /\ Remembered(g) /\ Op(g) = Op(h) =>
                    g = h /\ entry.state = "uncertain"
              /\ \A a \in acks : Identity[a.req] = Op(h) /\ Remembered(h) =>
                    Says(entry, a.req, a.target)
    PROVE  DiskInv'
<1> DEFINE map == [Current EXCEPT ![Op(h)] = entry]
<1>1. Current \in [Ops -> Entry] /\ map \in [Ops -> Entry] /\ Enter(h, map, Op(h))
  BY CurrentType DEF TypeInv
<1>2. map[Op(h)] = entry /\ \A k \in Ops : k # Op(h) => map[k] = Current[k]
  BY <1>1
<1> HIDE DEF map
<1>3. /\ forgotten \subseteq forgotten' /\ writeFailures' = writeFailures
      /\ \A k \in Ops \ forgotten' : ledger'[k] = map[k]
      /\ loaded' = TRUE /\ lock' = h /\ disk' = disk /\ applied' = applied /\ orphans' = orphans
  BY <1>1, EnterKeeps DEF TypeInv, Enter, bounds
<1>4. \A g \in Handlers : /\ Op(g)' = Op(g) /\ (\A S : At(g, S)' = At(g, S))
                          /\ Remembered(g)' => Remembered(g)
  BY <1>3 DEF Op, At, Remembered
<1>5. \A o : Issued(o)' = Issued(o)
  BY <1>3 DEF Issued
<1>6. \A g \in Handlers : At(g, {"list", "call", "failUncertain"}) => Op(g) \in Ops /\ Current = ledger
  BY OpType, HolderHasLoaded DEF At, Owner, OwnerStages, FreshStages
<1>7. AcceptInMap'
  BY <1>2, <1>3, <1>4 DEF AcceptInMap, Remembered, Op
<1>8. InStep'
  <2> SUFFICES ASSUME writeFailures = 0 PROVE InStep'
    BY <1>3 DEF InStep
  <2>1. ASSUME NEW o \in Ops \ forgotten', Issued(o)', o # Op(h)
        PROVE  ledger'[o] = disk'[o]
    <3>1. ledger'[o] = Current[o] /\ o \in Ops \ forgotten /\ Issued(o)
      BY <1>2, <1>3, <1>5, <2>1
    <3> QED
      BY <1>3, <3>1, CurrentIsOnDisk, ConstantsAssumption
  <2>2. ASSUME NEW g \in Handlers, At(g, {"list", "call"})', Remembered(g)'
        PROVE  ledger'[Op(g)] = disk'[Op(g)]
    <3>1. At(g, {"list", "call"}) /\ Remembered(g) /\ Op(g) \in Ops \ forgotten'
      BY <1>4, <1>6, <2>2 DEF At, Remembered
    <3>2. Op(g) # Op(h) /\ Current = ledger /\ loaded
      BY <1>6, <3>1, HolderHasLoaded DEF At, Owner, OwnerStages, FreshStages
    <3> QED
      BY <1>2, <1>3, <3>1, <3>2 DEF DiskInv, InStep
  <2> QED
    BY <1>3, <1>4, <2>1, <2>2 DEF InStep
<1>9. LostIsPending'
  <2> SUFFICES ASSUME writeFailures = 0, NEW g \in Handlers, At(g, {"failUncertain"})', Remembered(g)'
               PROVE  /\ ledger'[Op(g)'].state = IF lock' = g THEN "uncertain" ELSE "pending"
                      /\ \A k \in Handlers : At(k, {"reconcile", "adopt"})' => Op(k)' # Op(g)'
    BY <1>3 DEF LostIsPending
  <2>1. At(g, {"failUncertain"}) /\ Remembered(g) /\ Op(g) \in Ops \ forgotten'
    BY <1>4, <1>6 DEF At, Remembered
  <2>2. ledger[Op(g)].state = "pending" /\ Current = ledger
    BY <1>6, <2>1, ConstantsAssumption DEF DiskInv, LostIsPending, Free, At
  <2>3. ledger'[Op(g)].state = IF g = h THEN "uncertain" ELSE "pending"
    BY <1>2, <1>3, <2>1, <2>2
  <2> QED
    BY <1>3, <1>4, <2>1, <2>3 DEF DiskInv, LostIsPending
<1>10. AckIsInBoth'
  <2> SUFFICES ASSUME writeFailures = 0, NEW a \in acks, Identity[a.req] \notin forgotten'
               PROVE  /\ Says(disk[Identity[a.req]], a.req, a.target)
                      /\ Says(ledger'[Identity[a.req]], a.req, a.target)
    BY <1>3 DEF AckIsInBoth, Says
  <2>1. Identity[a.req] \in Ops \ forgotten' /\ Identity[a.req] \notin forgotten
    BY <1>3, AckedIsIssued
  <2>2. Says(Current[Identity[a.req]], a.req, a.target)
    BY <2>1, CurrentIsOnDisk, ConstantsAssumption
  <2>3. Says(map[Identity[a.req]], a.req, a.target)
    BY <1>2, <2>1, <2>2 DEF Remembered
  <2> QED
    BY <1>3, <2>1, <2>3 DEF DiskInv, AckIsInBoth
<1> QED
  BY <1>7, <1>8, <1>9, <1>10 DEF DiskInv

(* The write that ends a section keeps DiskInv. *)
LEMMA PersistDisk ==
    ASSUME TypeInv, IssueInv, DiskInv, NEW h \in Handlers, Persist(h),
           \A g \in Handlers \ {h} : handler'[g] = handler[g],
           ~At(h, {"failUncertain", "reconcile", "adopt"})',
           \/ acks' = acks
           \/ /\ At(h, AcceptStages)
              /\ acks' = acks \cup {[req |-> handler[h].req, target |-> handler[h].target]}
    PROVE  DiskInv'
<1>1. /\ lock = h /\ lock' = NoHandler /\ disk' = ledger /\ UNCHANGED <<loaded, ledger, forgotten>>
      /\ writeFailures' = writeFailures /\ loaded
  BY ConstantsAssumption DEF Persist, bounds, IssueInv, UnloadedIsEmpty, Free
<1>2. \A g \in Handlers \ {h} :
        Op(g)' = Op(g) /\ Remembered(g)' = Remembered(g) /\ (\A S : At(g, S)' = At(g, S))
  BY <1>1 DEF Op, At, Remembered
<1>3. AcceptInMap'
  BY <1>1, ConstantsAssumption DEF AcceptInMap
<1>4. InStep'
  BY <1>1 DEF InStep
<1>5. LostIsPending'
  <2> SUFFICES ASSUME writeFailures = 0, NEW g \in Handlers \ {h},
                      At(g, {"failUncertain"})', Remembered(g)'
               PROVE  /\ ledger'[Op(g)'].state = IF lock' = g THEN "uncertain" ELSE "pending"
                      /\ \A k \in Handlers : At(k, {"reconcile", "adopt"})' => Op(k)' # Op(g)'
    BY <1>1 DEF LostIsPending, At
  <2>1. /\ ledger[Op(g)].state = "pending"
        /\ \A k \in Handlers : At(k, {"reconcile", "adopt"}) => Op(k) # Op(g)
    BY <1>1, <1>2 DEF DiskInv, LostIsPending
  <2>2. ASSUME NEW k \in Handlers, At(k, {"reconcile", "adopt"})'
        PROVE  Op(k)' # Op(g)'
    BY <1>2, <2>1, <2>2 DEF At
  <2> QED
    BY <1>1, <1>2, <2>1, <2>2, ConstantsAssumption
<1>6. AckIsInBoth'
  <2> SUFFICES ASSUME writeFailures = 0, NEW a \in acks', Identity[a.req] \notin forgotten
               PROVE  Says(ledger[Identity[a.req]], a.req, a.target)
    BY <1>1 DEF AckIsInBoth, Says
  <2>1. CASE a \in acks
    BY <1>1, <2>1 DEF DiskInv, AckIsInBoth
  <2>2. CASE a \notin acks
    BY <1>1, <2>2 DEF DiskInv, AcceptInMap, Remembered, Op
  <2> QED
    BY <2>1, <2>2
<1> QED
  BY <1>3, <1>4, <1>5, <1>6 DEF DiskInv

(* A step outside a section keeps DiskInv. *)
LEMMA OutsideDisk ==
    ASSUME TypeInv, IssueInv, RecordInv, DiskInv, NEW h \in Handlers, lock # h,
           \A g \in Handlers \ {h} : handler'[g] = handler[g],
           \/ ledger' = ledger /\ loaded' = loaded
           \/ Free /\ ledger' = Current /\ loaded' = TRUE,
           UNCHANGED <<lock, disk, forgotten, writeFailures>>,
           \A o \in Ops \ forgotten : Issued(o)' =>
              Issued(o) \/ (loaded /\ (writeFailures = 0 => ledger[o] = disk[o])),
           At(h, {"list", "call"})' => At(h, {"list", "call"}) /\ handler'[h].req = handler[h].req,
           writeFailures = 0 =>
              /\ At(h, {"failUncertain"})' /\ Remembered(h)' =>
                    /\ ledger'[Op(h)'].state = "pending"
                    /\ \A g \in Handlers \ {h} : At(g, {"reconcile", "adopt"}) => Op(g) # Op(h)'
              /\ At(h, {"reconcile", "adopt"})' =>
                    \A g \in Handlers \ {h} : At(g, {"failUncertain"}) /\ Remembered(g) =>
                       Op(g) # Op(h)'
              /\ \/ acks' = acks
                 \/ \E t : /\ acks' = acks \cup {[req |-> handler[h].req, target |-> t]}
                           /\ Remembered(h) => /\ Says(disk[Op(h)], handler[h].req, t)
                                               /\ Says(ledger'[Op(h)], handler[h].req, t)
    PROVE  DiskInv'
<1>1. \A g \in Handlers \ {h} :
        Op(g)' = Op(g) /\ Remembered(g)' = Remembered(g) /\ (\A S : At(g, S)' = At(g, S))
  BY DEF Op, At, Remembered
<1>2. \A g \in Handlers : At(g, OwnerStages \ {"begin"}) \/ lock = g => loaded /\ ledger' = ledger
  <2>1. \A g \in Handlers : At(g, OwnerStages \ {"begin"}) \/ lock = g => loaded
    BY ConstantsAssumption DEF IssueInv, UnloadedIsEmpty, Free, At, OwnerStages, FreshStages
  <2> QED
    BY <2>1 DEF Current
<1>3. AcceptInMap'
  BY <1>1, <1>2 DEF DiskInv, AcceptInMap, Says
<1>4. InStep'
  <2> SUFFICES ASSUME writeFailures = 0, loaded' PROVE InStep'
    BY DEF InStep
  <2>1. ASSUME NEW o \in Ops \ forgotten', Issued(o)'
        PROVE  ledger'[o] = disk'[o] \/ \E g \in Handlers : lock' = g /\ Op(g)' = o
    <3>1. CASE ~loaded
      BY <2>1, <3>1, ConstantsAssumption, CurrentIsOnDisk DEF Current
    <3>2. CASE loaded /\ Issued(o)
      <4>1. ledger[o] = disk[o] \/ \E g \in Handlers : lock = g /\ Op(g) = o
        BY <2>1, <3>2 DEF DiskInv, InStep
      <4> QED
        BY <1>1, <3>2, <4>1 DEF Current
    <3>3. CASE loaded /\ ledger[o] = disk[o]
      BY <3>3 DEF Current
    <3> QED
      BY <2>1, <3>1, <3>2, <3>3
  <2>2. ASSUME NEW g \in Handlers, At(g, {"list", "call"})', Remembered(g)'
        PROVE  ledger'[Op(g)'] = disk'[Op(g)']
    <3>1. At(g, {"list", "call"}) /\ Remembered(g) /\ Op(g)' = Op(g)
      BY <1>1, <2>2 DEF Op, Remembered
    <3>2. loaded /\ ledger' = ledger
      BY <1>2, <3>1 DEF At, OwnerStages, FreshStages
    <3> QED
      BY <3>1, <3>2 DEF DiskInv, InStep
  <2> QED
    BY <2>1, <2>2 DEF InStep
<1>5. LostIsPending'
  <2> SUFFICES ASSUME writeFailures = 0, NEW g \in Handlers, At(g, {"failUncertain"})', Remembered(g)'
               PROVE  /\ ledger'[Op(g)'].state = IF lock' = g THEN "uncertain" ELSE "pending"
                      /\ \A k \in Handlers : At(k, {"reconcile", "adopt"})' => Op(k)' # Op(g)'
    BY DEF LostIsPending
  <2>1. CASE g = h
    <3>1. ~At(h, {"reconcile", "adopt"})'
      BY <2>1 DEF At
    <3> QED
      BY <1>1, <2>1, <3>1
  <2>2. CASE g # h
    <3>1. At(g, {"failUncertain"}) /\ Remembered(g) /\ Op(g)' = Op(g)
      BY <1>1, <2>2
    <3>2. ledger' = ledger
      BY <1>2, <3>1 DEF At, OwnerStages
    <3>3. ASSUME NEW k \in Handlers, At(k, {"reconcile", "adopt"})'
          PROVE  Op(k)' # Op(g)'
      BY <1>1, <2>2, <3>1, <3>3 DEF DiskInv, LostIsPending
    <3> QED
      BY <3>1, <3>2, <3>3 DEF DiskInv, LostIsPending
  <2> QED
    BY <2>1, <2>2
<1>6. AckIsInBoth'
  <2> SUFFICES ASSUME writeFailures = 0, NEW a \in acks', Identity[a.req] \notin forgotten
               PROVE  /\ Says(disk[Identity[a.req]], a.req, a.target)
                      /\ loaded' => Says(ledger'[Identity[a.req]], a.req, a.target)
    BY DEF AckIsInBoth, Says
  <2>1. CASE a \in acks
    BY <2>1, CurrentIsOnDisk, ConstantsAssumption DEF DiskInv, AckIsInBoth
  <2>2. CASE a \notin acks
    BY <2>2 DEF Remembered, Op
  <2> QED
    BY <2>1, <2>2
<1> QED
  BY <1>3, <1>4, <1>5, <1>6 DEF DiskInv

(* So does a write that fails: nothing is said of the file after it. *)
LEMMA FailedWriteDisk ==
    ASSUME TypeInv, NEW h \in Handlers, PersistFails(h)
    PROVE  DiskInv'
<1>1. writeFailures' # 0 /\ lock' = NoHandler
  BY DEF PersistFails, TypeInv, TypeOK
<1> QED
  BY <1>1, ConstantsAssumption DEF DiskInv, AcceptInMap, InStep, LostIsPending, AckIsInBoth

(* Every step of a handler keeps DiskInv. *)
LEMMA StepDisk ==
    ASSUME TypeInv, IssueInv, WorkInv, RecordInv, NameInv, DiskInv, NEW h \in Handlers, Step(h)
    PROVE  DiskInv'
<1>a. /\ handler \in [Handlers -> HandlerState] /\ writeFailures \in Nat
      /\ handler[h].before \in SUBSET Sessions /\ handler[h].target \in Sessions \cup {NoSession}
  BY BoundsAssumption DEF TypeInv, TypeOK, HandlerState
<1>b. handler'[h] = Idle =>
        /\ ~At(h, {"list", "call"})' /\ ~At(h, {"failUncertain"})'
        /\ ~At(h, {"reconcile", "adopt"})' /\ ~At(h, {"failUncertain", "reconcile", "adopt"})'
  BY DEF At, Idle
<1>c. ~At(h, {"begin"} \cup AcceptStages \cup FailStages) => lock # h
  BY DEF IssueInv, LockHolder
<1>d. Free => lock # h
  BY ConstantsAssumption DEF Free
<1>e. At(h, OwnerStages \ {"begin"}) => Owner(h)
  BY DEF Owner, At
<1>f. applied' = applied /\ orphans' = orphans => \A o : Issued(o)' = Issued(o)
  BY DEF Issued
<1>1. CASE BeginNew(h)
  <2> DEFINE entry == [NoEntry EXCEPT !.state = "pending", !.req = handler[h].req]
  <2>1. /\ Enter(h, [Current EXCEPT ![Op(h)] = entry], Op(h)) /\ UNCHANGED <<handler, acks>>
        /\ Op(h) \in Ops /\ handler[h].req \in Requests /\ Free
        /\ At(h, {"begin"}) /\ Current[Op(h)].state = "absent"
    BY <1>1, OpType DEF BeginNew, At
  <2>2. entry \in Entry
    BY <2>1, NoEntryType DEF Entry, EntryStates, NoEntry
  <2>3. /\ ~At(h, AcceptStages) /\ At(h, {"begin"} \cup AcceptStages \cup FailStages)
    BY <2>1 DEF At, AcceptStages
  <2>4. ASSUME NEW g \in Handlers, At(g, {"list", "call", "failUncertain"}), Remembered(g)
        PROVE  Op(g) # Op(h)
    <3>1. Holds(g) /\ Current = ledger
      BY <2>4, HolderHasLoaded DEF Holds, Owner, At, OwnerStages, FreshStages
    <3> QED
      BY <2>1, <2>4, <3>1 DEF IssueInv, OwnerHasEntry
  <2>5. ASSUME writeFailures = 0, NEW a \in acks, Identity[a.req] \notin forgotten
        PROVE  Identity[a.req] # Op(h)
    BY <2>1, <2>5, CurrentIsOnDisk, ConstantsAssumption DEF Says
  <2> HIDE DEF entry
  <2> QED
    BY <2>1, <2>2, <2>3, <2>4, <2>5, EnterDisk DEF At, Remembered
<1>2. CASE BeginConflict(h)
  <2>1. handler'[h] = Idle /\ acks' = acks /\ \A g \in Handlers \ {h} : handler'[g] = handler[g]
    BY <1>2, Moves DEF BeginConflict
  <2>2. /\ Free /\ ledger' = Current /\ loaded' = TRUE
        /\ UNCHANGED <<lock, disk, forgotten, applied, orphans, writeFailures>>
    BY <1>2 DEF BeginConflict, worldVars, queueVars, bounds
  <2> QED
    BY <1>b, <1>d, <1>f, <2>1, <2>2, OutsideDisk
<1>3. CASE BeginDuplicate(h)
  <2> DEFINE entry == Current[Op(h)]
  <2>1. /\ Free /\ ledger' = Current /\ loaded' = TRUE
        /\ UNCHANGED <<lock, disk, forgotten, applied, orphans, writeFailures>>
        /\ Op(h) \in Ops /\ handler[h].req \in Requests /\ entry.req = handler[h].req
    BY <1>3, OpType DEF BeginDuplicate, worldVars, queueVars, bounds, At
  <2>2. CASE /\ entry.state = "uncertain" /\ UNCHANGED acks
             /\ handler' = [handler EXCEPT ![h].pc = "reconcile", ![h].before = entry.before]
    <3>1. /\ handler'[h].pc = "reconcile" /\ handler'[h].req = handler[h].req
          /\ \A g \in Handlers \ {h} : handler'[g] = handler[g]
      BY <1>a, <2>2 DEF HandlerState
    <3>2. ~At(h, {"list", "call"})' /\ ~At(h, {"failUncertain"})' /\ Op(h)' = Op(h)
      BY <3>1 DEF At, Op
    <3>3. ASSUME writeFailures = 0, NEW g \in Handlers, At(g, {"failUncertain"}), Remembered(g)
          PROVE  Op(g) # Op(h)
      <4>1. Current = ledger /\ lock # g
        BY <2>1, <3>3, HolderHasLoaded, ConstantsAssumption
           DEF Owner, At, OwnerStages, Free
      <4>2. ledger[Op(g)].state = "pending"
        BY <3>3, <4>1 DEF DiskInv, LostIsPending
      <4> QED
        BY <2>2, <4>1, <4>2
    <3> HIDE DEF entry
    <3> QED
      BY <1>d, <1>f, <2>1, <2>2, <3>1, <3>2, <3>3, OutsideDisk
  <2>3. CASE entry.state = "accepted" /\ Acknowledge(h, entry.target)
    <3>1. /\ handler'[h] = Idle /\ \A g \in Handlers \ {h} : handler'[g] = handler[g]
          /\ acks' = acks \cup {[req |-> handler[h].req, target |-> entry.target]}
      BY <2>3, Moves
    <3>2. Says(ledger'[Op(h)], handler[h].req, entry.target)
      BY <2>1, <2>3 DEF Says
    <3>3. ASSUME writeFailures = 0, Remembered(h)
          PROVE  Says(disk[Op(h)], handler[h].req, entry.target)
      <4>1. Op(h) \in Ops \ forgotten /\ Issued(Op(h))
        BY <2>1, <2>3, <3>3 DEF RecordInv, OnlyIssued, Current, Remembered
      <4>2. entry = disk[Op(h)]
        BY <2>1, <3>3, <4>1, CurrentIsOnDisk, ConstantsAssumption
      <4> QED
        BY <2>1, <2>3, <4>2 DEF Says
    <3> HIDE DEF entry
    <3> QED
      BY <1>b, <1>d, <1>f, <2>1, <3>1, <3>2, <3>3, OutsideDisk
  <2>4. CASE Answer(h)
    <3>1. handler'[h] = Idle /\ acks' = acks /\ \A g \in Handlers \ {h} : handler'[g] = handler[g]
      BY <2>4, Moves
    <3> HIDE DEF entry
    <3> QED
      BY <1>b, <1>d, <1>f, <2>1, <3>1, OutsideDisk
  <2> QED
    BY <1>3, <2>2, <2>3, <2>4 DEF BeginDuplicate
<1>4. CASE LoadFails(h)
  <2>1. /\ Free /\ ~loaded /\ forgotten' = forgotten \cup {o \in Ops : Issued(o)}
        /\ UNCHANGED <<ledger, lock, disk, applied, orphans, acks>>
        /\ handler'[h] = Idle /\ \A g \in Handlers \ {h} : handler'[g] = handler[g]
    BY <1>4, Moves DEF LoadFails, worldVars, queueVars
  <2>2. \A g \in Handlers : ~At(g, {"list", "call"})' /\ ~At(g, {"failUncertain"})'
    BY <2>1 DEF IssueInv, UnloadedIsEmpty, At, Idle
  <2>3. AcceptInMap' /\ LostIsPending'
    BY <2>1, <2>2, ConstantsAssumption DEF AcceptInMap, LostIsPending, Free
  <2>4. InStep'
    BY <1>f, <2>1, <2>2 DEF InStep
  <2>5. AckIsInBoth'
    BY <2>1, AckedIsIssued DEF AckIsInBoth
  <2> QED
    BY <2>3, <2>4, <2>5 DEF DiskInv
<1>5. CASE BeginSaved(h)
  <2>1. /\ Persist(h) /\ acks' = acks /\ \A g \in Handlers \ {h} : handler'[g] = handler[g]
        /\ ~At(h, {"failUncertain", "reconcile", "adopt"})'
    BY <1>5, Moves DEF BeginSaved, At
  <2> QED
    BY <2>1, PersistDisk
<1>6. CASE BeginUnsaved(h)
  BY <1>6, FailedWriteDisk DEF BeginUnsaved
<1>7. CASE ListTargets(h)
  <2>1. /\ At(h, {"list"}) /\ handler'[h].pc = "call" /\ handler'[h].req = handler[h].req
        /\ \A g \in Handlers \ {h} : handler'[g] = handler[g]
        /\ UNCHANGED <<ledgerVars, applied, orphans, writeFailures, acks>>
    BY <1>7, <1>a DEF ListTargets, HandlerState, worldVars, queueVars, bounds
  <2>2. /\ ~At(h, {"failUncertain"})' /\ ~At(h, {"reconcile", "adopt"})'
        /\ At(h, {"list", "call"}) /\ lock # h
    BY <1>c, <2>1 DEF At, AcceptStages, FailStages
  <2> QED
    BY <1>f, <2>1, <2>2, OutsideDisk DEF ledgerVars
<1>8. CASE Refused(h)
  <2>1. /\ At(h, {"list", "call"}) /\ handler'[h].pc = "failRejected"
        /\ \A g \in Handlers \ {h} : handler'[g] = handler[g]
        /\ UNCHANGED <<ledgerVars, applied, orphans, writeFailures, acks>>
    BY <1>8, Moves DEF Refused, worldVars, queueVars, bounds
  <2>2. /\ ~At(h, {"failUncertain"})' /\ ~At(h, {"reconcile", "adopt"})'
        /\ ~At(h, {"list", "call"})' /\ lock # h
    BY <1>c, <2>1 DEF At, AcceptStages, FailStages
  <2> QED
    BY <1>f, <2>1, <2>2, OutsideDisk DEF ledgerVars
<1>g. ASSUME At(h, {"call"})
      PROVE  /\ handler[h].req \in Requests /\ Op(h) \in Ops /\ loaded /\ lock # h
             /\ Remembered(h) => /\ ~Issued(Op(h)) /\ ledger[Op(h)].state = "pending"
                                 /\ writeFailures = 0 => ledger[Op(h)] = disk[Op(h)]
                                 /\ \A g \in Handlers : At(g, {"reconcile", "adopt"}) =>
                                       Op(g) # Op(h)
  <2>1. /\ handler[h].req \in Requests /\ Op(h) \in Ops /\ Owner(h) /\ Holds(h) /\ lock # h
        /\ At(h, FreshStages) /\ At(h, {"list", "call"})
    BY <1>c, <1>g, OpType
       DEF At, Owner, Holds, OwnerStages, FreshStages, AcceptStages, FailStages
  <2>2. loaded
    BY <2>1, HolderHasLoaded
  <2>3. ASSUME Remembered(h)
        PROVE  ~Issued(Op(h)) /\ ledger[Op(h)].state = "pending"
    <3>1. ~Issued(Op(h)) /\ ledger[Op(h)].state # "absent" /\ Op(h) \in Ops \ forgotten
      BY <2>1, <2>3 DEF IssueInv, FreshOwner, OwnerHasEntry, Remembered
    <3>2. ledger[Op(h)].state \notin {"accepted", "uncertain"}
      BY <3>1 DEF RecordInv, OnlyIssued
    <3>3. ledger[Op(h)].state \in EntryStates
      BY <2>1 DEF TypeInv, TypeOK, Entry
    <3> QED
      BY <3>1, <3>2, <3>3 DEF EntryStates
  <2>4. ASSUME Remembered(h), NEW g \in Handlers, At(g, {"reconcile", "adopt"})
        PROVE  Op(g) # Op(h)
    <3>1. handler[g].req \in Requests /\ (Remembered(g) => RequestIssued(handler[g].req))
      BY <2>4, OpType DEF RecordInv, OnlyIssued, At, IssuedStages
    <3> QED
      BY <2>3, <2>4, <3>1 DEF Issued, RequestIssued, Remembered, Op
  <2> QED
    BY <2>1, <2>2, <2>3, <2>4 DEF DiskInv, InStep
<1>9. CASE CallLost(h)
  <2>1. /\ At(h, {"call"}) /\ handler'[h].pc = "failUncertain" /\ handler'[h].req = handler[h].req
        /\ \A g \in Handlers \ {h} : handler'[g] = handler[g]
        /\ UNCHANGED <<ledgerVars, applied, writeFailures, acks>>
        /\ orphans' = [orphans EXCEPT ![handler[h].req] = @ + 1]
    BY <1>9, Moves DEF CallLost, worldVars, queueVars, bounds
  <2>2. /\ ~At(h, {"list", "call"})' /\ ~At(h, {"reconcile", "adopt"})'
        /\ Op(h)' = Op(h) /\ Remembered(h)' = Remembered(h)
    BY <2>1 DEF At, Op, Remembered, ledgerVars
  <2>3. \A o : Issued(o)' => Issued(o) \/ o = Op(h)
    BY <1>g, <2>1 DEF Issued, Op, TypeInv, TypeOK
  <2> QED
    BY <1>g, <2>1, <2>2, <2>3, OutsideDisk DEF ledgerVars, Remembered
<1>10. ASSUME NEW session \in Sessions \cup {NoSession}, CallSucceeds(h, session)
       PROVE  DiskInv'
  <2>1. /\ At(h, {"call"}) /\ handler'[h].pc \in {"checkpoint", "accept"}
        /\ \A g \in Handlers \ {h} : handler'[g] = handler[g]
        /\ UNCHANGED <<ledgerVars, writeFailures, acks>>
        /\ handler[h].req \in Requests
        /\ \/ applied' = [applied EXCEPT ![handler[h].req] = @ + 1] /\ orphans' = orphans
           \/ orphans' = [orphans EXCEPT ![handler[h].req] = @ + 1] /\ applied' = applied
    BY <1>10, <1>a, OpType DEF CallSucceeds, Apply, TakeOver, HandlerState, bounds, At
  <2>2. /\ ~At(h, {"list", "call"})' /\ ~At(h, {"reconcile", "adopt"})'
        /\ ~At(h, {"failUncertain"})'
    BY <2>1 DEF At
  <2>3. \A o : Issued(o)' => Issued(o) \/ o = Op(h)
    BY <1>g, <2>1 DEF Issued, Op, TypeInv, TypeOK
  <2> QED
    BY <1>g, <2>1, <2>2, <2>3, OutsideDisk DEF ledgerVars, Remembered
<1>h. ASSUME At(h, AcceptStages)
      PROVE  /\ Op(h) \in Ops /\ handler[h].req \in Requests
             /\ loaded /\ Current = ledger
             /\ Remembered(h) => /\ RequestIssued(handler[h].req) /\ Issued(Op(h))
                                 /\ ledger[Op(h)].state # "absent"
                                 /\ ledger[Op(h)].req = handler[h].req
  <2>1. /\ Op(h) \in Ops /\ handler[h].req \in Requests /\ loaded /\ Current = ledger
        /\ At(h, IssuedStages)
    BY <1>e, <1>h, OpType, HolderHasLoaded
       DEF At, AcceptStages, OwnerStages, FreshStages, IssuedStages, DoneStages
  <2>2. ASSUME Remembered(h)
        PROVE  RequestIssued(handler[h].req) /\ Issued(Op(h))
    BY <2>1, <2>2 DEF RecordInv, OnlyIssued, Issued, RequestIssued, Op
  <2> QED
    BY <2>1, <2>2 DEF RecordInv, RecordedRequest, IssueInv, IssuedIsRecorded, Remembered, Op
<1>11. CASE EnterAccept(h)
  <2> DEFINE old == Current[Op(h)]
             entry == [old EXCEPT !.state = "accepted", !.target = handler[h].target, !.before = {}]
  <2>1. /\ At(h, AcceptStages) /\ Free
        /\ Enter(h, [Current EXCEPT ![Op(h)] = entry], Op(h)) /\ UNCHANGED <<handler, acks>>
    BY <1>11 DEF EnterAccept
  <2>2. old \in Entry
    BY <1>h, <2>1, CurrentType DEF TypeInv
  <2>3. /\ entry \in Entry /\ entry.state = "accepted" /\ entry.target = handler[h].target
        /\ entry.req = old.req
    BY <1>a, <2>2 DEF Entry, EntryStates
  <2> HIDE DEF entry
  <2>4. Remembered(h) => Says(entry, handler[h].req, handler[h].target)
    BY <1>h, <2>1, <2>3 DEF Says
  <2>5. ASSUME NEW g \in Handlers, At(g, {"list", "call"}), Remembered(g)
        PROVE  Op(g) # Op(h)
    <3>1. Owner(g) /\ At(g, FreshStages)
      BY <2>5 DEF Owner, At, OwnerStages, FreshStages
    <3> QED
      BY <1>h, <2>1, <2>5, <3>1 DEF IssueInv, FreshOwner, Remembered
  <2>6. ASSUME writeFailures = 0, NEW g \in Handlers, At(g, {"failUncertain"}), Remembered(g)
        PROVE  Op(g) # Op(h)
    <3>1. CASE At(h, {"reconcile", "adopt"})
      BY <2>6, <3>1 DEF DiskInv, LostIsPending
    <3>2. CASE ~At(h, {"reconcile", "adopt"})
      <4>1. Owner(h) /\ Owner(g) /\ g # h
        BY <1>e, <2>1, <2>6, <3>2
           DEF Owner, At, AcceptStages, OwnerStages, FreshStages
      <4> QED
        BY <2>6, <4>1 DEF IssueInv, OneOwner, Remembered
    <3> QED
      BY <3>1, <3>2
  <2>7. ASSUME writeFailures = 0, NEW a \in acks, Identity[a.req] = Op(h), Remembered(h)
        PROVE  Says(entry, a.req, a.target)
    <3>1. Says(ledger[Op(h)], a.req, a.target)
      BY <1>h, <2>1, <2>7 DEF DiskInv, AckIsInBoth, Remembered
    <3>2. Named(Op(h), a.target) /\ Named(Op(h), handler[h].target)
      BY <2>1, <2>7 DEF Named, At, AcceptStages, NameStages, DoneStages
    <3>3. /\ a.target \in Targets /\ handler[h].target \in Targets
          /\ Op(h) \in Ops \ forgotten
      BY <1>a, <1>h, <2>1, <2>7 DEF TypeInv, TypeOK, Acknowledgement, Targets, Remembered
    <3>4. a.target = handler[h].target
      BY <3>2, <3>3 DEF NameInv, OneTarget
    <3> QED
      BY <1>h, <2>1, <2>3, <3>1, <3>4 DEF Says
  <2> QED
    BY <1>h, <2>1, <2>3, <2>4, <2>5, <2>6, <2>7, EnterDisk DEF At
<1>12. CASE CheckpointSaved(h)
  <2>1. /\ Persist(h) /\ acks' = acks /\ \A g \in Handlers \ {h} : handler'[g] = handler[g]
        /\ ~At(h, {"failUncertain", "reconcile", "adopt"})'
    BY <1>12, Moves DEF CheckpointSaved, At
  <2> QED
    BY <2>1, PersistDisk
<1>13. CASE AcceptSaved(h)
  <2>1. /\ Persist(h) /\ handler'[h] = Idle
        /\ \A g \in Handlers \ {h} : handler'[g] = handler[g]
        /\ acks' = acks \cup {[req |-> handler[h].req, target |-> handler[h].target]}
        /\ At(h, AcceptStages)
    BY <1>13, Moves DEF AcceptSaved, At, AcceptStages
  <2> QED
    BY <1>b, <2>1, PersistDisk
<1>14. CASE AcceptUnsaved(h)
  BY <1>14, FailedWriteDisk DEF AcceptUnsaved
<1>15. CASE AcceptMissing(h)
  <2>1. /\ At(h, AcceptStages) /\ Free /\ AcceptThrows(h) /\ ~Remembered(h)
        /\ UNCHANGED <<ledgerVars, applied, orphans, writeFailures>>
    BY <1>15, <1>h DEF AcceptMissing, worldVars, queueVars, bounds
  <2>2. /\ \A g \in Handlers \ {h} : handler'[g] = handler[g]
        /\ \/ acks' = acks
           \/ acks' = acks \cup {[req |-> handler[h].req, target |-> handler[h].target]}
        /\ \/ handler'[h] = Idle
           \/ handler'[h].pc = "failUncertain" /\ handler'[h].req = handler[h].req
    BY <2>1, ThrowMoves DEF WorkInv
  <2>3. /\ ~At(h, {"list", "call"})' /\ ~At(h, {"reconcile", "adopt"})'
        /\ At(h, {"failUncertain"})' => ~Remembered(h)'
    BY <1>b, <2>1, <2>2 DEF At, Remembered, Op, ledgerVars
  <2> QED
    BY <1>d, <1>f, <2>1, <2>2, <2>3, OutsideDisk DEF ledgerVars
<1>16. CASE EnterFail(h)
  <2> DEFINE old == Current[Op(h)]
             uncertain == IF Op(h) \in Handoffs
                          THEN [old EXCEPT !.state = "uncertain", !.target = NoSession,
                                           !.before = handler[h].before]
                          ELSE [old EXCEPT !.state = "uncertain"]
             entry == IF At(h, {"failUncertain"}) THEN uncertain ELSE NoEntry
  <2>1. /\ At(h, FailStages) /\ Free /\ Op(h) \in Ops
        /\ Enter(h, [Current EXCEPT ![Op(h)] = entry], Op(h)) /\ UNCHANGED <<handler, acks>>
    BY <1>16, OpType DEF EnterFail, At, FailStages
  <2>2. old \in Entry
    BY <2>1, CurrentType DEF TypeInv
  <2>3. entry \in Entry /\ (At(h, {"failUncertain"}) => entry.state = "uncertain")
    BY <1>a, <2>2, NoEntryType DEF Entry, EntryStates, NoEntry
  <2> HIDE DEF entry
  <2>4. Owner(h) /\ ~At(h, AcceptStages)
    BY <2>1 DEF Owner, At, FailStages, AcceptStages, OwnerStages, FreshStages
  <2>5. ASSUME NEW g \in Handlers, At(g, {"list", "call", "failUncertain"}), Remembered(g),
               Op(g) = Op(h)
        PROVE  g = h
    <3>1. Owner(g)
      BY <2>5 DEF Owner, At, OwnerStages, FreshStages
    <3> QED
      BY <2>4, <2>5, <3>1 DEF IssueInv, OneOwner, Remembered
  <2>6. ASSUME NEW g \in Handlers, At(g, {"list", "call"}), Remembered(g)
        PROVE  Op(g) # Op(h)
    BY <2>1, <2>5, <2>6 DEF At, FailStages
  <2>7. ASSUME writeFailures = 0, NEW a \in acks, Identity[a.req] = Op(h), Remembered(h)
        PROVE  FALSE
    <3>1. Issued(Op(h)) /\ Current = ledger /\ loaded
      BY <2>4, <2>7, AckedIsIssued, HolderHasLoaded DEF Remembered
    <3>2. At(h, {"failUncertain"})
      BY <2>1, <2>4, <2>7, <3>1 DEF IssueInv, FreshOwner, At, FailStages, FreshStages
    <3>3. ledger[Op(h)].state = "pending"
      BY <1>d, <2>1, <2>7, <3>2 DEF DiskInv, LostIsPending
    <3> QED
      BY <2>7, <3>1, <3>3 DEF DiskInv, AckIsInBoth, Says, Remembered
  <2> QED
    BY <2>1, <2>3, <2>4, <2>5, <2>6, <2>7, EnterDisk DEF At
<1>17. CASE FailSaved(h)
  <2>1. /\ Persist(h) /\ handler'[h] = Idle /\ acks' = acks
        /\ \A g \in Handlers \ {h} : handler'[g] = handler[g]
    BY <1>17, Moves DEF FailSaved
  <2> QED
    BY <1>b, <2>1, PersistDisk
<1>18. CASE FailUnsaved(h)
  BY <1>18, FailedWriteDisk DEF FailUnsaved
<1>19. CASE FailMissing(h)
  <2>1. /\ handler'[h] = Idle /\ acks' = acks /\ \A g \in Handlers \ {h} : handler'[g] = handler[g]
        /\ Free /\ UNCHANGED <<ledgerVars, applied, orphans, writeFailures>>
    BY <1>19, Moves DEF FailMissing, worldVars, queueVars, bounds
  <2> QED
    BY <1>b, <1>d, <1>f, <2>1, OutsideDisk DEF ledgerVars
<1>20. ASSUME NEW session \in Sessions, Reconcile(h, session)
       PROVE  DiskInv'
  <2>1. /\ At(h, {"reconcile"}) /\ UNCHANGED <<ledgerVars, applied, orphans, writeFailures, acks>>
        /\ handler'[h].pc = "adopt" /\ handler'[h].req = handler[h].req
        /\ \A g \in Handlers \ {h} : handler'[g] = handler[g]
    BY <1>20, <1>a DEF Reconcile, HandlerState, worldVars, queueVars, bounds
  <2>2. /\ ~At(h, {"list", "call"})' /\ ~At(h, {"failUncertain"})' /\ lock # h
        /\ Op(h)' = Op(h) /\ At(h, {"reconcile", "adopt"})
    BY <1>c, <2>1 DEF At, Op, AcceptStages, FailStages
  <2>3. writeFailures = 0 =>
          \A g \in Handlers : At(g, {"failUncertain"}) /\ Remembered(g) => Op(g) # Op(h)
    BY <2>2 DEF DiskInv, LostIsPending
  <2> QED
    BY <1>f, <2>1, <2>2, <2>3, OutsideDisk DEF ledgerVars
<1>21. CASE ReconcileNothing(h)
  <2>1. /\ handler'[h] = Idle /\ acks' = acks /\ \A g \in Handlers \ {h} : handler'[g] = handler[g]
        /\ At(h, {"reconcile"}) /\ UNCHANGED <<ledgerVars, applied, orphans, writeFailures>>
    BY <1>21, Moves DEF ReconcileNothing, worldVars, queueVars, bounds
  <2>2. lock # h
    BY <1>c, <2>1 DEF At, AcceptStages, FailStages
  <2> QED
    BY <1>b, <1>f, <2>1, <2>2, OutsideDisk DEF ledgerVars
<1> QED
  BY <1>1, <1>2, <1>3, <1>4, <1>5, <1>6, <1>7, <1>8, <1>9, <1>10, <1>11, <1>12, <1>13,
     <1>14, <1>15, <1>16, <1>17, <1>18, <1>19, <1>20, <1>21 DEF Step

(* So does every step of the environment. *)
LEMMA EnvironmentDisk ==
    ASSUME TypeInv, IssueInv, RecordInv, DiskInv, Environment
    PROVE  DiskInv'
<1>1. ASSUME NEW h \in Handlers, NEW r \in Requests, Receive(h, r)
      PROVE  DiskInv'
  <2>1. /\ At(h, {"idle"}) /\ handler'[h].pc = "begin"
        /\ \A g \in Handlers \ {h} : handler'[g] = handler[g]
        /\ UNCHANGED <<ledgerVars, applied, orphans, writeFailures, acks>>
    BY <1>1 DEF Receive, Idle, TypeInv, TypeOK, HandlerState, worldVars, queueVars, bounds
  <2>2. /\ ~At(h, {"list", "call"})' /\ ~At(h, {"failUncertain"})'
        /\ ~At(h, {"reconcile", "adopt"})' /\ lock # h
    BY <2>1 DEF At, IssueInv, LockHolder, AcceptStages, FailStages
  <2>3. \A o : Issued(o)' = Issued(o)
    BY <2>1 DEF Issued
  <2> QED
    BY <2>1, <2>2, <2>3, OutsideDisk DEF ledgerVars
<1>2. ASSUME UNCHANGED <<ledgerVars, handler, acks, writeFailures>>,
             \A o \in Ops : Issued(o)' = Issued(o)
      PROVE  DiskInv'
  <2> USE DEF ledgerVars, At, Op, Remembered, Says
  <2>1. AcceptInMap' /\ LostIsPending' /\ AckIsInBoth'
    BY <1>2 DEF DiskInv, AcceptInMap, LostIsPending, AckIsInBoth
  <2>2. InStep'
    BY <1>2 DEF DiskInv, InStep
  <2> QED
    BY <2>1, <2>2 DEF DiskInv
<1>3. ASSUME NEW r \in Requests, NEW session \in Sessions \cup {NoSession},
             LateDelivery(r, session)
      PROVE  DiskInv'
  <2>1. /\ UNCHANGED <<ledgerVars, handler, acks, writeFailures>> /\ orphans[r] > 0
        /\ applied' = [applied EXCEPT ![r] = @ + 1] /\ orphans' = [orphans EXCEPT ![r] = @ - 1]
    <3>1. orphans[r] \in Nat /\ queued[r] \in Nat /\ dropped[r] \in Nat
      BY DEF TypeInv, TypeOK
    <3> QED
      BY <1>3, <3>1 DEF LateDelivery, Apply, bounds
  <2>2. \A q \in Requests : applied'[q] + orphans'[q] = applied[q] + orphans[q]
    BY <2>1 DEF TypeInv, TypeOK
  <2> QED
    BY <1>2, <2>1, <2>2 DEF Issued
<1>4. ASSUME NEW session \in Sessions, SessionElsewhere(session)
      PROVE  DiskInv'
  BY <1>2, <1>4 DEF SessionElsewhere, bounds, Issued
<1>5. CASE Crash
  <2>1. /\ ~loaded' /\ lock' = NoHandler /\ handler' = [h \in Handlers |-> Idle]
        /\ UNCHANGED <<disk, forgotten, acks, writeFailures>>
    BY <1>5 DEF Crash
  <2>2. AcceptInMap' /\ InStep' /\ LostIsPending'
    BY <2>1, ConstantsAssumption DEF AcceptInMap, InStep, LostIsPending, At, Idle
  <2>3. AckIsInBoth'
    BY <2>1 DEF DiskInv, AckIsInBoth
  <2> QED
    BY <2>2, <2>3 DEF DiskInv
<1>6. ASSUME NEW r \in Requests, LeaveQueue(r)
      PROVE  DiskInv'
  BY <1>2, <1>6 DEF LeaveQueue, bounds, Issued
<1> QED
  BY <1>1, <1>3, <1>4, <1>5, <1>6 DEF Environment

(* Everything above and DiskInv hold in every reachable state. *)
THEOREM DiskInvariant ==
    Spec => [](TypeInv /\ IssueInv /\ WorkInv /\ RecordInv /\ NameInv /\ DiskInv)
<1>1. Init => DiskInv
  <2> SUFFICES ASSUME Init PROVE DiskInv
    OBVIOUS
  <2>1. AcceptInMap /\ InStep /\ LostIsPending /\ AckIsInBoth
    BY ConstantsAssumption
       DEF Init, AcceptInMap, InStep, LostIsPending, AckIsInBoth, At, Idle
  <2> QED
    BY <2>1 DEF DiskInv
<1>2. /\ TypeInv /\ IssueInv /\ WorkInv /\ RecordInv /\ NameInv /\ DiskInv /\ [Next]_vars
      => DiskInv'
  <2> SUFFICES ASSUME TypeInv, IssueInv, WorkInv, RecordInv, NameInv, DiskInv, [Next]_vars
               PROVE  DiskInv'
    OBVIOUS
  <2>1. CASE UNCHANGED vars
    <3> USE <2>1 DEF vars, ledgerVars, worldVars, queueVars, bounds, At, Op, Remembered, Says
    <3>1. AcceptInMap' /\ LostIsPending' /\ AckIsInBoth'
      BY DEF DiskInv, AcceptInMap, LostIsPending, AckIsInBoth
    <3>2. InStep'
      BY DEF DiskInv, InStep, Issued
    <3> QED
      BY <3>1, <3>2 DEF DiskInv
  <2> QED
    BY <2>1, StepDisk, EnvironmentDisk DEF Next
<1> QED
  BY <1>1, <1>2, NameInvariant, PTL DEF Spec

(* As long as no write of the file fails, an answered 200 survives every   *)
(* restart: the file says accepted, of that request and with the target    *)
(* that was answered, until the entry is trimmed.                          *)
THEOREM AckIsOnDiskHolds == Spec => []AckIsOnDisk
<1>1. DiskInv => AckIsOnDisk
  BY DEF DiskInv, AckIsInBoth, Says, AckIsOnDisk
<1> QED
  BY <1>1, DiskInvariant, PTL

=============================================================================
