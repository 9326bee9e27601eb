--------------------------- MODULE OperationLedger ---------------------------
(***************************************************************************)
(* The durable idempotency ledger of the bridge daemon                     *)
(* (bridge/src/session-operation-ledger.js), the HTTP mutation wrapper     *)
(* that drives it (runIdempotentMutation in session-claim-server.js) and   *)
(* the native calls the wrapper dispatches: prompt, command and stop       *)
(* (machine-daemon.js), which hand one request over to an agent's service  *)
(* without waiting for the work, and handoff, which creates one native     *)
(* Session on a target agent and waits for it.                             *)
(*                                                                         *)
(* An operation is one identity (agent, Session, clientRequestId).  A      *)
(* request is an operation with one body, whose SHA-256 is its signature:  *)
(* two requests with one identity are a clientRequestId used twice.  A     *)
(* handler is one HTTP request being served by runIdempotentMutation.      *)
(***************************************************************************)
EXTENDS Integers, FiniteSets

CONSTANTS
    Ops,              \* operation identities
    Handoffs,         \* the operations that are handoffs
    Requests,         \* the requests that clients send, and resend
    Identity,         \* the operation each of them names
    NoRequest,        \* no request
    Sessions,         \* native Sessions the target agent can hold
    NoSession,        \* no Session
    Nobody,           \* the maker of a Session that does not exist
    Elsewhere,        \* the maker of a Session created outside the daemon
    Handlers,         \* concurrent HTTP requests
    NoHandler,        \* nobody is inside the ledger's #serial chain
    MaxOperations,    \* MAX_OPERATIONS
    MaxIssues,        \* bound: deliveries of one request after which clients stop resending it
    MaxCrashes,       \* bound: daemon restarts
    MaxWriteFailures, \* bound: failing writes of the ledger file
    MaxReadFailures   \* bound: failing reads of the ledger file other than ENOENT

ASSUME ConstantsAssumption ==
    /\ Handoffs \subseteq Ops
    /\ Identity \in [Requests -> Ops]
    /\ NoRequest \notin Requests
    /\ Nobody \notin Ops \cup {Elsewhere}
    /\ Elsewhere \notin Ops
    /\ NoSession \notin Sessions
    /\ NoHandler \notin Handlers

ASSUME BoundsAssumption ==
    /\ MaxOperations \in Nat \ {0}
    /\ MaxIssues \in Nat
    /\ MaxCrashes \in Nat
    /\ MaxWriteFailures \in Nat
    /\ MaxReadFailures \in Nat

VARIABLES
    loaded,        \* #loaded
    ledger,        \* #operations, the map in memory
    lock,          \* the handler inside the #serial chain, its write still to come
    disk,          \* session-operations.json
    handler,       \* what each HTTP request is doing
    orphans,       \* calls nobody waits for any more and whose work was not carried out so far
    queued,        \* those of them that wait in AcpService's #queues, in the daemon's memory
    dropped,       \* those of them that left #queues without being sent
    applied,       \* how often the agents carried out each request
    taken,         \* history: the requests whose call returned success to a handler
    madeBy,        \* which operation made each native Session of the target agent
    acks,          \* history: the "accepted" answers (HTTP 200) given so far
    forgotten,     \* history: the operations whose record the ledger gave up
    crashes, writeFailures, readFailures

ledgerVars == <<loaded, ledger, lock, disk, forgotten>>
queueVars == <<queued, dropped, taken>>
worldVars == <<orphans, queueVars, applied, madeBy>>
bounds == <<crashes, writeFailures, readFailures>>
vars == <<ledgerVars, worldVars, bounds, handler, acks>>

-----------------------------------------------------------------------------
EntryStates == {"absent", "pending", "accepted", "uncertain"}

(***************************************************************************)
(* A ledger entry.  "result" is either the recovery baseline of an         *)
(* uncertain handoff (the Sessions that existed before it) or the target   *)
(* of a handoff that is known.                                             *)
(***************************************************************************)
Entry == [state: EntryStates, req: Requests \cup {NoRequest},
          target: Sessions \cup {NoSession}, before: SUBSET Sessions]

NoEntry == [state |-> "absent", req |-> NoRequest, target |-> NoSession, before |-> {}]

Stages == {"idle", "begin", "list", "call", "checkpoint", "recheckpoint",
           "accept", "failRejected", "failUncertain", "reconcile", "adopt"}

HandlerState == [pc: Stages, req: Requests \cup {NoRequest},
                 target: Sessions \cup {NoSession}, before: SUBSET Sessions]

Idle == [pc |-> "idle", req |-> NoRequest, target |-> NoSession, before |-> {}]

Acknowledgement == [req: Requests, target: Sessions \cup {NoSession}]

(* The one type invariant of the module. *)
TypeOK ==
    /\ loaded \in BOOLEAN
    /\ ledger \in [Ops -> Entry]
    /\ lock \in Handlers \cup {NoHandler}
    /\ disk \in [Ops -> Entry]
    /\ handler \in [Handlers -> HandlerState]
    /\ orphans \in [Requests -> Nat]
    /\ queued \in [Requests -> Nat]
    /\ dropped \in [Requests -> Nat]
    /\ applied \in [Requests -> Nat]
    /\ taken \subseteq Requests
    /\ madeBy \in [Sessions -> Ops \cup {Nobody, Elsewhere}]
    /\ acks \subseteq Acknowledgement
    /\ forgotten \subseteq Ops
    /\ crashes \in 0..MaxCrashes
    /\ writeFailures \in 0..MaxWriteFailures
    /\ readFailures \in 0..MaxReadFailures

Init ==
    /\ loaded = FALSE
    /\ ledger = [o \in Ops |-> NoEntry]
    /\ lock = NoHandler
    /\ disk = [o \in Ops |-> NoEntry]
    /\ handler = [h \in Handlers |-> Idle]
    /\ orphans = [r \in Requests |-> 0]
    /\ queued = [r \in Requests |-> 0]
    /\ dropped = [r \in Requests |-> 0]
    /\ applied = [r \in Requests |-> 0]
    /\ taken = {}
    /\ madeBy = [s \in Sessions |-> Nobody]
    /\ acks = {}
    /\ forgotten = {}
    /\ crashes = 0
    /\ writeFailures = 0
    /\ readFailures = 0

-----------------------------------------------------------------------------
Existing == {s \in Sessions : madeBy[s] # Nobody}

(* A call was made for the operation: its work is done, may still be done,  *)
(* or was dropped.                                                         *)
Issued(o) == \E r \in Requests : Identity[r] = o /\ applied[r] + orphans[r] > 0

At(h, stages) == handler[h].pc \in stages

Op(h) == Identity[handler[h].req]

Goto(h, stage) == handler' = [handler EXCEPT ![h].pc = stage]

(* The handler writes an error, or a 202 with the state it found. *)
Answer(h) == handler' = [handler EXCEPT ![h] = Idle] /\ UNCHANGED acks

(* The handler writes HTTP 200, status "accepted", with this target. *)
Acknowledge(h, target) ==
    /\ handler' = [handler EXCEPT ![h] = Idle]
    /\ acks' = acks \cup {[req |-> handler[h].req, target |-> target]}

-----------------------------------------------------------------------------
(* The #serial chain.  A section runs in two steps: it loads the file if   *)
(* that was never tried, changes the map and trims it (no await between    *)
(* the last two), then writes the whole map through a temporary file and a *)
(* rename.  The chain is FIFO: handlers enter in any order here because    *)
(* they may have queued in any order.                                      *)

Current == IF loaded THEN ledger ELSE disk

Free == lock = NoHandler

(* Slip: #trim without its filter, the oldest entries go whatever their state. *)
TrimsUnresolved(map, newest) ==
    LET held == {o \in Ops : map[o].state # "absent"}
        excess == Cardinality(held) - MaxOperations
    IN  {T \in SUBSET (held \ {newest}) : Cardinality(T) = IF excess <= 0 THEN 0 ELSE excess}

(* #trim: while the map holds more than MAX_OPERATIONS entries, accepted   *)
(* ones go, the least recently updated first.  The ages of the others are  *)
(* left open; the entry just stamped goes last.                            *)
Trims(map, newest) ==
    LET held == {o \in Ops : map[o].state # "absent"}
        accepted == {o \in Ops : map[o].state = "accepted"}
        excess == Cardinality(held) - MaxOperations
        count == IF excess <= 0 THEN 0
                 ELSE IF excess <= Cardinality(accepted) THEN excess
                 ELSE Cardinality(accepted)
    IN  {T \in SUBSET accepted : /\ Cardinality(T) = count
                                 /\ newest \in T => T = accepted}

Enter(h, map, newest) ==
    /\ lock' = h
    /\ loaded' = TRUE
    /\ \E T \in Trims(map, newest) :
          /\ ledger' = [o \in Ops |-> IF o \in T THEN NoEntry ELSE map[o]]
          /\ forgotten' = forgotten \cup {o \in T : map[o].state = "accepted"}
    /\ UNCHANGED <<disk, worldVars, bounds>>

(* The rename: the file now holds the map. *)
Persist(h) ==
    /\ lock = h
    /\ lock' = NoHandler
    /\ disk' = ledger
    /\ UNCHANGED <<loaded, ledger, forgotten, worldVars, bounds>>

(* Slip: a rejected section stays at the head of #mutation. *)
PersistFailsStuck(h) ==
    /\ lock = h
    /\ writeFailures < MaxWriteFailures
    /\ writeFailures' = writeFailures + 1
    /\ UNCHANGED <<ledgerVars, worldVars, crashes, readFailures>>

(* mkdir, writeFile or rename fails: the map keeps the change, the file does not. *)
PersistFails(h) ==
    /\ lock = h
    /\ writeFailures < MaxWriteFailures
    /\ lock' = NoHandler
    /\ writeFailures' = writeFailures + 1
    /\ UNCHANGED <<loaded, ledger, disk, forgotten, worldVars, crashes, readFailures>>

-----------------------------------------------------------------------------
(* A client sends, or resends, a mutation. *)
Receive(h, r) ==
    /\ At(h, {"idle"})
    /\ applied[r] + orphans[r] < MaxIssues
    /\ handler' = [handler EXCEPT ![h] = [Idle EXCEPT !.pc = "begin", !.req = r]]
    /\ UNCHANGED <<ledgerVars, worldVars, bounds, acks>>

(* Slip: a retry of an uncertain operation starts it again. *)
BeginAgain(h) ==
    /\ At(h, {"begin"}) /\ Free
    /\ Current[Op(h)].state \in {"absent", "uncertain"}
    /\ LET entry == [NoEntry EXCEPT !.state = "pending", !.req = handler[h].req]
       IN  Enter(h, [Current EXCEPT ![Op(h)] = entry], Op(h))
    /\ UNCHANGED <<handler, acks>>

(* begin on an identity the ledger does not hold: a pending entry. *)
BeginNew(h) ==
    /\ At(h, {"begin"}) /\ Free
    /\ Current[Op(h)].state = "absent"
    /\ LET entry == [NoEntry EXCEPT !.state = "pending", !.req = handler[h].req]
       IN  Enter(h, [Current EXCEPT ![Op(h)] = entry], Op(h))
    /\ UNCHANGED <<handler, acks>>

(* begin on an identity already used for another body: 409. *)
BeginConflict(h) ==
    /\ At(h, {"begin"}) /\ Free
    /\ Current[Op(h)].state # "absent"
    /\ Current[Op(h)].req # handler[h].req
    /\ loaded' = TRUE
    /\ ledger' = Current
    /\ Answer(h)
    /\ UNCHANGED <<lock, disk, forgotten, worldVars, bounds>>

(* Slip: begin does not compare signatures. *)
BeginSameIdentity(h) ==
    /\ At(h, {"begin"}) /\ Free
    /\ Current[Op(h)].state = "accepted"
    /\ loaded' = TRUE
    /\ ledger' = Current
    /\ Acknowledge(h, Current[Op(h)].target)
    /\ UNCHANGED <<lock, disk, forgotten, worldVars, bounds>>

(* begin on a known request.  An uncertain handoff goes on to look for its *)
(* Session; anything else answers with the state found.                    *)
BeginDuplicate(h) ==
    /\ At(h, {"begin"}) /\ Free
    /\ Current[Op(h)].state # "absent"
    /\ Current[Op(h)].req = handler[h].req
    /\ loaded' = TRUE
    /\ ledger' = Current
    /\ LET entry == Current[Op(h)] IN
       \/ /\ entry.state = "uncertain" /\ Op(h) \in Handoffs
          /\ handler' = [handler EXCEPT ![h].pc = "reconcile", ![h].before = entry.before]
          /\ UNCHANGED acks
       \/ /\ entry.state = "accepted"
          /\ Acknowledge(h, entry.target)
       \/ /\ \/ entry.state = "pending"
             \/ entry.state = "uncertain" /\ Op(h) \notin Handoffs
          /\ Answer(h)
    /\ UNCHANGED <<lock, disk, forgotten, worldVars, bounds>>

(* #load sets #loaded before it reads, and the read throws: this request   *)
(* gets a 500, and every later one finds a "loaded" map that is empty.     *)
LoadFails(h) ==
    /\ At(h, {"begin"}) /\ Free
    /\ ~loaded
    /\ readFailures < MaxReadFailures
    /\ readFailures' = readFailures + 1
    /\ loaded' = TRUE
    /\ forgotten' = forgotten \cup {o \in Ops : Issued(o)}
    /\ Answer(h)
    /\ UNCHANGED <<ledger, lock, disk, worldVars, crashes, writeFailures>>

(* Slip: the call is made without waiting for the pending entry's write. *)
BeginUnawaited(h) ==
    /\ At(h, {"begin"}) /\ lock = h
    /\ lock' = NoHandler
    /\ Goto(h, IF Op(h) \in Handoffs THEN "list" ELSE "call")
    /\ UNCHANGED <<loaded, ledger, disk, forgotten, worldVars, bounds, acks>>

(* begin resolves: the dispatch starts. *)
BeginSaved(h) ==
    /\ At(h, {"begin"}) /\ Persist(h)
    /\ Goto(h, IF Op(h) \in Handoffs THEN "list" ELSE "call")
    /\ UNCHANGED acks

(* begin throws outside the try block: the pending entry stays in memory. *)
BeginUnsaved(h) ==
    /\ At(h, {"begin"}) /\ PersistFails(h)
    /\ Answer(h)

-----------------------------------------------------------------------------
(* handoffSession: the recovery baseline, the Sessions there before. *)
ListTargets(h) ==
    /\ At(h, {"list"})
    /\ handler' = [handler EXCEPT ![h].pc = "call", ![h].before = Existing]
    /\ UNCHANGED <<ledgerVars, worldVars, bounds, acks>>

(* An error raised before the call leaves the daemon, or a definite refusal by the agent. *)
Refused(h) ==
    /\ At(h, {"list", "call"})
    /\ Goto(h, "failRejected")
    /\ UNCHANGED <<ledgerVars, worldVars, bounds, acks>>

(* An agent carries out one request; a handoff creates one fresh Session. *)
Apply(r, session) ==
    /\ applied' = [applied EXCEPT ![r] = @ + 1]
    /\ IF Identity[r] \in Handoffs
       THEN /\ session \in Sessions \ Existing
            /\ madeBy' = [madeBy EXCEPT ![session] = Identity[r]]
       ELSE session = NoSession /\ UNCHANGED madeBy

(* AcpService.prompt returns once session/prompt is on its way, its answer *)
(* awaited by nobody, or once the prompt is in #queues behind a running    *)
(* turn; OpenCode answers prompt_async before the turn.                    *)
TakeOver(r) ==
    /\ orphans' = [orphans EXCEPT ![r] = @ + 1]
    /\ queued' \in {queued, [queued EXCEPT ![r] = @ + 1]}
    /\ UNCHANGED <<dropped, applied, madeBy>>

CallSucceeds(h, session) ==
    /\ At(h, {"call"})
    /\ taken' = taken \cup {handler[h].req}
    /\ IF Op(h) \in Handoffs
       THEN Apply(handler[h].req, session) /\ UNCHANGED <<orphans, queued, dropped>>
       ELSE session = NoSession /\ TakeOver(handler[h].req)
    /\ handler' = [handler EXCEPT
                     ![h].pc = IF Op(h) \in Handoffs THEN "checkpoint" ELSE "accept",
                     ![h].target = session]
    /\ UNCHANGED <<ledgerVars, bounds, acks>>

(* The reply is lost, unreadable or a 5xx: the agent may still do the work, or never. *)
CallLost(h) ==
    /\ At(h, {"call"})
    /\ orphans' = [orphans EXCEPT ![handler[h].req] = @ + 1]
    /\ Goto(h, "failUncertain")
    /\ UNCHANGED <<ledgerVars, queueVars, applied, madeBy, bounds, acks>>

(* An agent carries out a call that was sent to it, however late. *)
LateDelivery(r, session) ==
    /\ orphans[r] > queued[r] + dropped[r]
    /\ orphans' = [orphans EXCEPT ![r] = @ - 1]
    /\ Apply(r, session)
    /\ UNCHANGED <<ledgerVars, queueVars, bounds, handler, acks>>

(* #runNextQueued sends a queued prompt, or its model is refused and it is *)
(* never sent; abort drops what is queued.                                 *)
LeaveQueue(r) ==
    /\ queued[r] > 0
    /\ queued' = [queued EXCEPT ![r] = @ - 1]
    /\ dropped' \in {dropped, [dropped EXCEPT ![r] = @ + 1]}
    /\ UNCHANGED <<ledgerVars, orphans, applied, taken, madeBy, bounds, handler, acks>>

(* The user, or another client, starts a Session on the target agent. *)
SessionElsewhere(session) ==
    /\ madeBy[session] = Nobody
    /\ madeBy' = [madeBy EXCEPT ![session] = Elsewhere]
    /\ UNCHANGED <<ledgerVars, orphans, queueVars, applied, bounds, handler, acks>>

-----------------------------------------------------------------------------
AcceptStages == {"checkpoint", "recheckpoint", "accept", "adopt"}
FailStages == {"failRejected", "failUncertain"}

(* accept: the two checkpoints of a handoff, the last write of every       *)
(* dispatch, and the promotion of a reconciled handoff.                    *)
EnterAccept(h) ==
    /\ At(h, AcceptStages) /\ Free
    /\ Current[Op(h)].state # "absent"
    /\ LET entry == [Current[Op(h)] EXCEPT !.state = "accepted",
                        !.target = handler[h].target, !.before = {}]
       IN  Enter(h, [Current EXCEPT ![Op(h)] = entry], Op(h))
    /\ UNCHANGED <<handler, acks>>

CheckpointSaved(h) ==
    /\ At(h, {"checkpoint", "recheckpoint"}) /\ Persist(h)
    /\ Goto(h, IF At(h, {"checkpoint"}) THEN "recheckpoint" ELSE "accept")
    /\ UNCHANGED acks

(* Slip: the HTTP success is written before the file. *)
AcceptUnawaited(h) ==
    /\ At(h, {"accept", "adopt"}) /\ lock = h
    /\ lock' = NoHandler
    /\ Acknowledge(h, handler[h].target)
    /\ UNCHANGED <<loaded, ledger, disk, forgotten, worldVars, bounds>>

AcceptSaved(h) ==
    /\ At(h, {"accept", "adopt"}) /\ Persist(h)
    /\ Acknowledge(h, handler[h].target)

(* accept throws.  Once a checkpoint is durable the handoff is answered    *)
(* anyway; before that the catch block records the operation as uncertain; *)
(* a reconciliation swallows the error and answers "uncertain".            *)
AcceptThrows(h) ==
    \/ /\ \/ At(h, {"checkpoint"})
          \/ At(h, {"accept"}) /\ Op(h) \notin Handoffs
       /\ Goto(h, "failUncertain")
       /\ UNCHANGED acks
    \/ /\ \/ At(h, {"recheckpoint"})
          \/ At(h, {"accept"}) /\ Op(h) \in Handoffs
       /\ Acknowledge(h, handler[h].target)
    \/ /\ At(h, {"adopt"})
       /\ Answer(h)

AcceptUnsaved(h) ==
    /\ At(h, AcceptStages) /\ PersistFails(h)
    /\ AcceptThrows(h)

(* operation_missing: the entry was trimmed while its handler was away. *)
AcceptMissing(h) ==
    /\ At(h, AcceptStages) /\ Free
    /\ Current[Op(h)].state = "absent"
    /\ AcceptThrows(h)
    /\ UNCHANGED <<ledgerVars, worldVars, bounds>>

(* fail: an ambiguous failure keeps the entry (a handoff with its recovery *)
(* baseline), a definite one deletes it.                                   *)
EnterFail(h) ==
    /\ At(h, FailStages) /\ Free
    /\ Current[Op(h)].state # "absent"
    /\ LET old == Current[Op(h)]
           uncertain == IF Op(h) \in Handoffs
                        THEN [old EXCEPT !.state = "uncertain", !.target = NoSession,
                                         !.before = handler[h].before]
                        ELSE [old EXCEPT !.state = "uncertain"]
           entry == IF At(h, {"failUncertain"}) THEN uncertain ELSE NoEntry
       IN  Enter(h, [Current EXCEPT ![Op(h)] = entry], Op(h))
    /\ UNCHANGED <<handler, acks>>

FailSaved(h) ==
    /\ At(h, FailStages) /\ Persist(h)
    /\ Answer(h)

FailUnsaved(h) ==
    /\ At(h, FailStages) /\ PersistFails(h)
    /\ Answer(h)

FailMissing(h) ==
    /\ At(h, FailStages) /\ Free
    /\ Current[Op(h)].state = "absent"
    /\ Answer(h)
    /\ UNCHANGED <<ledgerVars, worldVars, bounds>>

(* Slip: any candidate will do. *)
ReconcileAny(h, session) ==
    /\ At(h, {"reconcile"})
    /\ session \in Existing \ handler[h].before
    /\ handler' = [handler EXCEPT ![h].pc = "adopt", ![h].target = session]
    /\ UNCHANGED <<ledgerVars, worldVars, bounds, acks>>

(* reconcileHandoff: exactly one Session that the baseline does not list. *)
Reconcile(h, session) ==
    /\ At(h, {"reconcile"})
    /\ Existing \ handler[h].before = {session}
    /\ handler' = [handler EXCEPT ![h].pc = "adopt", ![h].target = session]
    /\ UNCHANGED <<ledgerVars, worldVars, bounds, acks>>

(* No candidate, several, or the target cannot be listed. *)
ReconcileNothing(h) ==
    /\ At(h, {"reconcile"})
    /\ Answer(h)
    /\ UNCHANGED <<ledgerVars, worldVars, bounds>>

-----------------------------------------------------------------------------
(* The daemon dies and starts again, and AcpService's queues are empty.  A *)
(* call it had already sent is CallLost followed by this.                  *)
Crash ==
    /\ crashes < MaxCrashes
    /\ crashes' = crashes + 1
    /\ loaded' = FALSE
    /\ ledger' = [o \in Ops |-> NoEntry]
    /\ lock' = NoHandler
    /\ handler' = [h \in Handlers |-> Idle]
    /\ queued' = [r \in Requests |-> 0]
    /\ dropped' = [r \in Requests |-> dropped[r] + queued[r]]
    /\ UNCHANGED <<disk, forgotten, orphans, applied, taken, madeBy, writeFailures,
                   readFailures, acks>>

Step(h) ==
    \/ BeginNew(h) \/ BeginConflict(h) \/ BeginDuplicate(h) \/ LoadFails(h)
    \/ BeginSaved(h) \/ BeginUnsaved(h)
    \/ ListTargets(h) \/ Refused(h) \/ CallLost(h)
    \/ \E session \in Sessions \cup {NoSession} : CallSucceeds(h, session)
    \/ EnterAccept(h) \/ CheckpointSaved(h) \/ AcceptSaved(h)
    \/ AcceptUnsaved(h) \/ AcceptMissing(h)
    \/ EnterFail(h) \/ FailSaved(h) \/ FailUnsaved(h) \/ FailMissing(h)
    \/ \E session \in Sessions : Reconcile(h, session)
    \/ ReconcileNothing(h)

Environment ==
    \/ \E h \in Handlers, r \in Requests : Receive(h, r)
    \/ \E r \in Requests, session \in Sessions \cup {NoSession} : LateDelivery(r, session)
    \/ \E r \in Requests : LeaveQueue(r)
    \/ \E session \in Sessions : SessionElsewhere(session)
    \/ Crash

Next == Environment \/ \E h \in Handlers : Step(h)

Spec == Init /\ [][Next]_vars

(* Every await of a handler ends.  Strong fairness because the #serial     *)
(* chain is FIFO: a handler waiting for it is not overtaken for ever.      *)
FairSpec == Spec /\ \A h \in Handlers : SF_vars(Step(h))

-----------------------------------------------------------------------------
(* While the ledger has not given an operation up, the agents carry it out *)
(* at most once and with one body, however often clients resend it,        *)
(* whatever fails and whenever the daemon restarts.                        *)
AtMostOnce ==
    \A q, r \in Requests : Identity[q] = Identity[r] /\ Identity[r] \notin forgotten =>
        /\ applied[r] <= 1
        /\ applied[q] > 0 /\ applied[r] > 0 => q = r

(* No call was made that a restarted daemon would not find in its file:    *)
(* pending is written before the call.                                     *)
WorkIsRecorded ==
    \A o \in Ops \ forgotten : Issued(o) => disk[o].state # "absent"

(* HTTP 200 for a prompt, command or stop is only ever given for a body    *)
(* that an agent's service took, be it by the handler that sent it or by a *)
(* duplicate that found the entry.  It does not say that the work is done: *)
(* what AcpService queued may still be dropped.                            *)
AckedWorkWasTaken ==
    \A a \in acks : Identity[a.req] \notin Handoffs => a.req \in taken

(* As long as no write of the file fails, an answered 200 survives: the    *)
(* file says accepted, with the target that was answered, until the entry  *)
(* is trimmed.                                                             *)
AckIsOnDisk ==
    writeFailures = 0 =>
        \A a \in acks : Identity[a.req] \notin forgotten =>
            LET entry == disk[Identity[a.req]]
            IN  entry.state = "accepted" /\ entry.req = a.req /\ entry.target = a.target

(* The retries of a handoff are all told the same Session. *)
OneTargetPerHandoff ==
    \A a, b \in acks :
        Identity[a.req] = Identity[b.req] /\ Identity[a.req] \notin forgotten
            => a.target = b.target

(* Every request gets an answer, or dies with the daemon. *)
RequestsAnswered ==
    \A h \in Handlers : handler[h].pc # "idle" ~> handler[h].pc = "idle"

(* The ledger implements the promise. *)
Promise == INSTANCE MutationPromise
           WITH applied <- applied, taken <- taken, acks <- acks, forgotten <- forgotten
KeepsPromise == Promise!Spec

-----------------------------------------------------------------------------
(* The inductive invariant behind AtMostOnce and WorkIsRecorded.  An owner *)
(* is a handler that put its operation's pending entry in the map and has  *)
(* not answered yet.                                                       *)
FreshStages == {"begin", "list", "call", "failRejected"}
OwnerStages == FreshStages \cup {"checkpoint", "recheckpoint", "accept", "failUncertain"}

Owner(h) ==
    /\ At(h, OwnerStages)
    /\ At(h, {"begin"}) => lock = h

(* An owner that is not just deleting its entry. *)
Holds(h) == Owner(h) /\ ~(At(h, {"failRejected"}) /\ lock = h)

Remembered(h) == Op(h) \notin forgotten

(* Nothing is held before the file is read. *)
UnloadedIsEmpty ==
    ~loaded => /\ Free
               /\ \A o \in Ops : ledger[o] = NoEntry
               /\ \A h \in Handlers : At(h, {"idle", "begin"})

(* Who is inside the chain came to begin, accept or fail. *)
LockHolder ==
    \A h \in Handlers : lock = h => At(h, {"begin"} \cup AcceptStages \cup FailStages)

(* What was issued is in the file, and in the map once that was read. *)
IssuedIsRecorded ==
    \A o \in Ops \ forgotten : Issued(o) =>
        disk[o].state # "absent" /\ (loaded => ledger[o].state # "absent")

(* An operation has one owner at a time. *)
OneOwner ==
    \A g, h \in Handlers :
        Owner(g) /\ Owner(h) /\ Op(g) = Op(h) /\ Remembered(h) => g = h

(* Its entry is in the map. *)
OwnerHasEntry ==
    \A h \in Handlers : Holds(h) /\ Remembered(h) => ledger[Op(h)].state # "absent"

(* Until its call is made nothing was issued for the operation, and when   *)
(* the call can be made the entry is in the file.                          *)
FreshOwner ==
    \A h \in Handlers : Owner(h) /\ Remembered(h) =>
        /\ At(h, FreshStages) => ~Issued(Op(h))
        /\ At(h, {"list", "call"}) => disk[Op(h)].state # "absent"

(* One request of an operation was issued, once. *)
IssuedOnce ==
    \A q, r \in Requests : Identity[q] = Identity[r] /\ Identity[r] \notin forgotten =>
        /\ applied[r] + orphans[r] <= 1
        /\ applied[q] + orphans[q] > 0 /\ applied[r] + orphans[r] > 0 => q = r

IssueInv ==
    /\ UnloadedIsEmpty
    /\ LockHolder
    /\ IssuedIsRecorded
    /\ OneOwner
    /\ OwnerHasEntry
    /\ FreshOwner
    /\ IssuedOnce

=============================================================================
