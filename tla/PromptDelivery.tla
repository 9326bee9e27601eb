---------------------------- MODULE PromptDelivery ----------------------------
(***************************************************************************)
(* How the app delivers what the user sends in an open native Session: the *)
(* composer and its stored draft (work-thread-conversation.tsx), the       *)
(* durable request id written before the network is used                   *)
(* (native-session-prompt.ts), the turns the controller shows and what it  *)
(* learns from transcript reads (native-session-v3-adapter.ts), over a     *)
(* network that loses requests and answers, and a daemon that keeps its    *)
(* ledger's promise (OperationLedger): a request id is carried out at most *)
(* once.                                                                   *)
(*                                                                         *)
(* A wish is one thing the user wants to send; sending a draft again that  *)
(* came back is the same wish.  Requests are numbered as they are made,    *)
(* and a message of the transcript has the number of its request.  The     *)
(* user types only while nothing is being sent, and localStorage works.    *)
(***************************************************************************)
EXTENDS Naturals, FiniteSets, SequencesExt

CONSTANTS MaxWishes,  \* bound: wishes, numbered as they are typed
          Text,       \* [Wishes -> texts]
          Commands,   \* the wishes that are slash commands
          MaxPosts,   \* bound: POSTs made
          MaxReloads  \* bound: kills of the app

Wishes == 1..MaxWishes
None == 0

ASSUME DeliveryAssumption ==
    /\ DOMAIN Text = Wishes
    /\ Commands \subseteq Wishes
    /\ {MaxWishes, MaxPosts, MaxReloads} \subseteq Nat

VARIABLES
    typed,     \* wishes typed so far
    draft,     \* the wish in the composer
    stored,    \* the wish in the stored draft
    phase,     \* of send(): "idle", "checking", "posting", "recovering"
    sending,   \* the wish being sent
    prior,     \* the current turn when Send was pressed
    uncertain, \* a wish restored after a transport failure, with its prior turn
    record,    \* the durable request: its number, "old" once its TTL has passed
    turns,     \* the turns shown: their request, and the message they are known by
    captured,  \* a first page has been read
    posts,     \* POSTs made so far
    wire,      \* requests and answers under way
    wishOf,    \* the wish of each request made
    ledger,    \* the daemon's state of each request made
    messages,  \* the transcript
    reloads,   \* kills so far
    waived,    \* wishes whose request the app gave up, or resolved when sent again
    raced,     \* wishes resolved while they were sent again
    dropped    \* wishes the user gave up, or only in memory when the app was killed

composer == <<typed, draft, stored, uncertain, dropped>>
flow == <<phase, sending, prior>>
shown == <<turns, captured>>
daemon == <<ledger, messages>>
vars == <<composer, flow, record, shown, posts, wire, wishOf, daemon, reloads, waived, raced>>

Ids == DOMAIN wishOf
NoTurn == [request |-> None, message |-> None]
NoUncertain == [wish |-> None, prior |-> NoTurn]
NoRecord == [id |-> None, old |-> FALSE]
Delivered == ToSet(messages)
DeliveredFor(w) == {id \in Delivered : wishOf[id] = w}

Turns == [request : Ids \cup {None}, message : Ids \cup {None}]
InFlight == {"travelling", "dispatching", "accepted", "pending", "uncertain", "refused"}

TypeOK ==
    /\ typed \in Wishes \cup {None}
    /\ {draft, stored, sending} \subseteq Wishes \cup {None}
    /\ phase \in {"idle", "checking", "posting", "recovering"}
    /\ uncertain \in [wish : Wishes \cup {None}, prior : Turns]
    /\ record \in [id : Ids \cup {None}, old : BOOLEAN]
    /\ turns \subseteq Turns
    /\ prior \in Turns
    /\ captured \in BOOLEAN
    /\ posts \in 0..MaxPosts
    /\ wire \subseteq [id : Ids, post : 1..MaxPosts, at : InFlight]
    /\ wishOf \in Seq(Wishes)
    /\ ledger \in [Ids -> {"none", "pending", "accepted", "uncertain"}]
    /\ messages \in Seq(Ids)
    /\ waived \cup raced \cup dropped \subseteq Wishes

Init ==
    /\ typed = None /\ draft = None /\ stored = None
    /\ phase = "idle" /\ sending = None /\ prior = NoTurn
    /\ uncertain = NoUncertain
    /\ record = NoRecord
    /\ turns = {} /\ captured = FALSE
    /\ posts = 0 /\ wire = {} /\ wishOf = <<>>
    /\ ledger = <<>> /\ messages = <<>>
    /\ reloads = 0
    /\ waived = {} /\ raced = {} /\ dropped = {}

-----------------------------------------------------------------------------
(* What the controller makes of a read of the transcript. *)

WishOf(turn) == wishOf[IF turn.request # None THEN turn.request ELSE turn.message]

IsShown(w) == \E t \in turns : WishOf(t) = w

(* It has arrived, and its request is resolved. *)
Released(w) ==
    /\ DeliveredFor(w) # {}
    /\ record # NoRecord => wishOf[record.id] # w

(* Turns are ordered by creation, the native one's where it is known. *)
Place(turn) ==
    LET id == IF turn.message # None THEN turn.message ELSE turn.request
    IN  2 * SelectInSeq(messages, LAMBDA m : m = id) + (IF turn.request # None THEN 1 ELSE 0)

CurrentTurn(ts) ==
    IF ts = {} THEN NoTurn
    ELSE CHOOSE t \in ts : \A u \in ts : Place(u) <= Place(t)

Claimed(ts) == {t.message : t \in ts}

(* The newest message with the text of the pending prompt that no turn has *)
(* claimed.  Before the first page, messages older than the request may be *)
(* left out (their age is compared with a tolerance).                      *)
Candidates(fresh) ==
    {i \in DOMAIN messages :
        /\ Text[wishOf[messages[i]]] = Text[wishOf[record.id]]
        /\ messages[i] \notin Claimed(turns)
        /\ captured \/ ~fresh \/ messages[i] >= record.id}

Match(fresh) ==
    IF record = NoRecord \/ wishOf[record.id] \in Commands THEN None
    ELSE IF Candidates(fresh) = {} THEN None
    ELSE messages[CHOOSE i \in Candidates(fresh) : \A j \in Candidates(fresh) : j <= i]

(* reconcilePendingPromptFromTranscript and captureUserTurns. *)
Reconciled(m) ==
    IF m = None THEN turns
    ELSE IF \E t \in turns : t.request = record.id THEN turns
    ELSE turns \cup {[request |-> record.id, message |-> m]}

Captured(ts) ==
    IF captured THEN ts
    ELSE ts \cup {[request |-> None, message |-> m] : m \in Delivered \ Claimed(ts)}

ReadPage(fresh) ==
    /\ turns' = Captured(Reconciled(Match(fresh)))
    /\ captured' = TRUE
    /\ record' = IF Match(fresh) = None THEN record ELSE NoRecord

(* Once the transcript has proved the delivery of a restored draft, the    *)
(* draft goes away.                                                        *)
Proved(u, ts) ==
    /\ u.wish # None
    /\ CurrentTurn(ts) \notin {NoTurn, u.prior}
    /\ Text[WishOf(CurrentTurn(ts))] = Text[u.wish]

SettleKept(u, d, ts) ==
    /\ uncertain' = u
    /\ draft' = d
    /\ stored' = stored

Settle(u, d, ts) ==
    LET clears == Proved(u, ts) /\ d # None /\ Text[d] = Text[u.wish]
    IN  /\ uncertain' = IF Proved(u, ts) THEN NoUncertain ELSE u
        /\ draft' = IF clears THEN None ELSE d
        /\ stored' = IF clears THEN None ELSE stored

-----------------------------------------------------------------------------
(* The user and the composer. *)

Types ==
    /\ phase = "idle"
    /\ typed + 1 \in Wishes
    /\ typed' = typed + 1
    /\ draft' = typed + 1
    /\ dropped' = IF draft = None THEN dropped ELSE dropped \cup {draft}
    /\ UNCHANGED <<stored, uncertain, flow, record, shown, posts, wire, wishOf, daemon, reloads, waived, raced>>

Debounce ==
    /\ stored # draft
    /\ stored' = draft
    /\ UNCHANGED <<typed, draft, uncertain, dropped, flow, record, shown, posts, wire, wishOf, daemon, reloads, waived, raced>>

Press ==
    /\ phase = "idle" /\ draft # None
    /\ phase' = "checking"
    /\ sending' = draft
    /\ prior' = CurrentTurn(turns)
    /\ draft' = None
    /\ uncertain' = NoUncertain
    /\ waived' = IF Released(draft) THEN waived \cup {draft} ELSE waived
    /\ UNCHANGED <<raced, typed, stored, dropped, record, shown, posts, wire, wishOf, daemon, reloads>>

-----------------------------------------------------------------------------
(* send(). *)

Ends == phase' = "idle" /\ sending' = None /\ prior' = NoTurn

(* The catch block: the prompt goes back to the composer. *)
GivesBack(transport) ==
    /\ Ends
    /\ Settle(IF transport THEN [wish |-> sending, prior |-> prior] ELSE NoUncertain, sending, turns)
    /\ UNCHANGED <<typed, dropped>>

(* The agent is still working, or its writer cannot be claimed. *)
CheckFails ==
    /\ phase = "checking"
    /\ GivesBack(FALSE)
    /\ UNCHANGED <<record, shown, posts, wire, wishOf, daemon, reloads, waived, raced>>

Unresolved == record # NoRecord /\ ~record.old

SameRequest == Text[wishOf[record.id]] = Text[sending]

(* A different request is refused while one is unresolved. *)
Blocked ==
    /\ phase = "checking"
    /\ Unresolved /\ ~SameRequest
    /\ GivesBack(FALSE)
    /\ UNCHANGED <<record, shown, posts, wire, wishOf, daemon, reloads, waived, raced>>

NewRequest ==
    /\ wishOf' = Append(wishOf, sending)
    /\ ledger' = Append(ledger, "none")
    /\ record' = [id |-> Len(wishOf) + 1, old |-> FALSE]
    /\ waived' = IF record = NoRecord THEN waived ELSE waived \cup {wishOf[record.id]}
    /\ raced' = IF Released(sending) THEN raced \cup {sending} ELSE raced

PostUnrecorded ==
    /\ phase = "checking"
    /\ posts < MaxPosts
    /\ wishOf' = Append(wishOf, sending)
    /\ ledger' = Append(ledger, "none")
    /\ posts' = posts + 1
    /\ wire' = wire \cup {[id |-> Len(wishOf) + 1, post |-> posts + 1, at |-> "travelling"]}
    /\ phase' = "posting"
    /\ UNCHANGED <<composer, sending, prior, record, shown, messages, reloads, waived, raced>>

Post ==
    /\ phase = "checking"
    /\ posts < MaxPosts
    /\ \/ /\ Unresolved /\ SameRequest
          /\ UNCHANGED <<record, wishOf, ledger, waived, raced>>
       \/ /\ ~Unresolved
          /\ NewRequest
    /\ posts' = posts + 1
    /\ wire' = wire \cup {[id |-> record'.id, post |-> posts + 1, at |-> "travelling"]}
    /\ phase' = "posting"
    /\ UNCHANGED <<composer, sending, prior, shown, messages, reloads>>

(* The answers on their way to a connection that is gone are, too. *)
Requested == {m \in wire : m.at \in {"travelling", "dispatching"}}

AcceptedAnswer(m) ==
    /\ m.at = "accepted"
    /\ Ends
    /\ turns' = IF \E t \in turns : t.request = m.id THEN turns
                ELSE turns \cup {[request |-> m.id, message |-> None]}
    /\ record' = NoRecord
    /\ stored' = None
    /\ UNCHANGED <<typed, draft, uncertain, dropped, waived>>

UnsureAnswer(m) ==
    /\ m.at \in {"pending", "uncertain"}
    /\ GivesBack(FALSE)
    /\ UNCHANGED <<turns, record, waived>>

(* A 4xx or 5xx clears the request.  It may still be carried out: the      *)
(* daemon answers 500 as well when it cannot write down that the outcome   *)
(* is unknown, and an earlier POST of the request may still arrive.        *)
MayStillAct(m) == ledger[m.id] # "none" \/ \E n \in wire \ {m} : n.id = m.id

RefusedAnswer(m) ==
    /\ m.at = "refused"
    /\ record' = NoRecord
    /\ waived' = IF MayStillAct(m) THEN waived \cup {sending} ELSE waived
    /\ GivesBack(FALSE)
    /\ UNCHANGED turns

Answered(m) ==
    /\ m \in wire
    /\ AcceptedAnswer(m) \/ UnsureAnswer(m) \/ RefusedAnswer(m)
    /\ wire' = wire \ {m}
    /\ UNCHANGED <<captured, posts, wishOf, daemon, reloads, raced>>

ConnectionBreaksForgets ==
    /\ phase = "posting"
    /\ GivesBack(TRUE)
    /\ record' = NoRecord
    /\ wire' = Requested
    /\ UNCHANGED <<shown, posts, wishOf, daemon, reloads, waived, raced>>

ConnectionBreaks ==
    /\ phase = "posting"
    /\ \/ /\ sending \notin Commands
          /\ phase' = "recovering"
          /\ UNCHANGED <<composer, sending, prior>>
       \/ /\ sending \in Commands
          /\ GivesBack(TRUE)
    /\ wire' = Requested
    /\ UNCHANGED <<record, shown, posts, wishOf, daemon, reloads, waived, raced>>

(* reconcilePromptAfterTransportFailure: the transcript may show that the  *)
(* prompt arrived.                                                         *)
RecoveryFinds ==
    /\ phase = "recovering"
    /\ \E fresh \in BOOLEAN : Match(fresh) # None /\ ReadPage(fresh)
    /\ Ends
    /\ stored' = None
    /\ UNCHANGED <<typed, draft, uncertain, dropped, posts, wire, wishOf, daemon, reloads, waived, raced>>

RecoveryFindsNothing ==
    /\ phase = "recovering"
    /\ \E fresh \in BOOLEAN : record # NoRecord /\ Match(fresh) = None /\ ReadPage(fresh)
    /\ Ends
    /\ Settle([wish |-> sending, prior |-> prior], sending, turns')
    /\ UNCHANGED <<typed, dropped, posts, wire, wishOf, daemon, reloads, waived, raced>>

(* The read fails, or a read of the tail has released the request already. *)
RecoveryFails ==
    /\ phase = "recovering"
    /\ GivesBack(TRUE)
    /\ UNCHANGED <<record, shown, posts, wire, wishOf, daemon, reloads, waived, raced>>

-----------------------------------------------------------------------------
(* Reads of the tail, time, and the app's end. *)

TailRead ==
    /\ \E fresh \in BOOLEAN : ReadPage(fresh)
    /\ Settle(uncertain, draft, turns')
    /\ UNCHANGED <<typed, dropped, flow, posts, wire, wishOf, daemon, reloads, waived, raced>>

(* PENDING_DELIVERY_TTL_MS is much longer than a request can take. *)
Expires ==
    /\ Unresolved
    /\ phase = "idle"
    /\ record' = [record EXCEPT !.old = TRUE]
    /\ UNCHANGED <<composer, flow, shown, posts, wire, wishOf, daemon, reloads, waived, raced>>

(* A kill loses what is in memory only: keystrokes that were not stored     *)
(* yet, and a prompt that waits in "checking" for the agent's state or its *)
(* writer, since its draft is cleared and its request not recorded.        *)
OnlyInMemory == ({draft} \cup (IF phase = "checking" THEN {sending} ELSE {})) \ {None, stored}

Reload ==
    /\ reloads < MaxReloads
    /\ reloads' = reloads + 1
    /\ draft' = stored
    /\ dropped' = dropped \cup OnlyInMemory
    /\ uncertain' = NoUncertain
    /\ Ends
    /\ turns' = {}
    /\ captured' = FALSE
    /\ wire' = Requested
    /\ UNCHANGED <<typed, stored, record, posts, wishOf, daemon, waived, raced>>

-----------------------------------------------------------------------------
(* The network and the daemon. *)

app == <<composer, flow, record, shown, posts, wishOf, reloads, waived, raced>>

LostOnTheWay(m) ==
    /\ m \in wire /\ m.at = "travelling"
    /\ wire' = wire \ {m}
    /\ UNCHANGED <<app, daemon>>

Answer(m, answer) ==
    wire' = (wire \ {m}) \cup
               (IF phase = "posting" /\ m.post = posts THEN {[m EXCEPT !.at = answer]} ELSE {})

Arrives(m) ==
    /\ m \in wire /\ m.at = "travelling"
    /\ \/ /\ ledger[m.id] = "none"
          /\ ledger' = [ledger EXCEPT ![m.id] = "pending"]
          /\ wire' = (wire \ {m}) \cup {[m EXCEPT !.at = "dispatching"]}
       \/ /\ ledger[m.id] # "none"
          /\ Answer(m, ledger[m.id])
          /\ UNCHANGED ledger
    /\ UNCHANGED <<app, messages>>

(* The agent records the prompt, at once or after the daemon gave up on it. *)
Applies(id) ==
    /\ ledger[id] \in {"pending", "uncertain"}
    /\ id \notin Delivered
    /\ messages' = Append(messages, id)
    /\ UNCHANGED <<app, wire, ledger>>

Accepts(m) ==
    /\ m \in wire /\ m.at = "dispatching" /\ m.id \in Delivered
    /\ ledger' = [ledger EXCEPT ![m.id] = "accepted"]
    /\ Answer(m, "accepted")
    /\ UNCHANGED <<app, messages>>

Refuses(m) ==
    /\ m \in wire /\ m.at = "dispatching" /\ m.id \notin Delivered
    /\ ledger' = [ledger EXCEPT ![m.id] = "none"]
    /\ Answer(m, "refused")
    /\ UNCHANGED <<app, messages>>

(* The answer of the agent is lost; the daemon answers 202, or 500 when it *)
(* cannot write that down.                                                 *)
LosesTrack(m) ==
    /\ m \in wire /\ m.at = "dispatching"
    /\ ledger' = [ledger EXCEPT ![m.id] = "uncertain"]
    /\ Answer(m, "uncertain") \/ Answer(m, "refused")
    /\ UNCHANGED <<app, messages>>

-----------------------------------------------------------------------------
Next ==
    \/ Types \/ Debounce \/ Press
    \/ CheckFails \/ Blocked \/ Post \/ ConnectionBreaks
    \/ RecoveryFinds \/ RecoveryFindsNothing \/ RecoveryFails
    \/ TailRead \/ Expires \/ Reload
    \/ \E m \in wire : Answered(m) \/ LostOnTheWay(m) \/ Arrives(m) \/ Accepts(m) \/ Refuses(m) \/ LosesTrack(m)
    \/ \E id \in Ids : Applies(id)

Spec == Init /\ [][Next]_vars

(* The poll of an open conversation reads the tail again and again. *)
FairSpec == Spec /\ WF_vars(TailRead)

-----------------------------------------------------------------------------
(* What the user wants to send once reaches the Session at most once,      *)
(* however often it is sent again after a lost answer or a kill of the     *)
(* app: unless the app gave its request up, after ten minutes or after an  *)
(* error answer, or it is sent again when its request was resolved.        *)
OncePerWish ==
    \A w \in Wishes \ (waived \cup raced) : Cardinality(DeliveredFor(w)) <= 1

(* What was sent is never lost silently: it is in the Session, in the      *)
(* composer, in the stored draft, or in the durable request that is still  *)
(* unresolved, or it is being sent.                                        *)
NothingVanishes ==
    \A w \in 1..typed :
        \/ w \in waived \cup dropped \cup {draft, stored, sending}
        \/ DeliveredFor(w) # {}
        \/ record # NoRecord /\ wishOf[record.id] = w

(* A prompt that arrived while its request is unresolved comes to be shown *)
(* as a turn, and if that is the newest one its restored draft leaves the  *)
(* composer, unless the app gives the request up first.                    *)
DeliveredIsNoticed ==
    \A w \in Wishes \ Commands :
        (DeliveredFor(w) # {} /\ record # NoRecord /\ wishOf[record.id] = w)
            ~> \/ /\ IsShown(w)
                  /\ uncertain.wish = w /\ draft = w => WishOf(CurrentTurn(turns)) # w
               \/ w \in waived

=============================================================================
