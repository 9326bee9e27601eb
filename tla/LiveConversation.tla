--------------------------- MODULE LiveConversation ---------------------------
(***************************************************************************)
(* How an open conversation follows its Session in the app: the throttled  *)
(* reads that events cause (taskdesk-session-live-refresh.ts), the         *)
(* coalesced reads of the transcript's newest page                         *)
(* (coalesced-tail-refresh.ts, message-pages.ts) and the reconciling poll  *)
(* (work-thread-conversation.tsx), over a subscription (EventStreams) that *)
(* is connected or not and may lose what was sent on it.                   *)
(*                                                                         *)
(* An event says that something changed, never what: transcripts and       *)
(* Session states are version numbers, and every reply extends the one     *)
(* before it.  The conversation is one that stays open.                    *)
(***************************************************************************)
EXTENDS Naturals

CONSTANTS MaxSaid,   \* bound: versions of the transcript
          MaxStatus, \* bound: versions of the Session's state
          MaxLinks   \* bound: connections of the subscription

ASSUME LiveAssumption == {MaxSaid, MaxStatus, MaxLinks} \subseteq Nat

VARIABLES
    polling,   \* the conversation polls, and its reads may fail
    said,      \* the transcript at the daemon, as a version
    status,    \* the state of the Session at the daemon, as a version
    linked,    \* the subscription is connected
    links,     \* how often it was
    sent,      \* the kinds of the events sent on it and not read
    visible,   \* the page is visible
    timers,    \* the timers set
    pending,   \* a read of the newest page waits for the one under way
    tailRead,  \* that read: "idle", "asked", "answered"
    answer,    \* the version it was answered
    recon,     \* the reconciliation: "idle", "asked", "answered", "tail"
    seen,      \* the Session state it was answered
    shown,     \* the transcript shown
    pill,      \* the Session state shown
    told       \* without the poll: the newest transcript the app was told of

daemon == <<said, status>>
stream == <<linked, links, sent>>
readers == <<pending, tailRead, answer, recon, seen, shown, pill>>
liveVars == <<polling, daemon, stream, visible, timers, readers, told>>

Kinds == {"message", "status"}
TimerNames == {"message", "index", "settle", "foreground"}

LiveTypeOK ==
    /\ {polling, linked, visible, pending} \subseteq BOOLEAN
    /\ {said, shown, answer, told} \subseteq 0..MaxSaid
    /\ {status, seen, pill} \subseteq 0..MaxStatus
    /\ links \in 0..MaxLinks
    /\ sent \subseteq Kinds
    /\ timers \subseteq TimerNames
    /\ tailRead \in {"idle", "asked", "answered"}
    /\ recon \in {"idle", "asked", "answered", "tail"}

LiveInit ==
    /\ polling \in BOOLEAN
    /\ said = 0 /\ status = 0
    /\ linked = FALSE /\ links = 0 /\ sent = {}
    /\ visible = TRUE
    /\ timers = {}
    /\ pending = FALSE /\ tailRead = "idle" /\ answer = 0
    /\ recon = "idle" /\ seen = 0
    /\ shown = 0 /\ pill = 0
    /\ told = 0

-----------------------------------------------------------------------------
(* The daemon: a change is told on a connected stream, and a second one of *)
(* a kind that was not read yet has no effect of its own.                  *)

Tell(kind) ==
    /\ sent' = IF linked THEN sent \cup {kind} ELSE sent
    /\ UNCHANGED <<polling, linked, links, visible, timers, readers, told>>

Talks == said < MaxSaid /\ said' = said + 1 /\ UNCHANGED status /\ Tell("message")

BeginsOrEnds == status < MaxStatus /\ status' = status + 1 /\ UNCHANGED said /\ Tell("status")

(* The fan-out had lost its upstream meanwhile: the client is told neither *)
(* of the change nor of the gap.                                           *)
TalksUnheard ==
    /\ polling
    /\ said < MaxSaid
    /\ said' = said + 1
    /\ UNCHANGED <<polling, status, stream, visible, timers, readers, told>>

-----------------------------------------------------------------------------
(* The subscription. *)

(* What the page does about a connected stream, and about an event.  It may *)
(* be suspended while it is not visible, and then the event is gone.       *)
ThrottledIndexOnly(kind) ==
    CASE kind = "message" -> {"message"}
      [] kind = "status" -> {"message", "index", "settle"}
      [] kind = "connected" -> {"index"}

Throttled(kind) ==
    {"message"} \cup (IF kind = "message" THEN {} ELSE {"index"})
                \cup (IF kind = "status" THEN {"settle"} ELSE {})

IsTold == told' = IF polling THEN told ELSE said

Hear(kinds) ==
    /\ \/ timers' = timers \cup UNION {Throttled(kind) : kind \in kinds} /\ IsTold
       \/ ~visible /\ UNCHANGED <<timers, told>>
    /\ UNCHANGED <<polling, daemon, visible, readers>>

Connected ==
    /\ ~linked /\ links < MaxLinks
    /\ linked' = TRUE
    /\ links' = links + 1
    /\ UNCHANGED sent
    /\ Hear({"connected"})

EventsRead == sent # {} /\ sent' = {} /\ UNCHANGED <<linked, links>> /\ Hear(sent)

Disconnected ==
    /\ linked
    /\ linked' = FALSE
    /\ sent' = {}
    /\ UNCHANGED <<polling, daemon, links, visible, timers, readers, told>>

-----------------------------------------------------------------------------
(* The reads. *)

(* refreshCurrentTail through createCoalescedTailRefresh.                  *)
RefreshOrDrop ==
    /\ tailRead' = IF tailRead = "idle" THEN "asked" ELSE tailRead
    /\ UNCHANGED <<pending, answer>>

Refresh ==
    /\ tailRead' = IF tailRead = "idle" THEN "asked" ELSE tailRead
    /\ pending' = (tailRead # "idle")
    /\ UNCHANGED answer

Reconcile ==
    recon' = IF recon = "idle" THEN "asked" ELSE recon

noRead == <<polling, daemon, stream, visible, told>>

TailAnswered ==
    /\ tailRead = "asked"
    /\ tailRead' = "answered"
    /\ answer' = said
    /\ UNCHANGED <<noRead, timers, pending, recon, seen, shown, pill>>

DrainGoesOn ==
    /\ tailRead' = IF pending THEN "asked" ELSE "idle"
    /\ pending' = FALSE

(* mergeLatestMessagePage: a page that is behind what is shown leaves it.  *)
TailLands ==
    /\ tailRead = "answered"
    /\ shown' = IF answer > shown THEN answer ELSE shown
    /\ DrainGoesOn
    /\ UNCHANGED <<noRead, timers, answer, recon, seen, pill>>

(* A read that fails has no effect anywhere: one that never reached the    *)
(* daemon is one whose answer was lost.                                    *)
TailFails ==
    /\ polling
    /\ tailRead = "answered"
    /\ DrainGoesOn
    /\ UNCHANGED <<noRead, timers, answer, recon, seen, shown, pill>>

StateAnswered ==
    /\ recon = "asked"
    /\ recon' = "answered"
    /\ seen' = status
    /\ UNCHANGED <<noRead, timers, pending, tailRead, answer, shown, pill>>

StateLands ==
    /\ recon = "answered"
    /\ pill' = seen
    /\ recon' = "tail"
    /\ Refresh
    /\ UNCHANGED <<noRead, timers, seen, shown>>

StateFails ==
    /\ polling
    /\ recon = "answered"
    /\ recon' = "idle"
    /\ UNCHANGED <<noRead, timers, pending, tailRead, answer, seen, shown, pill>>

ReconcileStaysInFlight ==
    /\ recon = "tail"
    /\ tailRead = "idle"
    /\ UNCHANGED liveVars

ReconcileEnds ==
    /\ recon = "tail"
    /\ tailRead = "idle"
    /\ recon' = "idle"
    /\ UNCHANGED <<noRead, timers, pending, tailRead, answer, seen, shown, pill>>

-----------------------------------------------------------------------------
(* The timers of startTaskDeskSessionLiveRefresh, the page's visibility,   *)
(* and the poll.                                                           *)

MessageFires ==
    /\ "message" \in timers
    /\ timers' = timers \ {"message"}
    /\ Refresh
    /\ UNCHANGED <<noRead, recon, seen, shown, pill>>

IndexFires ==
    /\ "index" \in timers
    /\ timers' = timers \ {"index"}
    /\ Reconcile
    /\ UNCHANGED <<noRead, pending, tailRead, answer, seen, shown, pill>>

SettleFires ==
    /\ "settle" \in timers
    /\ timers' = timers \ {"settle"}
    /\ Refresh
    /\ Reconcile
    /\ UNCHANGED <<noRead, seen, shown, pill>>

ForegroundFires ==
    /\ "foreground" \in timers
    /\ timers' = timers \ {"foreground"}
    /\ Refresh
    /\ Reconcile
    /\ UNCHANGED <<noRead, seen, shown, pill>>

Hides ==
    /\ visible
    /\ visible' = FALSE
    /\ UNCHANGED <<polling, daemon, stream, timers, readers, told>>

(* Coming back to the foreground right after such a refresh causes none.    *)
Shows ==
    /\ ~visible
    /\ visible' = TRUE
    /\ \/ UNCHANGED <<timers, told>>
       \/ timers' = timers \cup {"foreground"} /\ IsTold
    /\ UNCHANGED <<polling, daemon, stream, readers>>

Polls ==
    /\ polling
    /\ visible
    /\ Reconcile
    /\ UNCHANGED <<noRead, timers, pending, tailRead, answer, seen, shown, pill>>

LiveNext ==
    \/ Talks \/ TalksUnheard \/ BeginsOrEnds
    \/ Connected \/ EventsRead \/ Disconnected
    \/ TailAnswered \/ TailLands \/ TailFails
    \/ StateAnswered \/ StateLands \/ StateFails \/ ReconcileEnds
    \/ MessageFires \/ IndexFires \/ SettleFires \/ ForegroundFires
    \/ Hides \/ Shows \/ Polls

LiveSpec == LiveInit /\ [][LiveNext]_liveVars

(* Timers fire, requests are answered, and reads that are made again and   *)
(* again succeed at last.  The page may stay hidden, and nothing has to be *)
(* delivered.                                                              *)
LiveFairness ==
    /\ WF_liveVars(MessageFires) /\ WF_liveVars(IndexFires)
    /\ WF_liveVars(SettleFires) /\ WF_liveVars(ForegroundFires)
    /\ WF_liveVars(TailAnswered) /\ SF_liveVars(TailLands)
    /\ WF_liveVars(StateAnswered) /\ SF_liveVars(StateLands)
    /\ SF_liveVars(ReconcileEnds) /\ WF_liveVars(Polls)

LiveFairSpec == LiveSpec /\ LiveFairness

-----------------------------------------------------------------------------
(* Without any poll: what the app was told of is shown, or a read that     *)
(* will show it is under way, waits for the one under way, or has a timer. *)
(* A timer that fires into a read takes a turn in its queue, and is never  *)
(* satisfied by the answer of a read that was asked before it was told.    *)
HeardIsOnItsWay ==
    ~polling => \/ shown >= told
                \/ timers \cap {"message", "settle", "foreground"} # {}
                \/ tailRead = "asked"
                \/ tailRead = "answered" /\ (pending \/ answer >= told)

(* What is shown never goes back, nor does the state of the Session: the   *)
(* answers of reads and reconciliations land in the order of the questions.*)
NothingGoesBack == [][shown' >= shown /\ pill' >= pill]_liveVars

(* Without any poll: once the app heard an event, was connected again or   *)
(* came back to the foreground, it comes to show at least what had been    *)
(* said by then, however the reads and the bursts of events overlap.       *)
HeardIsShown ==
    \A v \in 1..MaxSaid : (~polling /\ told = v) ~> (shown >= v)

(* With the poll: a conversation that stays open and visible comes to show *)
(* every change, also one whose event was lost on the way, was dropped     *)
(* because a reconciliation was under way, or whose read failed.           *)
PollCatchesUp ==
    \A v \in 1..MaxSaid, s \in 0..MaxStatus :
        (polling /\ said = v /\ status = s) ~> ((shown >= v /\ pill >= s) \/ ~visible)

=============================================================================
