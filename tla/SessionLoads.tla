----------------------------- MODULE SessionLoads -----------------------------
(***************************************************************************)
(* The transcript of one Session in the ACP service (acp-service.js): the  *)
(* snapshot it is restored from, the harness's journal, session/load and   *)
(* its replay, session/resume, the single flight of loads, prompts, the    *)
(* snapshot writer and the eviction from the transcript cache.             *)
(*                                                                         *)
(* A transcript is the set of messages it shows: the agent's m of before,  *)
(* the prompt p sent here and what the agent says, r, in its turn or after *)
(* that has ended; how two transcripts are ordered and merged is the       *)
(* subject of Transcripts.                                                 *)
(***************************************************************************)
EXTENDS Naturals

CONSTANTS Readers,   \* calls of messages()
          Openers,   \* calls that need the options of a load
          Prompters, \* calls of prompt()
          Refusals   \* may loads, journal reads and snapshot writes fail?

Callers == Readers \cup Openers \cup Prompters

None == "none"

(* A call is of one kind, and its name no other mark of the state. *)
ASSUME LoadsAssumption ==
    /\ Readers \cap Openers = {} /\ Readers \cap Prompters = {} /\ Openers \cap Prompters = {}
    /\ Callers \cap {None, "unread", "read"} = {}
    /\ Refusals \in BOOLEAN

History == {"m"}
Messages == History \cup {"p", "r"}
ByUser == {"p"}
Mishaps == {"none", "overtaken", "refused"}

(* pageWhileOwned is journalPageWhileOwned, seeds #journalSeedsOwnedTranscript(). *)
Profile(journal, authoritative, pageWhileOwned, resume) ==
    [journal |-> journal, authoritative |-> authoritative,
     seeds |-> ~authoritative /\ ~pageWhileOwned, resume |-> resume]
Claude == Profile(FALSE, FALSE, TRUE, FALSE)
Codex == Profile(TRUE, FALSE, TRUE, FALSE)
Pi == Profile(TRUE, TRUE, TRUE, FALSE)
Omp(resume) == Profile(TRUE, FALSE, FALSE, resume)
Profiles == {Claude, Codex, Pi, Omp(TRUE), Omp(FALSE)}

VARIABLES
    harness,   \* the profile of the Session's harness
    claims,    \* the openers claim the Session; else they ask for its actions or commands
    past,      \* the messages of before: a Session created here has none
    stored,    \* the messages the harness has stored
    mem,       \* #messages of the Session
    loaded, opened, owned, adopted, \* in #loaded, #acpOpenSessions, #ownedSessions, #adoptedSessions
    took,      \* the prompt under way took the writer
    replaying, \* in #replaying
    turnNow,   \* "none", "live", "over"
    spoken,    \* what was said in turns here: the prompt recorded, its reply streamed
    current,   \* the call whose load is in #loads, or None
    callAt,    \* callAt[c]: where a call is
    awaits,    \* awaits[c]: the call whose load c awaits, or None
    previous,  \* previous[c]: previousMessages of the load of c
    toReplay,  \* toReplay[c]: what session/load has still to replay for c
    restore,   \* #restoreSnapshot: "unread", the call that reads it, or "read"
    saved,     \* there is a snapshot file
    file,      \* the messages in it
    writer,    \* "idle", "starting", "writing"
    outgoing,  \* the messages being written
    dirty,     \* in #dirtySnapshots
    mishap     \* "overtaken": the snapshot was read over what it may not hold;
               \* "refused": a load, a read or a write has failed; else "none"

session == <<loaded, opened, owned, adopted, took>>
dialog == <<turnNow, spoken>>
disk == <<saved, file, writer, outgoing, dirty>>
snapshot == <<restore, disk>>
loads == <<current, callAt, awaits, previous, toReplay>>
given == <<harness, claims, past>>
loadsVars == <<given, stored, mem, session, replaying, dialog, loads, snapshot, mishap>>

Loading == {"preparing", "journal", "resuming", "replaying", "settling"}
Stages == {"idle", "restoring", "restored", "pi", "waiting", "done"} \cup Loading

UnderWay == {c \in Callers : callAt[c] \in Loading}
Requires(c) == c \in Openers
JournalBacked == harness.journal /\ (~owned \/ adopted)
JournalOwns == harness.journal /\ (harness.authoritative \/ JournalBacked \/ harness.seeds)
Prompted(S) == S \cap Prompters # {}
Claimed(S) == claims /\ S \cap Openers # {}

(* A Session of before: this bridge may have adopted it, and saved it.     *)
Listed ==
    /\ past = History
    /\ loaded = FALSE /\ opened = FALSE
    /\ adopted \in {FALSE, harness.journal} /\ owned = adopted
    /\ saved \in BOOLEAN
    /\ file \in IF saved /\ ~harness.authoritative /\ ~harness.seeds THEN IF harness.journal THEN {{}, History} ELSE {History}
             ELSE {{}}
    /\ writer = "idle" /\ dirty = FALSE

(* A Session createSession() has made, whose snapshot is to be written: it *)
(* counts as loaded, but not as restored.                                  *)
Created ==
    /\ past = {}
    /\ loaded = TRUE /\ opened = TRUE
    /\ adopted = FALSE /\ owned = TRUE
    /\ saved = FALSE /\ file = {}
    /\ writer = "starting" /\ dirty = TRUE

LoadsInit ==
    /\ harness \in Profiles
    /\ claims \in BOOLEAN
    /\ Listed \/ Created
    /\ stored = past
    /\ mem = {}
    /\ took = FALSE
    /\ replaying = FALSE
    /\ turnNow = "none" /\ spoken = {}
    /\ current = None
    /\ callAt = [c \in Callers |-> "idle"]
    /\ awaits = [c \in Callers |-> None]
    /\ previous = [c \in Callers |-> {}]
    /\ toReplay = [c \in Callers |-> {}]
    /\ restore = "unread"
    /\ outgoing = {}
    /\ mishap = "none"

-----------------------------------------------------------------------------
(* The snapshot writer *)

(* A failure outweighs it. *)
Overtaken == IF mishap = "none" THEN "overtaken" ELSE mishap

(* #persistSnapshot(): a write that is under way will see the mark. *)
Persist ==
    /\ dirty' = TRUE
    /\ writer' = IF writer = "idle" THEN "starting" ELSE writer
    /\ UNCHANGED <<saved, file, outgoing>>

Contents == IF JournalOwns THEN {} ELSE mem

WriterTakes ==
    /\ writer = "starting"
    /\ dirty' = FALSE
    /\ outgoing' = Contents
    /\ writer' = "writing"
    /\ UNCHANGED <<given, stored, mem, session, replaying, dialog, loads, restore, saved, file, mishap>>

(* Slip: the mark is cleared when the write has ended. *)
WriteEndsUnmarked ==
    /\ writer = "writing"
    /\ file' = outgoing /\ saved' = TRUE
    /\ writer' = "idle" /\ outgoing' = {} /\ dirty' = FALSE
    /\ mishap' = IF restore \in Callers THEN Overtaken ELSE mishap
    /\ UNCHANGED <<given, stored, mem, session, replaying, dialog, loads, restore>>

(* The file is renamed into place; what changed meanwhile is written next. *)
(* Who reads the snapshot at that time may have either.                    *)
WriteEnds ==
    /\ writer = "writing"
    /\ file' = outgoing /\ saved' = TRUE
    /\ IF dirty
       THEN outgoing' = Contents /\ dirty' = FALSE /\ UNCHANGED writer
       ELSE writer' = "idle" /\ outgoing' = {} /\ UNCHANGED dirty
    /\ mishap' = IF restore \in Callers THEN Overtaken ELSE mishap
    /\ UNCHANGED <<given, stored, mem, session, replaying, dialog, loads, restore>>

(* The write fails and drops the mark, or times out and keeps it. *)
WriteFails ==
    /\ Refusals /\ writer = "writing"
    /\ writer' = "idle" /\ outgoing' = {}
    /\ dirty' \in {FALSE, dirty}
    /\ mishap' = "refused"
    /\ UNCHANGED <<given, stored, mem, session, replaying, dialog, loads, restore, saved, file>>

-----------------------------------------------------------------------------
(* The single flight of loads *)

Settle(f, S, to) == [c \in Callers |-> IF c \in S THEN to ELSE f[c]]
Waiters(c) == {w \in Callers : callAt[w] = "waiting" /\ awaits[w] = c}

(* What the calls of S do once their load is there: a claim owns the       *)
(* Session, a prompt is recorded and its turn starts, messages() returns.  *)
Return(S, transcript, mine) ==
    /\ mem' = IF Prompted(S) THEN transcript \cup {"p"} ELSE transcript
    /\ owned' = (mine \/ Claimed(S))
    /\ adopted' = (adopted /\ ~Claimed(S) /\ ~Prompted(S))
    /\ turnNow' = IF Prompted(S) THEN "live" ELSE turnNow
    /\ spoken' = IF Prompted(S) THEN spoken \cup {"p"} ELSE spoken
    /\ took' = (took /\ ~Prompted(S))

(* The load of c begins: it reads the snapshot, unless that was begun      *)
(* before, and OMP's action state.                                         *)
Begin(c) ==
    /\ current' = c
    /\ callAt' = [callAt EXCEPT ![c] = "preparing"]
    /\ restore' = IF restore = "unread" THEN c ELSE restore
    /\ UNCHANGED awaits

Join(c) ==
    /\ callAt' = [callAt EXCEPT ![c] = "waiting"]
    /\ awaits' = [awaits EXCEPT ![c] = current]
    /\ UNCHANGED <<current, restore>>

(* #load() when there is something to load: wait for the load in flight,   *)
(* or begin one.                                                           *)
LoadOrJoin(c) ==
    /\ IF current # None THEN Join(c) ELSE Begin(c)
    /\ UNCHANGED <<mem, owned, adopted, took, dialog, previous, toReplay, disk>>

(* #load() of a Session that is loaded and need not be loaded again: the   *)
(* call goes on, whatever load is in flight.                               *)
NothingToLoad(c) ==
    /\ callAt' = [callAt EXCEPT ![c] = "done"]
    /\ Return({c}, mem, owned)
    /\ IF c \in Prompters THEN Persist ELSE UNCHANGED <<disk>>
    /\ UNCHANGED <<current, awaits, previous, toReplay, restore>>

(* Slip: those whom the load does not serve are not woken. *)
HandOverLost(c, out, to, left, each) ==
    /\ callAt' = Settle(callAt, out, to)
    /\ awaits' = Settle(awaits, out, None)
    /\ current' = IF current = c THEN None ELSE current

(* The calls of `out' are through with the load of c.  Of those left, who  *)
(* still need what it did not give, one begins a load of its own and the   *)
(* others wait for that; or each begins its own.                           *)
HandOver(c, out, to, left, each) ==
    \/ /\ left = {}
       /\ callAt' = Settle(callAt, out, to)
       /\ awaits' = Settle(awaits, out, None)
       /\ current' = IF current = c THEN None ELSE current
    \/ /\ left # {} /\ each
       /\ callAt' = Settle(Settle(callAt, out, to), left, "preparing")
       /\ awaits' = Settle(awaits, out \cup left, None)
       /\ current' \in left
    \/ /\ left # {} /\ ~each
       /\ \E next \in left :
            /\ callAt' = Settle([callAt EXCEPT ![next] = "preparing"], out, to)
            /\ awaits' = Settle(Settle(awaits, out \cup {next}, None), left \ {next}, next)
            /\ current' = next

(* The load of c ends well: whoever needs no more than it gave returns. *)
Succeed(c, transcript, mine) ==
    LET served == {c} \cup {w \in Waiters(c) : Requires(c) \/ ~Requires(w)}
    IN  /\ HandOver(c, served, "done", Waiters(c) \ served, FALSE)
        /\ Return(served, transcript, mine)
        /\ loaded' = TRUE
        /\ Persist
        /\ previous' = [previous EXCEPT ![c] = {}]
        /\ toReplay' = [toReplay EXCEPT ![c] = {}]
        /\ UNCHANGED <<restore, mishap>>

(* The load of c fails: so do the waiters who needed the same; others load *)
(* for themselves.  A prompt that took the writer gives it back.           *)
RefuseLoad(c, transcript) ==
    LET out == {c} \cup {w \in Waiters(c) : Requires(w) = Requires(c)}
    IN  /\ Refusals
        /\ mishap' = "refused"
        /\ HandOver(c, out, "done", Waiters(c) \ out, Requires(c))
        /\ mem' = transcript
        /\ owned' = (owned /\ ~(Prompted(out) /\ took))
        /\ took' = (took /\ ~Prompted(out))
        /\ previous' = [previous EXCEPT ![c] = {}]
        /\ toReplay' = [toReplay EXCEPT ![c] = {}]
        /\ UNCHANGED <<loaded, opened, adopted, dialog, snapshot>>

-----------------------------------------------------------------------------
(* Calls *)

(* messages() and claimSession() restore the snapshot first, unless that   *)
(* was begun before.                                                       *)
Restore(c) ==
    /\ callAt[c] = "idle" /\ restore = "unread"
    /\ c \in Readers \/ (c \in Openers /\ claims)
    /\ callAt' = [callAt EXCEPT ![c] = "restoring"]
    /\ restore' = c
    /\ UNCHANGED <<given, stored, mem, session, replaying, dialog, current, awaits, previous, toReplay,
                   disk, mishap>>

Restored(c) == callAt[c] = "restored" \/ (callAt[c] = "idle" /\ restore # "unread")

(* PI asks its journal, the others load, anew if the journal is the        *)
(* authority.                                                              *)
Read(c) ==
    /\ c \in Readers /\ Restored(c)
    /\ IF harness.authoritative
       THEN /\ callAt' = [callAt EXCEPT ![c] = "pi"]
            /\ UNCHANGED <<mem, owned, adopted, took, dialog, current, awaits, previous, toReplay, snapshot>>
       ELSE IF loaded /\ ~JournalBacked THEN NothingToLoad(c) ELSE LoadOrJoin(c)
    /\ UNCHANGED <<given, stored, loaded, opened, replaying, mishap>>

(* claimSession(): a Session that is owned, or that this adapter opened,   *)
(* is claimed without a load, unless it was only adopted.                  *)
Claim(c) ==
    /\ c \in Openers /\ claims /\ Restored(c)
    /\ IF (owned \/ opened) /\ ~adopted
       THEN /\ callAt' = [callAt EXCEPT ![c] = "done"]
            /\ owned' = TRUE
            /\ IF owned THEN UNCHANGED <<disk>> ELSE Persist
            /\ UNCHANGED <<mem, adopted, took, dialog, current, awaits, previous, toReplay, restore>>
       ELSE LoadOrJoin(c)
    /\ UNCHANGED <<given, stored, loaded, opened, replaying, mishap>>

(* actions() or commands() without a command catalog. *)
Catalog(c) ==
    /\ c \in Openers /\ ~claims /\ callAt[c] = "idle"
    /\ LoadOrJoin(c)
    /\ UNCHANGED <<given, stored, loaded, opened, replaying, mishap>>

(* prompt() takes the writer before its load. *)
Prompt(c) ==
    /\ c \in Prompters /\ callAt[c] = "idle"
    /\ IF harness.journal /\ ~owned
       THEN /\ owned' = TRUE /\ took' = TRUE /\ loaded' = FALSE
            /\ IF current # None THEN Join(c) ELSE Begin(c)
            /\ UNCHANGED <<mem, adopted, dialog, previous, toReplay, disk>>
       ELSE /\ IF loaded THEN NothingToLoad(c) ELSE LoadOrJoin(c)
            /\ UNCHANGED loaded
    /\ UNCHANGED <<given, stored, opened, replaying, mishap>>

(* messages() of PI: the journal, with what is shown here of a busy        *)
(* Session; an idle Session shows the journal alone.                       *)
JournalShown(c) ==
    /\ callAt[c] = "pi"
    /\ mem' = IF turnNow = "live" THEN stored \cup mem ELSE stored
    /\ loaded' = TRUE
    /\ callAt' = [callAt EXCEPT ![c] = "done"]
    /\ Persist
    /\ UNCHANGED <<given, stored, opened, owned, adopted, took, replaying, dialog, current, awaits,
                   previous, toReplay, restore, mishap>>

(* ... and a journal that cannot be read leaves it to the load. *)
JournalRefused(c) ==
    /\ Refusals /\ callAt[c] = "pi"
    /\ mishap' = "refused"
    /\ IF loaded /\ ~JournalBacked THEN NothingToLoad(c) ELSE LoadOrJoin(c)
    /\ UNCHANGED <<given, stored, loaded, opened, replaying>>

-----------------------------------------------------------------------------
(* Steps of a load *)

(* The transcript may be ahead of its snapshot: in a turn, with a change   *)
(* not written yet, by what the journal gave, in a load that has looked at *)
(* it.                                                                     *)
Ahead ==
    \/ turnNow = "live" \/ writer # "idle" \/ dirty
    \/ JournalOwns /\ mem # {}
    \/ \E c \in UnderWay : callAt[c] # "preparing"

(* The snapshot is read: what it holds replaces what there is.  Whoever    *)
(* comes after the one who reads it does not wait for that.                *)
SnapshotRead(c) ==
    /\ restore = c
    /\ restore' = "read"
    /\ mem' = IF saved THEN file ELSE mem
    /\ mishap' = IF saved /\ Ahead THEN Overtaken ELSE mishap
    /\ callAt' = [callAt EXCEPT ![c] = IF callAt[c] = "restoring" THEN "restored" ELSE callAt[c]]
    /\ UNCHANGED <<given, stored, session, replaying, dialog, current, awaits, previous, toReplay,
                   disk>>

(* session/load is sent: the transcript is blank until its replay. *)
Blank(c) ==
    /\ callAt' = [callAt EXCEPT ![c] = "replaying"]
    /\ mem' = {}
    /\ replaying' = TRUE
    /\ toReplay' = [toReplay EXCEPT ![c] = stored]

(* #loadSession() keeps what there is and goes on to the journal or the    *)
(* replay.                                                                 *)
Prepared(c) ==
    /\ callAt[c] = "preparing" /\ restore # c
    /\ previous' = [previous EXCEPT ![c] = mem]
    /\ IF harness.journal
       THEN callAt' = [callAt EXCEPT ![c] = "journal"] /\ UNCHANGED <<mem, replaying, toReplay>>
       ELSE Blank(c)
    /\ UNCHANGED <<given, stored, session, dialog, current, awaits, snapshot, mishap>>

(* With or without a replay, as the adapter can. *)
AskAdapter(c, transcript) ==
    /\ previous' = [previous EXCEPT ![c] = transcript]
    /\ IF harness.seeds /\ harness.resume
       THEN /\ mem' = transcript
            /\ callAt' = [callAt EXCEPT ![c] = "resuming"]
            /\ UNCHANGED <<replaying, toReplay>>
       ELSE Blank(c)
    /\ UNCHANGED <<loaded, opened, owned, adopted, took, dialog, current, awaits, snapshot>>

(* The journal is read.  OMP's replaces the transcript as long as nothing  *)
(* here writes the Session, as it is opened, and to refill it; another     *)
(* harness's is merged into it.  A load that only wants the transcript of  *)
(* a Session whose authority is the journal ends here.                     *)
JournalRead(c) ==
    LET seed == JournalBacked \/ ~opened \/ previous[c] = {}
        transcript == IF ~harness.seeds THEN stored \cup previous[c]
                      ELSE IF seed THEN stored ELSE previous[c]
    IN  /\ callAt[c] = "journal"
        /\ IF JournalBacked /\ ~Requires(c)
           THEN Succeed(c, transcript, owned) /\ UNCHANGED <<opened, replaying>>
           ELSE AskAdapter(c, transcript) /\ UNCHANGED mishap
        /\ UNCHANGED <<given, stored>>

(* A journal that cannot be read fails the load of OMP; other harnesses    *)
(* have their replay.                                                      *)
JournalUnread(c) ==
    /\ Refusals /\ callAt[c] = "journal"
    /\ IF harness.seeds
       THEN RefuseLoad(c, previous[c]) /\ UNCHANGED replaying
       ELSE AskAdapter(c, previous[c]) /\ mishap' = "refused"
    /\ UNCHANGED <<given, stored>>

Resumed(c) ==
    /\ callAt[c] = "resuming"
    /\ Succeed(c, mem, owned)
    /\ opened' = TRUE
    /\ UNCHANGED <<given, stored, replaying>>

ResumeRefused(c) ==
    /\ callAt[c] = "resuming"
    /\ RefuseLoad(c, mem)
    /\ UNCHANGED <<given, stored, replaying>>

(* The messages are replayed in their order. *)
Place == [m |-> 1, p |-> 2, r |-> 3]
First(S) == CHOOSE m \in S : \A n \in S : Place[m] <= Place[n]

(* A replayed message.  While nothing is being replayed any more, it is    *)
(* what the live stream makes of it: the agent's only for a prompted       *)
(* Session.                                                                *)
Replay(c) ==
    /\ toReplay[c] # {}
    /\ toReplay' = [toReplay EXCEPT ![c] = @ \ {First(@)}]
    /\ mem' = IF replaying \/ turnNow # "none" \/ First(toReplay[c]) \in ByUser
              THEN mem \cup {First(toReplay[c])} ELSE mem
    /\ UNCHANGED <<given, stored, session, replaying, dialog, current, callAt, awaits, previous,
                   snapshot, mishap>>

(* Slip: the replay is the transcript. *)
ReplayOnly(c) ==
    mem

(* mergeReplay() of what was kept and what was replayed. *)
Merged(c) ==
    previous[c] \cup mem

(* session/load is answered.  PI answers before its last messages, waits   *)
(* for them, and is claimed by the load.                                   *)
LoadAnswered(c) ==
    /\ callAt[c] = "replaying"
    /\ IF harness.authoritative
       THEN /\ callAt' = [callAt EXCEPT ![c] = "settling"]
            /\ owned' = TRUE
            /\ UNCHANGED <<mem, loaded, adopted, took, replaying, dialog, current, awaits, previous,
                           toReplay, snapshot, mishap>>
       ELSE /\ toReplay[c] = {}
            /\ Succeed(c, Merged(c), owned)
            /\ replaying' = FALSE
    /\ opened' = TRUE
    /\ UNCHANGED <<given, stored>>

ReplaySettled(c) ==
    /\ callAt[c] = "settling"
    /\ Succeed(c, Merged(c), owned)
    /\ replaying' = FALSE
    /\ UNCHANGED <<given, stored, opened>>

LoadRefused(c) ==
    /\ callAt[c] = "replaying"
    /\ RefuseLoad(c, previous[c])
    /\ replaying' = FALSE
    /\ UNCHANGED <<given, stored>>

-----------------------------------------------------------------------------
(* The turn, the harness and the cache *)

ReplyArrives ==
    /\ turnNow = "live"
    /\ mem' = mem \cup {"r"}
    /\ spoken' = spoken \cup {"r"}
    /\ UNCHANGED <<given, stored, session, replaying, turnNow, loads, snapshot, mishap>>

(* The agent goes on after its turn has ended: the chunk is taken, and     *)
(* nothing is marked to be saved.                                          *)
LateChunk ==
    /\ turnNow = "over"
    /\ mem' = mem \cup {"r"}
    /\ UNCHANGED <<given, stored, session, replaying, dialog, loads, snapshot, mishap>>

TurnIsOver ==
    /\ turnNow = "live"
    /\ turnNow' = "over"
    /\ Persist
    /\ UNCHANGED <<given, stored, mem, session, replaying, spoken, loads, restore, mishap>>

(* The harness writes down what was said, late or not. *)
HarnessStores ==
    /\ ~(spoken \cup mem) \subseteq stored
    /\ stored' = stored \cup spoken \cup mem
    /\ UNCHANGED <<given, mem, session, replaying, dialog, loads, snapshot, mishap>>

(* Calls between two awaits: they go on before anything else happens. *)
Waiting == {c \in Callers : callAt[c] = "restored"}

(* The transcript cache drops the Session (onEvict), and with it what is   *)
(* known of its load, snapshot and prompts; not in the middle of a read.   *)
EvictIdle ==
    /\ mem # {}
    /\ turnNow # "live" /\ ~replaying /\ current = None /\ Waiting = {}
    /\ restore \notin Callers
    /\ writer = "idle" /\ ~dirty
    /\ mem' = {}
    /\ loaded' = FALSE
    /\ restore' = "unread"
    /\ turnNow' = "none"
    /\ UNCHANGED <<given, stored, opened, owned, adopted, took, replaying, spoken, loads, disk, mishap>>

-----------------------------------------------------------------------------
Step(c) ==
    \/ SnapshotRead(c) \/ JournalShown(c) \/ JournalRefused(c)
    \/ Prepared(c) \/ JournalRead(c) \/ JournalUnread(c)
    \/ Resumed(c) \/ ResumeRefused(c)
    \/ Replay(c) \/ LoadAnswered(c) \/ ReplaySettled(c) \/ LoadRefused(c)

LoadsNext ==
    \/ \E c \in Callers : Restore(c) \/ Read(c) \/ Claim(c) \/ Catalog(c) \/ Prompt(c) \/ Step(c)
    \/ WriterTakes \/ WriteEnds \/ WriteFails
    \/ ReplyArrives \/ LateChunk \/ TurnIsOver \/ HarnessStores
    \/ EvictIdle

LoadsSpec == LoadsInit /\ [][LoadsNext]_loadsVars

(* Reads and writes of the disk end; requests are answered or time out;    *)
(* what the adapter replays arrives.  Each call takes finitely many steps, *)
(* so that it is enough that some step is taken.                           *)
LoadsProgress ==
    \/ \E c \in Callers : Step(c) \/ (callAt[c] = "restored" /\ (Read(c) \/ Claim(c)))
    \/ WriterTakes \/ WriteEnds \/ WriteFails

LoadsFairSpec == LoadsSpec /\ WF_loadsVars(LoadsProgress)

-----------------------------------------------------------------------------
LoadsTypeOK ==
    /\ harness \in Profiles /\ claims \in BOOLEAN /\ past \subseteq History
    /\ stored \subseteq Messages /\ mem \subseteq Messages /\ spoken \subseteq Messages
    /\ {loaded, opened, owned, adopted, took, replaying, saved, dirty} \subseteq BOOLEAN
    /\ mishap \in Mishaps
    /\ turnNow \in {"none", "live", "over"}
    /\ current \in Callers \cup {None}
    /\ callAt \in [Callers -> Stages]
    /\ awaits \in [Callers -> Callers \cup {None}]
    /\ previous \in [Callers -> SUBSET Messages]
    /\ toReplay \in [Callers -> SUBSET Messages]
    /\ restore \in {"unread", "read"} \cup Callers
    /\ file \subseteq Messages /\ outgoing \subseteq Messages
    /\ writer \in {"idle", "starting", "writing"}

AtRest == UnderWay = {} /\ restore \notin Callers

(* Blanking, replaying and merging lose nothing: between loads that all    *)
(* succeeded, and as long as no snapshot was read over what it could not   *)
(* hold, a loaded Session shows the conversation it had before and, on a   *)
(* harness whose only record is this stream, what was said in its turns    *)
(* since; and until one fails, none runs beside another (acp-service.js:   *)
(* 1572 "Two loads must never overlap on one session").                    *)
WholeBetweenLoads ==
    mishap # "refused" =>
        /\ \A c, d \in UnderWay : c = d
        /\ mishap = "none" /\ AtRest /\ loaded => past \subseteq mem
        /\ mishap = "none" /\ AtRest /\ loaded /\ ~harness.journal => spoken \subseteq mem

(* Once nothing is being written, no write failed and no snapshot was read *)
(* over what it could not hold, the snapshot of a Session that has no      *)
(* other record holds what it shows between turns, except what its agent   *)
(* said late: the marks taken before a write lose no later change.         *)
SnapshotCatchesUp ==
    /\ AtRest /\ loaded /\ mishap = "none"
    /\ writer = "idle" /\ turnNow # "live" /\ ~harness.journal
    => file \cap (past \cup spoken) = mem \cap (past \cup spoken)

(* Whoever waits for whose load, again and again no call waits. *)
CallsSettle ==
    []<>(\A c \in Callers : callAt[c] \in {"idle", "done"})

=============================================================================
