------------------------------ MODULE SessionIndex ------------------------------
(***************************************************************************)
(* Which Sessions of one ACP harness the daemon shows: the harness's own   *)
(* listing, less the Sessions deleted here, whose ids are in memory and in *)
(* an index file (acp-service.js), less the technical Sessions of the      *)
(* model catalog (agent-model-catalog.js), plus the Sessions this daemon   *)
(* created, which a harness may list only later (server.js).               *)
(*                                                                         *)
(* DELETE leaves the harness alone: the tombstones are all there is of it, *)
(* one in the index and one in the snapshot of the transcript, which only  *)
(* some requests read.  The catalog has an adapter process of its own,     *)
(* over the same native Sessions.                                          *)
(***************************************************************************)
EXTENDS Naturals, FiniteSets

CONSTANTS Old,       \* Sessions the harness has from the start
          New,       \* Sessions that may be created here
          Technical, \* Sessions the model catalog may create
          Budgets    \* bounds: how often each of Events may happen in a behaviour

Sessions == Old \cup New \cup Technical
List == "the listing"
Nobody == "nobody"
Unread == {"unread"}
Events == {"crashes", "failures", "outages", "deletions", "creations", "technicals"}
Idle == [step |-> "idle", session |-> Nobody]

ASSUME IndexAssumption ==
    /\ Old \cap New = {} /\ Old \cap Technical = {} /\ New \cap Technical = {}
    /\ {List, Nobody, "unread"} \cap Sessions = {}
    /\ Budgets \subseteq [Events -> Nat]

VARIABLES
    late,       \* the harness lists a Session from its first prompt on
    exists,     \* the harness's Sessions
    spoken,     \* ... that have been prompted
    owned,      \* #ownedSessions
    deleted,    \* #deletedSessions
    reading,    \* the index file: "unread", "reading", "read"
    reader,     \* the request that reads it
    index,      \* the ids in it
    outgoing,   \* the ids being written to it
    marked,     \* Sessions whose snapshot says that they are deleted
    delete,     \* delete[s]: where the DELETE of s is
    create,     \* create[s]: where the POST that creates s is
    hidden,     \* hiddenSessionIDs
    hiddenFile, \* the ids in the state file of the catalog; Unread when it is torn
    catalog,    \* the technical Session being made, and how far it is
    at,         \* the GET of the listing: "idle", "global", "fallback", "answered", "failed"
    gone,       \* the deleted ids it has read, or Unread
    listed,     \* the adapter's answer to it, or Unread
    budget,     \* how often each of Events may still happen
    raced       \* some request passed the index while another was reading it

harness == <<late, exists, spoken>>
tombstones == <<deleted, reading, reader, index, outgoing, marked>>
technical == <<hidden, hiddenFile, catalog>>
listing == <<at, gone, listed>>
indexVars == <<harness, owned, tombstones, delete, create, technical, listing, budget, raced>>

IndexTypeOK ==
    /\ {late, raced} \subseteq BOOLEAN
    /\ exists \subseteq Sessions /\ spoken \subseteq exists
    /\ owned \subseteq New /\ deleted \subseteq Sessions
    /\ reading \in {"unread", "reading", "read"}
    /\ reader \in Sessions \cup {List, Nobody}
    /\ index \subseteq Sessions /\ outgoing \subseteq Sessions /\ marked \subseteq Sessions
    /\ delete \in [Old \cup New -> {"none", "sent", "index", "listing", "queued", "writing", "answered", "refused"}]
    /\ create \in [New -> {"none", "asked", "answered", "refused"}]
    /\ hidden \subseteq Technical /\ hiddenFile \in (SUBSET Technical) \cup {Unread}
    /\ catalog \in [step : {"idle", "creating", "saving"}, session : Technical \cup {Nobody}]
    /\ at \in {"idle", "global", "fallback", "answered", "failed"}
    /\ {gone, listed} \subseteq (SUBSET Sessions) \cup {Unread}

IndexInit ==
    /\ late \in BOOLEAN
    /\ exists = Old /\ spoken = Old
    /\ owned = {}
    /\ deleted = {} /\ reading = "unread" /\ reader = Nobody /\ index = {} /\ outgoing = {} /\ marked = {}
    /\ delete = [s \in Old \cup New |-> "none"]
    /\ create = [s \in New |-> "none"]
    /\ hidden = {} /\ hiddenFile = {} /\ catalog = Idle
    /\ at = "idle" /\ gone = Unread /\ listed = Unread
    /\ budget \in Budgets
    /\ raced = FALSE

Spend(what) ==
    /\ budget[what] > 0
    /\ budget' = [budget EXCEPT ![what] = @ - 1]

(* session/list *)
Listed == IF late THEN exists \cap spoken ELSE exists

(* listVisibleSessionMetadata: the listing, with ownedSessionIndex() over it. *)
(* Slip: without the overlay. *)
VisibleListed(sessions, mine, tombs) ==
    sessions \ (hidden \cup tombs)

VisibleOf(sessions, mine, tombs) ==
    (sessions \cup mine) \ (hidden \cup tombs)

Visible == VisibleOf(Listed, owned, deleted)

-----------------------------------------------------------------------------
(* #restoreDeletedSessionIndex: the first to ask reads the file and waits; *)
(* the flag is set before the read, so whoever asks meanwhile does not.    *)
Awaits(r) ==
    /\ reading = "unread"
    /\ reading' = "reading"
    /\ reader' = r
    /\ UNCHANGED <<deleted, index, outgoing, marked, raced>>

Passes ==
    /\ reading # "unread"
    /\ raced' = (raced \/ reading = "reading")
    /\ UNCHANGED tombstones

Move(s, from, to) ==
    /\ delete[s] = from
    /\ delete' = [delete EXCEPT ![s] = to]

IndexRead ==
    /\ reading = "reading"
    /\ reading' = "read"
    /\ reader' = Nobody
    /\ deleted' = deleted \cup index
    /\ IF reader = List THEN gone' = deleted' /\ UNCHANGED <<delete, at, listed>>
       ELSE IF reader = Nobody THEN UNCHANGED <<delete, listing>>
       ELSE Move(reader, "index", "listing") /\ UNCHANGED listing
    /\ UNCHANGED <<harness, owned, index, outgoing, marked, create, technical, budget, raced>>

(* The request that reads it fails; the next one tries again. *)
IndexUnreadable ==
    /\ reading = "reading"
    /\ Spend("failures")
    /\ reading' = "unread"
    /\ reader' = Nobody
    /\ IF reader = List THEN at' = (IF at = "global" THEN "fallback" ELSE "failed")
                             /\ gone' = Unread /\ listed' = Unread /\ UNCHANGED delete
       ELSE IF reader = Nobody THEN UNCHANGED <<delete, listing>>
       ELSE Move(reader, "index", "refused") /\ UNCHANGED listing
    /\ UNCHANGED <<harness, owned, deleted, index, outgoing, marked, create, technical, raced>>

-----------------------------------------------------------------------------
(* DELETE /session/:id *)
DeleteArrives(s) ==
    /\ \/ Awaits(s) /\ Move(s, "sent", "index")
       \/ Passes /\ Move(s, "sent", "listing")
    /\ UNCHANGED <<harness, owned, create, technical, listing, budget>>

(* #refreshSessions is answered: the Session is marked deleted in memory;  *)
(* for one that is already marked the index is written again.              *)
DeleteListed(s) ==
    /\ s \in Listed \cup owned \cup deleted \cup marked
    /\ Move(s, "listing", "queued")
    /\ deleted' = deleted \cup {s}
    /\ UNCHANGED <<harness, owned, reading, reader, index, outgoing, marked, create, technical, listing, budget, raced>>

DeleteUnknown(s) ==
    /\ s \notin Listed \cup owned \cup deleted \cup marked
    /\ Move(s, "listing", "refused")
    /\ UNCHANGED <<harness, owned, tombstones, create, technical, listing, budget, raced>>

DeleteFails(s) ==
    /\ Spend("failures")
    /\ Move(s, "listing", "refused")
    /\ UNCHANGED <<harness, owned, tombstones, create, technical, listing, raced>>

(* #persistDeletedSessionIndex: one write after the other, each with the   *)
(* ids of its own start, into a temporary file that is renamed.  What was  *)
(* held of the Session is dropped after it, and its snapshot written; who  *)
(* answers does not wait for that, so that it may never be.                *)
WriteBegins(s) ==
    /\ \A r \in DOMAIN delete : delete[r] # "writing"
    /\ Move(s, "queued", "writing")
    /\ outgoing' = deleted
    /\ UNCHANGED <<harness, owned, deleted, reading, reader, index, marked, create, technical, listing, budget, raced>>

(* Slip: with the id of this DELETE only. *)
WriteEndsAlone(s) ==
    /\ Move(s, "writing", "answered")
    /\ index' = {s}
    /\ owned' = owned \ {s}
    /\ marked' \in {marked, marked \cup {s}}
    /\ UNCHANGED <<harness, deleted, reading, reader, outgoing, create, technical, listing, budget, raced>>

WriteEnds(s) ==
    /\ Move(s, "writing", "answered")
    /\ index' = outgoing
    /\ owned' = owned \ {s}
    /\ marked' \in {marked, marked \cup {s}}
    /\ UNCHANGED <<harness, deleted, reading, reader, outgoing, create, technical, listing, budget, raced>>

WriteFails(s) ==
    /\ Spend("failures")
    /\ Move(s, "writing", "refused")
    /\ UNCHANGED <<harness, owned, tombstones, create, technical, listing, raced>>

Deleting(s) ==
    \/ DeleteListed(s) \/ DeleteUnknown(s) \/ DeleteFails(s)
    \/ WriteBegins(s) \/ WriteEnds(s) \/ WriteFails(s)

-----------------------------------------------------------------------------
(* POST /session: the writer of a new Session is here. *)
CreateArrives(s) ==
    /\ create[s] = "asked"
    /\ create' = [create EXCEPT ![s] = "answered"]
    /\ exists' = exists \cup {s}
    /\ owned' = owned \cup {s}
    /\ UNCHANGED <<late, spoken, tombstones, delete, technical, listing, budget, raced>>

CreateFails(s) ==
    /\ create[s] = "asked"
    /\ Spend("failures")
    /\ create' = [create EXCEPT ![s] = "refused"]
    /\ UNCHANGED <<harness, owned, tombstones, delete, technical, listing, raced>>

(* The first prompt, which makes the Session known to every harness. *)
Speaks(s) ==
    /\ s \in owned \ spoken
    /\ spoken' = spoken \cup {s}
    /\ UNCHANGED <<late, exists, owned, tombstones, delete, create, technical, listing, budget, raced>>

(* #newCatalogSession: the technical Session exists before its id is known *)
(* here, and is hidden before its id is in the file.                       *)
CatalogAsks(t) ==
    /\ catalog = Idle
    /\ t \notin exists
    /\ Spend("technicals")
    /\ catalog' = [step |-> "creating", session |-> t]
    /\ exists' = exists \cup {t}
    /\ UNCHANGED <<late, spoken, owned, tombstones, delete, create, hidden, hiddenFile, listing, raced>>

CatalogCreated ==
    /\ catalog.step = "creating"
    /\ catalog' = [catalog EXCEPT !.step = "saving"]
    /\ hidden' = hidden \cup {catalog.session}
    /\ UNCHANGED <<harness, owned, tombstones, delete, create, hiddenFile, listing, budget, raced>>

(* The deadline, or the end of the adapter: the id of the Session that was *)
(* made is never known here.                                               *)
CatalogGivesUp ==
    /\ catalog.step = "creating"
    /\ Spend("failures")
    /\ catalog' = Idle
    /\ UNCHANGED <<harness, owned, tombstones, delete, create, hidden, hiddenFile, listing, raced>>

(* #saveState, over the old file.                                          *)
CatalogSaved ==
    /\ catalog.step = "saving"
    /\ catalog' = Idle
    /\ hiddenFile' = hidden
    /\ UNCHANGED <<harness, owned, tombstones, delete, create, hidden, listing, budget, raced>>

CatalogUnsaved ==
    /\ catalog.step = "saving"
    /\ Spend("failures")
    /\ catalog' = Idle
    /\ UNCHANGED <<harness, owned, tombstones, delete, create, hidden, hiddenFile, listing, raced>>

-----------------------------------------------------------------------------
(* GET of the listing.  The global one awaits the deleted ids and the      *)
(* adapter side by side; the one the app falls back to, one after the      *)
(* other, and filters by the ids deleted when it ends.                     *)
Asks ==
    /\ gone' = Unread /\ listed' = Unread
    /\ reader' = IF reader = List THEN Nobody ELSE reader
    /\ at' = "global"

ListArrives ==
    /\ at \in {"global", "fallback"}
    /\ gone = Unread
    /\ reader # List
    /\ \/ Awaits(List) /\ UNCHANGED gone
       \/ Passes /\ gone' = deleted
    /\ UNCHANGED <<harness, owned, delete, create, technical, at, listed, budget>>

AdapterLists ==
    /\ at = "global" \/ (at = "fallback" /\ gone # Unread)
    /\ listed = Unread
    /\ listed' = Listed
    /\ UNCHANGED <<harness, owned, tombstones, delete, create, technical, at, gone, budget, raced>>

(* What the app will see is put in listed.  The fallback has read the      *)
(* snapshot of every Session it lists.                                     *)
ListAnswered ==
    /\ at \in {"global", "fallback"}
    /\ gone # Unread /\ listed # Unread
    /\ deleted' = IF at = "global" THEN deleted ELSE deleted \cup ((listed \cup owned) \cap marked)
    /\ listed' = VisibleOf(listed, owned, IF at = "global" THEN gone ELSE deleted')
    /\ at' = "answered"
    /\ UNCHANGED <<harness, owned, reading, reader, index, outgoing, marked, delete, create, technical, gone, budget, raced>>

ListFails ==
    /\ at \in {"global", "fallback"}
    /\ Spend("failures")
    /\ at' = IF at = "global" THEN "fallback" ELSE "failed"
    /\ gone' = Unread /\ listed' = Unread
    /\ reader' = IF reader = List THEN Nobody ELSE reader
    /\ UNCHANGED <<harness, owned, deleted, reading, index, outgoing, marked, delete, create, technical, raced>>

-----------------------------------------------------------------------------
(* preloadState(): the hidden ids are known before the daemon serves.      *)
(* Slip: they are read with the first request of the catalog. *)
HiddenLater(file) ==
    {}

Preloaded(file) ==
    IF file = Unread THEN {} ELSE file

(* The daemon dies and is started again.  A state file that was being      *)
(* written may be torn, and then it does not start.                        *)
Dies ==
    /\ Spend("crashes")
    /\ owned' = {} /\ deleted' = {} /\ reading' = "unread" /\ reader' = Nobody /\ outgoing' = {}
    /\ hiddenFile' \in IF catalog.step = "saving" THEN {hiddenFile, hidden, Unread} ELSE {hiddenFile}
    /\ hidden' = Preloaded(hiddenFile')
    /\ catalog' = Idle
    /\ delete' = [s \in DOMAIN delete |-> IF delete[s] \in {"index", "listing", "queued", "writing"} THEN "refused" ELSE delete[s]]
    /\ create' = [s \in New |-> IF create[s] = "asked" THEN "refused" ELSE create[s]]
    /\ IF at \in {"global", "fallback"}
       THEN at' = "failed" /\ gone' = Unread /\ listed' = Unread
       ELSE UNCHANGED listing
    /\ UNCHANGED <<harness, index, marked, raced>>

Starts == hiddenFile # Unread

(* What needs the connection of the app, and what goes on without it.      *)
Serves ==
    \/ ListArrives \/ AdapterLists \/ ListAnswered \/ ListFails
    \/ \E s \in Old \cup New : DeleteArrives(s)
    \/ \E s \in New : CreateArrives(s)

Works ==
    \/ IndexRead \/ IndexUnreadable
    \/ \E s \in Old \cup New : Deleting(s)
    \/ \E s \in New : CreateFails(s) \/ Speaks(s)
    \/ \E t \in Technical : CatalogAsks(t)
    \/ CatalogCreated \/ CatalogGivesUp \/ CatalogSaved \/ CatalogUnsaved

=============================================================================
