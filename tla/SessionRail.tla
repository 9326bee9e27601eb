------------------------------ MODULE SessionRail ------------------------------
(***************************************************************************)
(* The app's rail of native Sessions over SessionIndex: the probes of the  *)
(* machine and when it counts as offline                                   *)
(* (standalone-universal-workspace.tsx), the discovery that fills the rail *)
(* and is superseded by whatever changes it (native-session-home.tsx), the *)
(* rows marked as being deleted, and the creation of a Session.            *)
(*                                                                         *)
(* One machine with one harness.  Its Sessions are read when it is asked   *)
(* for again, with a listing and, when that fails, an older one; when both *)
(* fail the harness shows none.                                            *)
(***************************************************************************)
EXTENDS SessionIndex

VARIABLES
    reach,     \* of the daemon: "up", "refused" or "silent"
    machine,   \* the runtime of the machine: its state, failures in a row, an error
    probe,     \* a probe of the machine is under way
    rows,      \* records
    loaded,    \* they were read for the machine as it is
    loading,   \* a discovery is under way
    short,     \* the newest discovery failed to read the harness
    deleting,  \* deletingSessionKeys
    confirmed, \* Sessions whose DELETE was answered 200 to the app
    created,   \* Sessions the app was told of, and that the daemon or the harness lists ever since
    mistaken,  \* Sessions that lost their mark when none were read, before they were deleted,
               \* or whose deletion the daemon forgot with their DELETE on its way,
               \* or whose row was deleted before the answer to their creation
    leaked     \* technical Sessions seen before their id was known, or whose id was lost

app == <<machine, probe, rows, loaded, loading, short, deleting>>
history == <<confirmed, created, mistaken, leaked>>
vars == <<indexVars, reach, app, history>>

MACHINE_OFFLINE_FAILURE_THRESHOLD == 3

RailTypeOK ==
    /\ IndexTypeOK
    /\ reach \in {"up", "refused", "silent"}
    /\ machine \in [state : {"loading", "online", "offline"},
                    failures : 0..MACHINE_OFFLINE_FAILURE_THRESHOLD, error : BOOLEAN]
    /\ {probe, loaded, loading, short} \subseteq BOOLEAN
    /\ rows \subseteq Sessions /\ deleting \subseteq Old \cup New
    /\ confirmed \subseteq Old \cup New /\ created \subseteq New
    /\ mistaken \subseteq Sessions /\ leaked \subseteq Technical

Init ==
    /\ IndexInit
    /\ reach = "up"
    /\ machine = [state |-> "loading", failures |-> 0, error |-> FALSE]
    /\ probe = TRUE
    /\ rows = {} /\ loaded = FALSE /\ loading = TRUE /\ short = FALSE
    /\ deleting = {}
    /\ confirmed = {} /\ created = {} /\ mistaken = {} /\ leaked = {}

(* The daemon, the listing of the app apart. *)
idle == <<harness, owned, delete, create, technical, budget, raced>>
quiet == <<deleted, reading, index, outgoing, marked>>

-----------------------------------------------------------------------------
(* Rows that are marked and were not found by a finished discovery lose    *)
(* their mark.                                                             *)
Settle(found, marks) ==
    /\ rows' = found
    /\ deleting' = marks \cap found
    /\ mistaken' = mistaken \cup ((marks \ found) \ deleted)

(* The effect that runs when the machine, the rail's revision or the       *)
(* refresh token has changed: what was being read is ignored.              *)
Discover(m, found, marks) ==
    IF m.state = "offline"
    THEN /\ at' = "idle" /\ gone' = Unread /\ listed' = Unread
         /\ reader' = IF reader = List THEN Nobody ELSE reader
         /\ loaded' = TRUE /\ loading' = FALSE /\ short' = FALSE
         /\ Settle({}, marks)
    ELSE /\ Asks
         /\ loading' = TRUE
         /\ loaded' = (loaded /\ m.state = machine.state)
         /\ rows' = found /\ deleting' = marks
         /\ UNCHANGED <<short, mistaken>>

Sees(m) ==
    /\ machine' = m
    /\ IF m = machine
       THEN UNCHANGED <<reader, listing, rows, loaded, loading, short, deleting, mistaken>>
       ELSE Discover(m, rows, deleting)
    /\ UNCHANGED <<idle, quiet, reach, confirmed, created, leaked>>

ProbeSucceeds ==
    /\ probe /\ reach = "up"
    /\ probe' = FALSE
    /\ Sees([state |-> "online", failures |-> 0, error |-> FALSE])

(* A machine that was online stays so until it failed three times.         *)
(* Slip: however often. *)
LastsForever(failures) ==
    machine.state = "online"

Lasts(failures) ==
    machine.state = "online" /\ failures < MACHINE_OFFLINE_FAILURE_THRESHOLD

ProbeFails ==
    /\ probe /\ reach # "up"
    /\ probe' = FALSE
    /\ LET failures == IF machine.failures = MACHINE_OFFLINE_FAILURE_THRESHOLD
                       THEN machine.failures ELSE machine.failures + 1
       IN Sees([state |-> IF Lasts(failures) THEN "online" ELSE "offline", failures |-> failures, error |-> TRUE])

(* The poll, every ten seconds or, after an error, one and a half; a probe *)
(* that is under way is superseded.  A probe of a machine that refuses     *)
(* ends within that time, one of a machine that is silent takes longer.    *)
(* Polls of a machine that goes on answering change nothing and are left   *)
(* out.                                                                    *)
Tick ==
    /\ machine.state # "loading"
    /\ reach # "up" \/ machine.error \/ budget["outages"] > 0
    /\ ~probe \/ reach = "silent"
    /\ probe' = TRUE
    /\ UNCHANGED <<indexVars, reach, machine, rows, loaded, loading, short, deleting, history>>

(* markSelectedMachineConnectionIssue: the open Session could not be read. *)
ConnectionIssue ==
    /\ reach # "up"
    /\ machine.state = "online"
    /\ ~probe \/ reach = "silent"
    /\ probe' = TRUE
    /\ Sees([machine EXCEPT !.error = TRUE, !.failures = IF @ = 0 THEN 1 ELSE @])

-----------------------------------------------------------------------------
(* The interval of the rail; what is read is answered before the next one. *)
Refresh ==
    /\ loaded /\ at = "idle"
    /\ machine.state = "online"
    /\ Discover(machine, rows, deleting)
    /\ UNCHANGED <<idle, quiet, reach, machine, probe, confirmed, created, leaked>>

Lands ==
    /\ at \in {"answered", "failed"}
    /\ at' = "idle" /\ gone' = Unread /\ listed' = Unread
    /\ loaded' = TRUE /\ loading' = FALSE
    /\ short' = (at = "failed")
    /\ Settle(IF at = "failed" THEN {} ELSE listed, deleting)
    /\ UNCHANGED <<idle, quiet, reader, reach, machine, probe, confirmed, created, leaked>>

(* The connection of a read breaks. *)
ReadBreaks ==
    /\ reach # "up"
    /\ at \in {"global", "fallback"}
    /\ at' = "failed" /\ gone' = Unread /\ listed' = Unread
    /\ reader' = IF reader = List THEN Nobody ELSE reader
    /\ UNCHANGED <<idle, quiet, reach, app, history>>

-----------------------------------------------------------------------------
(* The row stays, marked and disabled. *)
DeleteStarts(s) ==
    /\ s \in rows \ deleting
    /\ delete[s] = "none"
    /\ Spend("deletions")
    /\ deleting' = deleting \cup {s}
    /\ delete' = [delete EXCEPT ![s] = "sent"]
    /\ mistaken' = mistaken \cup {r \in {s} \cap New : create[r] \in {"asked", "answered"}}
    /\ UNCHANGED <<harness, owned, tombstones, create, technical, listing, raced>>
    /\ UNCHANGED <<reach, machine, probe, rows, loaded, loading, short, confirmed, created, leaked>>

DeleteDone(s) ==
    /\ reach = "up"
    /\ Move(s, "answered", "none")
    /\ confirmed' = confirmed \cup {s}
    /\ Discover(machine, rows, deleting)
    /\ UNCHANGED <<harness, owned, quiet, create, technical, budget, raced, reach, machine, probe, created, leaked>>

(* An error, or no answer: the daemon may have deleted it. *)
DeleteFailed(s) ==
    /\ \/ Move(s, "refused", "none") /\ UNCHANGED budget
       \/ Move(s, "answered", "none") /\ Spend("failures")
       \/ reach # "up" /\ delete[s] \in {"sent", "answered"} /\ Move(s, delete[s], "none") /\ UNCHANGED budget
    /\ deleting' = deleting \ {s}
    /\ UNCHANGED <<harness, owned, tombstones, create, technical, listing, raced>>
    /\ UNCHANGED <<reach, machine, probe, rows, loaded, loading, short, history>>

CreateStarts(s) ==
    /\ loaded /\ machine.state = "online"
    /\ create[s] = "none"
    /\ Spend("creations")
    /\ create' = [create EXCEPT ![s] = "asked"]
    /\ UNCHANGED <<harness, owned, tombstones, delete, technical, listing, raced, reach, app, history>>

CreateDone(s) ==
    /\ reach = "up"
    /\ create[s] = "answered"
    /\ create' = [create EXCEPT ![s] = "refused"]
    /\ created' = created \cup ({s} \cap (owned \cup Listed))
    /\ Discover(machine, rows \cup {s}, deleting)
    /\ UNCHANGED <<harness, owned, quiet, delete, technical, budget, raced, reach, machine, probe, confirmed, leaked>>

(* A Session that was made all the same is found by the next discovery. *)
CreateFailed(s) ==
    /\ create[s] \in {"asked", "answered"}
    /\ reach # "up"
    /\ create' = [create EXCEPT ![s] = "refused"]
    /\ UNCHANGED <<harness, owned, tombstones, delete, technical, listing, budget, raced, reach, app, history>>

-----------------------------------------------------------------------------
(* The daemon.  A technical Session that is listed before its id is known  *)
(* here is shown.                                                          *)
Daemon ==
    /\ Works \/ (reach = "up" /\ Serves)
    /\ leaked' = IF catalog.step # "creating" THEN leaked
                 ELSE IF catalog' = Idle THEN leaked \cup {catalog.session}
                 ELSE IF at' = "answered" THEN leaked \cup (listed' \cap {catalog.session})
                 ELSE leaked
    /\ UNCHANGED <<reach, app, confirmed, created, mistaken>>

(* What the daemon had in memory only is lost; a torn state file keeps it  *)
(* from starting.                                                          *)
Crash ==
    /\ Dies
    /\ reach' = IF hiddenFile' = Unread THEN "refused" ELSE reach
    /\ created' = (created \cap Listed) \ deleted
    /\ leaked' = leaked \cup ((Technical \cap exists) \ hiddenFile')
    /\ mistaken' = mistaken \cup {s \in Old \cup New : delete[s] = "sent" /\ s \in deleted \ (index \cup deleting)}
    /\ UNCHANGED <<app, confirmed>>

Drops ==
    /\ reach = "up"
    /\ Spend("outages")
    /\ reach' \in {"refused", "silent"}
    /\ UNCHANGED <<harness, owned, tombstones, delete, create, technical, listing, raced, app, history>>

Returns ==
    /\ reach # "up" /\ Starts
    /\ reach' = "up"
    /\ UNCHANGED <<indexVars, app, history>>

Polls == ProbeSucceeds \/ ProbeFails \/ Tick
Reads == Refresh \/ Lands \/ ReadBreaks

Next ==
    \/ Polls \/ ConnectionIssue \/ Reads
    \/ \E s \in Old \cup New : DeleteStarts(s) \/ DeleteDone(s) \/ DeleteFailed(s)
    \/ \E s \in New : CreateStarts(s) \/ CreateDone(s) \/ CreateFailed(s)
    \/ Daemon \/ Crash \/ Drops \/ Returns

(* The poll and the rail's interval go on, a request has a time limit, and *)
(* the daemon answers what reaches it.                                     *)
Fairness ==
    /\ WF_vars(Polls) /\ WF_vars(Reads)
    /\ WF_vars(IndexRead /\ Daemon)
    /\ WF_vars((ListArrives \/ AdapterLists \/ ListAnswered) /\ Daemon)
    /\ WF_vars((CatalogCreated \/ CatalogSaved) /\ Daemon)
    /\ \A s \in Old \cup New :
        /\ WF_vars((DeleteArrives(s) \/ DeleteListed(s) \/ DeleteUnknown(s) \/ WriteBegins(s) \/ WriteEnds(s)) /\ Daemon)
        /\ WF_vars(DeleteDone(s) \/ DeleteFailed(s))

Spec == Init /\ [][Next]_vars
FairSpec == Spec /\ Fairness

-----------------------------------------------------------------------------
(* A Session whose DELETE the daemon answered is in the rail at most as    *)
(* the row still marked as being deleted: no listing, retry or restart     *)
(* brings it back.  Two behaviours of the code are excepted: a request     *)
(* that passed the index while it was being read, and a mark taken away by *)
(* a read that found nothing.                                              *)
DeletedStaysGone ==
    \A s \in confirmed \ mistaken : ~raced => s \notin rows \ deleting

(* A technical Session is in the rail only when it was listed before the   *)
(* harness had answered with its id, when that answer never came, or when  *)
(* its id was not in the state file when the daemon died.                  *)
TechnicalStaysHidden == rows \cap Technical \subseteq leaked

(* What the rail must not show, it does not come to show again. *)
HiddenStaysHidden == DeletedStaysGone /\ TechnicalStaysHidden

(* What the user created is in every list that was read since, also with a *)
(* harness that lists a Session only from its first prompt on.             *)
CreatedIsListed ==
    machine.state = "online" /\ at = "idle" /\ loaded /\ ~loading /\ ~short
        => created \ deleted \subseteq rows

(* With a machine that answers for good, the rail comes to show what the   *)
(* daemon shows, and no row stays marked; with one that refuses for good,  *)
(* the machine is offline and the rail is empty.  A silent machine is left *)
(* out: the poll supersedes its probe before the probe has failed.         *)
RailFollows ==
    /\ <>[](reach = "up") => <>[](machine.state = "online" /\ rows = Visible /\ (raced \/ deleting = {}))
    /\ <>[](reach = "refused") => <>[](machine.state = "offline" /\ rows = {})

=============================================================================
