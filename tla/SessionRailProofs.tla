--------------------------- MODULE SessionRailProofs ---------------------------
(***************************************************************************)
(* What TLAPS proves of SessionRail, for any Sessions and any numbers of   *)
(* deletions, creations, crashes, failures and outages: what the rail must *)
(* not show it does not come to show again (HiddenStaysHidden), and what   *)
(* the user created is in every list read since (CreatedIsListed).         *)
(*                                                                         *)
(* The inductive invariant follows a Session's name through the places it  *)
(* is copied to on its way into the rail: the harness's listing, the       *)
(* tombstones in memory and in the index file, those that a listing has    *)
(* read, the adapter's answer to it, what was answered to the app, and the *)
(* rows.                                                                   *)
(***************************************************************************)
EXTENDS SessionRail, TLAPS

Deletable == Old \cup New

DeleteStages == {"none", "sent", "index", "listing", "queued", "writing", "answered", "refused"}
CreateStages == {"none", "asked", "answered", "refused"}

(* RailTypeOK and three facts more: an answered listing was read, the      *)
(* daemon owns what exists, and the catalog works on a technical Session.  *)
DaemonTypeInv ==
    /\ late \in BOOLEAN /\ raced \in BOOLEAN
    /\ exists \subseteq Sessions /\ spoken \subseteq exists
    /\ owned \subseteq New /\ owned \subseteq exists
    /\ deleted \subseteq Sessions /\ index \subseteq Sessions /\ outgoing \subseteq Sessions /\ marked \subseteq Sessions
    /\ reading \in {"unread", "reading", "read"}
    /\ reader \in Sessions \/ reader \in {List, Nobody}
    /\ delete \in [Old \cup New -> DeleteStages]
    /\ create \in [New -> CreateStages]
    /\ hidden \subseteq Technical /\ (hiddenFile \subseteq Technical \/ hiddenFile = Unread)
    /\ catalog \in [step : {"idle", "creating", "saving"}, session : Technical \cup {Nobody}]
    /\ catalog.step # "idle" => catalog.session \in Technical
    /\ at \in {"idle", "global", "fallback", "answered", "failed"}
    /\ gone \subseteq Sessions \/ gone = Unread
    /\ listed \subseteq Sessions \/ listed = Unread
    /\ at = "answered" => listed \subseteq Sessions

AppTypeInv ==
    /\ reach \in {"up", "refused", "silent"}
    /\ machine \in [state : {"loading", "online", "offline"},
                    failures : 0..MACHINE_OFFLINE_FAILURE_THRESHOLD, error : BOOLEAN]
    /\ probe \in BOOLEAN /\ loaded \in BOOLEAN /\ loading \in BOOLEAN /\ short \in BOOLEAN
    /\ rows \subseteq Sessions /\ deleting \subseteq Deletable
    /\ confirmed \subseteq Deletable /\ created \subseteq New
    /\ mistaken \subseteq Sessions /\ leaked \subseteq Technical

TypeInv == DaemonTypeInv /\ AppTypeInv

(* A step of the app that changes nothing of the daemon: it leaves the     *)
(* list alone, or begins a discovery, or finds the machine offline.        *)
StaysPut == UNCHANGED <<at, gone, listed, rows, loaded, loading, short, deleting, mistaken, machine>>

Rediscovers(found, marks) ==
    /\ gone' = Unread /\ listed' = Unread
    /\ loaded' \in BOOLEAN /\ short' \in BOOLEAN
    /\ \/ /\ machine'.state = "offline" /\ at' = "idle" /\ loading' = FALSE
          /\ rows' = {} /\ deleting' = {}
          /\ mistaken' = mistaken \cup (marks \ deleted)
       \/ /\ machine'.state # "offline" /\ at' = "global" /\ loading' = TRUE
          /\ rows' = found /\ deleting' = marks
          /\ mistaken' = mistaken

server == <<harness, owned, quiet, delete, create, technical, raced>>

Looks ==
    /\ UNCHANGED <<server, confirmed, created, leaked>>
    /\ reader' \in {reader, Nobody} /\ probe' \in BOOLEAN
    /\ reach' \in {"up", "refused", "silent"}
    /\ machine' \in [state : {"loading", "online", "offline"},
                     failures : 0..MACHINE_OFFLINE_FAILURE_THRESHOLD, error : BOOLEAN]
    /\ StaysPut \/ Rediscovers(rows, deleting)

LEMMA DiscoverIs ==
    ASSUME TypeInv, NEW m, NEW found, NEW marks \in SUBSET Deletable, Discover(m, found, marks), machine' = m
    PROVE  Rediscovers(found, marks) /\ reader' \in {reader, Nobody}
<1>1. loaded \in BOOLEAN /\ short \in BOOLEAN
  BY DEF TypeInv, AppTypeInv
<1>2. CASE m.state = "offline"
  BY <1>1, <1>2 DEF Discover, Settle, Rediscovers
<1>3. CASE m.state # "offline"
  BY <1>1, <1>3 DEF Discover, Asks, Rediscovers
<1> QED
  BY <1>2, <1>3

LEMMA SeesIs ==
    ASSUME TypeInv, NEW m, Sees(m), probe' \in BOOLEAN,
           m \in [state : {"loading", "online", "offline"},
                  failures : 0..MACHINE_OFFLINE_FAILURE_THRESHOLD, error : BOOLEAN]
    PROVE  Looks
<1>1. UNCHANGED <<server, confirmed, created, leaked>> /\ machine' = m /\ reach' \in {"up", "refused", "silent"}
  BY DEF Sees, server, idle, TypeInv, AppTypeInv
<1>2. CASE m = machine
  BY <1>1, <1>2 DEF Sees, Looks, StaysPut, listing
<1>3. CASE m # machine
  <2>1. deleting \in SUBSET Deletable
    BY DEF TypeInv, AppTypeInv
  <2> QED
    BY <1>1, <1>3, <2>1, DiscoverIs DEF Sees, Looks
<1> QED
  BY <1>2, <1>3

LEMMA LookIs ==
    ASSUME TypeInv,
           \/ ProbeSucceeds \/ ProbeFails \/ Tick \/ ConnectionIssue \/ Refresh \/ Drops \/ Returns
           \/ UNCHANGED vars
    PROVE  Looks
<1> DEFINE M == [state : {"loading", "online", "offline"},
                 failures : 0..MACHINE_OFFLINE_FAILURE_THRESHOLD, error : BOOLEAN]
<1>1. /\ machine \in M /\ MACHINE_OFFLINE_FAILURE_THRESHOLD = 3 /\ probe \in BOOLEAN
      /\ deleting \in SUBSET Deletable /\ reach \in {"up", "refused", "silent"}
  BY DEF TypeInv, AppTypeInv, MACHINE_OFFLINE_FAILURE_THRESHOLD
<1>2. CASE ProbeSucceeds
  <2>1. [state |-> "online", failures |-> 0, error |-> FALSE] \in M
    BY <1>1
  <2> QED
    BY <1>2, <2>1, SeesIs DEF ProbeSucceeds
<1>3. CASE ProbeFails
  <2> DEFINE f == IF machine.failures = MACHINE_OFFLINE_FAILURE_THRESHOLD
                  THEN machine.failures ELSE machine.failures + 1
             m == [state |-> IF Lasts(f) THEN "online" ELSE "offline", failures |-> f, error |-> TRUE]
  <2>1. m \in M
    BY <1>1
  <2>2. Sees(m) /\ probe' = FALSE
    BY <1>3 DEF ProbeFails
  <2> HIDE DEF m
  <2> QED
    BY <2>1, <2>2, SeesIs
<1>4. CASE ConnectionIssue
  <2> DEFINE m == [machine EXCEPT !.error = TRUE, !.failures = IF @ = 0 THEN 1 ELSE @]
  <2>1. m \in M
    <3> DEFINE n == IF machine.failures = 0 THEN 1 ELSE machine.failures
    <3>1. machine.state \in {"loading", "online", "offline"} /\ machine.failures \in 0..3
          /\ machine = [state |-> machine.state, failures |-> machine.failures, error |-> machine.error]
      BY <1>1
    <3>2. n \in 0..3
      BY <3>1
    <3>3. m = [machine EXCEPT !.error = TRUE, !.failures = n]
      OBVIOUS
    <3> HIDE DEF n, m
    <3>4. m = [state |-> machine.state, failures |-> n, error |-> TRUE]
      BY <3>1, <3>3
    <3> QED
      BY <1>1, <3>1, <3>2, <3>4
  <2>2. Sees(m) /\ probe' = TRUE
    BY <1>4 DEF ConnectionIssue
  <2> HIDE DEF m
  <2> QED
    BY <2>1, <2>2, SeesIs
<1>5. CASE Refresh
  <2>1. Discover(machine, rows, deleting) /\ UNCHANGED <<server, reach, machine, probe, confirmed, created, leaked>>
    BY <1>5 DEF Refresh, server, idle
  <2>2. Rediscovers(rows, deleting) /\ reader' \in {reader, Nobody}
    BY <1>1, <2>1, DiscoverIs
  <2> HIDE DEF M
  <2> QED
    BY <1>1, <2>1, <2>2 DEF Looks, M
<1>6. CASE Tick \/ Drops \/ Returns \/ UNCHANGED vars
  BY <1>1, <1>6 DEF Tick, Drops, Returns, vars, Looks, StaysPut, server, indexVars, harness, quiet, tombstones,
                    technical, listing, app, history
<1> QED
  BY <1>2, <1>3, <1>4, <1>5, <1>6

-----------------------------------------------------------------------------
(* Types. *)

LEMMA Names ==
    /\ Unread \notin SUBSET Sessions /\ Unread \notin SUBSET Technical
    /\ Deletable \subseteq Sessions /\ New \subseteq Sessions /\ Technical \subseteq Sessions /\ Old \subseteq Sessions
    /\ New \cap Technical = {} /\ Deletable \cap Technical = {}
    /\ Nobody \notin Sessions /\ List \notin Sessions
BY IndexAssumption DEF Unread, Sessions, Deletable

LEMMA LookTypes ==
    ASSUME TypeInv, Looks
    PROVE  TypeInv'
<1>1. DaemonTypeInv'
  BY DEF TypeInv, DaemonTypeInv, Looks, StaysPut, Rediscovers, server, harness, quiet, technical
<1>2. AppTypeInv'
  <2>1. deleting \subseteq Sessions
    BY Names DEF TypeInv, AppTypeInv
  <2> QED
    BY <2>1 DEF TypeInv, AppTypeInv, Looks, StaysPut, Rediscovers
<1> QED
  BY <1>1, <1>2 DEF TypeInv

LEMMA AppTypes ==
    ASSUME TypeInv,
           \/ Lands \/ ReadBreaks
           \/ \E s \in Old \cup New : DeleteStarts(s) \/ DeleteDone(s) \/ DeleteFailed(s)
           \/ \E s \in New : CreateStarts(s) \/ CreateDone(s) \/ CreateFailed(s)
    PROVE  TypeInv'
<1> USE DEF TypeInv, AppTypeInv, DaemonTypeInv, harness, quiet, tombstones, idle, technical, app, history, listing
<1>0. deleting \subseteq Sessions
  BY Names
<1>1. CASE Lands
  <2>1. rows' \subseteq Sessions /\ deleting' \subseteq deleting /\ mistaken' \subseteq mistaken \cup deleting
    BY <1>1 DEF Lands, Settle
  <2>2. DaemonTypeInv'
    BY <1>1 DEF Lands
  <2>3. AppTypeInv'
    BY <1>0, <1>1, <2>1 DEF Lands
  <2> QED
    BY <2>2, <2>3
<1>2. CASE ReadBreaks
  BY <1>2 DEF ReadBreaks
<1>3. ASSUME NEW s \in Old \cup New, DeleteStarts(s) PROVE TypeInv'
  <2>1. s \in Sessions /\ s \in Deletable
    BY Names DEF Deletable
  <2>2. delete' \in [Old \cup New -> DeleteStages]
    BY <1>3 DEF DeleteStarts, DeleteStages
  <2> QED
    BY <1>3, <2>1, <2>2 DEF DeleteStarts
<1>4. ASSUME NEW s \in Old \cup New, DeleteFailed(s) PROVE TypeInv'
  <2>1. delete' \in [Old \cup New -> DeleteStages]
    BY <1>4 DEF DeleteFailed, Move, DeleteStages
  <2> QED
    BY <1>4, <2>1 DEF DeleteFailed
<1>5. ASSUME NEW s \in Old \cup New, DeleteDone(s) PROVE TypeInv'
  <2>1. Rediscovers(rows, deleting) /\ reader' \in {reader, Nobody}
    BY <1>5, DiscoverIs DEF DeleteDone
  <2>2. delete' \in [Old \cup New -> DeleteStages]
    BY <1>5 DEF DeleteDone, Move, DeleteStages
  <2>4. DaemonTypeInv'
    BY <1>5, <2>1, <2>2 DEF DeleteDone, Rediscovers
  <2>5. AppTypeInv'
    BY <1>0, <1>5, <2>1, Names DEF DeleteDone, Rediscovers, Deletable
  <2> QED
    BY <2>4, <2>5
<1>6. ASSUME NEW s \in New, CreateStarts(s) PROVE TypeInv'
  <2>1. create' \in [New -> CreateStages]
    BY <1>6 DEF CreateStarts, CreateStages
  <2> QED
    BY <1>6, <2>1 DEF CreateStarts
<1>7. ASSUME NEW s \in New, CreateDone(s) PROVE TypeInv'
  <2>1. Rediscovers(rows \cup {s}, deleting) /\ reader' \in {reader, Nobody}
    BY <1>7, DiscoverIs DEF CreateDone
  <2>2. create' \in [New -> CreateStages]
    BY <1>7 DEF CreateDone, CreateStages
  <2>3. s \in Sessions
    BY Names
  <2>4. DaemonTypeInv'
    BY <1>7, <2>1, <2>2 DEF CreateDone, Rediscovers
  <2>5. AppTypeInv'
    BY <1>0, <1>7, <2>1, <2>3, Names DEF CreateDone, Rediscovers, Deletable
  <2> QED
    BY <2>4, <2>5
<1>8. ASSUME NEW s \in New, CreateFailed(s) PROVE TypeInv'
  <2>1. create' \in [New -> CreateStages]
    BY <1>8 DEF CreateFailed, CreateStages
  <2> QED
    BY <1>8, <2>1 DEF CreateFailed
<1> QED
  BY <1>1, <1>2, <1>3, <1>4, <1>5, <1>6, <1>7, <1>8

LEMMA DaemonTypes ==
    ASSUME TypeInv, Daemon
    PROVE  TypeInv'
<1>1. AppTypeInv'
  <2>1. UNCHANGED <<reach, app, confirmed, created, mistaken>>
    BY DEF Daemon
  <2>2. leaked' \subseteq leaked \cup {catalog.session} /\ (catalog.step # "creating" => leaked' = leaked)
    BY DEF Daemon
  <2> QED
    BY <2>1, <2>2 DEF TypeInv, AppTypeInv, DaemonTypeInv, app
<1>2. DaemonTypeInv'
  <2> USE Names DEF TypeInv, DaemonTypeInv, harness, tombstones, technical, listing
  <2>1. CASE IndexRead
    <3>1. delete' \in [Old \cup New -> DeleteStages]
      BY <2>1 DEF IndexRead, Move, DeleteStages
    <3>2. /\ deleted' \subseteq Sessions /\ UNCHANGED <<at, listed>> /\ (gone' = gone \/ gone' \subseteq Sessions)
      BY <2>1 DEF IndexRead
    <3> QED
      BY <2>1, <3>1, <3>2 DEF IndexRead
  <2>2. CASE IndexUnreadable
    <3>1. delete' \in [Old \cup New -> DeleteStages]
      BY <2>2 DEF IndexUnreadable, Move, DeleteStages
    <3> QED
      BY <2>2, <3>1 DEF IndexUnreadable
  <2>3. ASSUME NEW s \in Old \cup New, Deleting(s) PROVE DaemonTypeInv'
    <3>1. delete' \in [Old \cup New -> DeleteStages] /\ s \in Sessions
      BY <2>3 DEF Deleting, DeleteListed, DeleteUnknown, DeleteFails, WriteBegins, WriteEnds, WriteFails, Move,
                  DeleteStages, Deletable
    <3> QED
      BY <2>3, <3>1 DEF Deleting, DeleteListed, DeleteUnknown, DeleteFails, WriteBegins, WriteEnds, WriteFails
  <2>4. ASSUME NEW s \in Old \cup New, DeleteArrives(s) PROVE DaemonTypeInv'
    <3>1. delete' \in [Old \cup New -> DeleteStages] /\ s \in Sessions
      BY <2>4 DEF DeleteArrives, Move, DeleteStages, Deletable
    <3>2. CASE Awaits(s)
      BY <2>4, <3>1, <3>2 DEF DeleteArrives, Awaits
    <3>3. CASE Passes
      BY <2>4, <3>1, <3>3 DEF DeleteArrives, Passes
    <3> QED
      BY <2>4, <3>2, <3>3 DEF DeleteArrives
  <2>5. ASSUME NEW s \in New, CreateArrives(s) \/ CreateFails(s) \/ Speaks(s) PROVE DaemonTypeInv'
    <3>1. create' \in [New -> CreateStages] /\ s \in Sessions
      BY <2>5 DEF CreateArrives, CreateFails, Speaks, CreateStages
    <3> QED
      BY <2>5, <3>1 DEF CreateArrives, CreateFails, Speaks
  <2>6. ASSUME NEW t \in Technical, CatalogAsks(t) PROVE DaemonTypeInv'
    BY <2>6 DEF CatalogAsks
  <2>7. CASE CatalogCreated \/ CatalogGivesUp \/ CatalogSaved \/ CatalogUnsaved
    BY <2>7 DEF CatalogCreated, CatalogGivesUp, CatalogSaved, CatalogUnsaved, Idle
  <2>8. CASE ListArrives
    BY <2>8 DEF ListArrives, Awaits, Passes
  <2>9. CASE AdapterLists
    BY <2>9 DEF AdapterLists, Listed
  <2>10. CASE ListAnswered
    <3>1. listed' \subseteq listed \cup owned /\ deleted' \subseteq deleted \cup marked
      BY <2>10 DEF ListAnswered, VisibleOf
    <3> QED
      BY <2>10, <3>1 DEF ListAnswered
  <2>11. CASE ListFails
    BY <2>11 DEF ListFails
  <2> QED
    BY <2>1, <2>2, <2>3, <2>4, <2>5, <2>6, <2>7, <2>8, <2>9, <2>10, <2>11 DEF Daemon, Works, Serves
<1> QED
  BY <1>1, <1>2 DEF TypeInv

LEMMA CrashTypes ==
    ASSUME TypeInv, Crash
    PROVE  TypeInv'
<1> USE Names DEF TypeInv, DaemonTypeInv, AppTypeInv, harness, listing, app
<1>1. hiddenFile' \subseteq Technical \/ hiddenFile' = Unread
  BY DEF Crash, Dies
<1>2. hidden' \subseteq Technical
  BY <1>1 DEF Crash, Dies, Preloaded
<1>3. delete' \in [Old \cup New -> DeleteStages] /\ create' \in [New -> CreateStages]
  BY DEF Crash, Dies, DeleteStages, CreateStages
<1>4. mistaken' \subseteq mistaken \cup Deletable /\ leaked' \subseteq leaked \cup Technical
  BY DEF Crash, Deletable
<1>5. created' \subseteq created /\ reach' \in {"up", "refused", "silent"}
  BY DEF Crash
<1> QED
  BY <1>1, <1>2, <1>3, <1>4, <1>5 DEF Crash, Dies, Idle

LEMMA TypeStep ==
    ASSUME TypeInv, [Next]_vars
    PROVE  TypeInv'
BY LookIs, LookTypes, AppTypes, DaemonTypes, CrashTypes DEF Next, Polls, Reads

LEMMA TypeInit == Init => TypeInv
<1> SUFFICES ASSUME Init PROVE TypeInv
  OBVIOUS
<1> USE Names DEF Init, IndexInit, Idle, DeleteStages, CreateStages, MACHINE_OFFLINE_FAILURE_THRESHOLD
<1>1. DaemonTypeInv
  BY DEF DaemonTypeInv
<1>2. AppTypeInv
  <2>1. machine = [state |-> "loading", failures |-> 0, error |-> FALSE] /\ 0 \in 0..3
    OBVIOUS
  <2>2. machine \in [state : {"loading", "online", "offline"}, failures : 0..3, error : BOOLEAN]
    BY <2>1
  <2> QED
    BY <2>2 DEF AppTypeInv
<1> QED
  BY <1>1, <1>2 DEF TypeInv

-----------------------------------------------------------------------------
(* The catalog's technical Sessions. *)

Early == {"global", "fallback"}

(* A technical Session is hidden, unless the harness has made it and not   *)
(* answered yet, or it leaked: then no listing shows it.                   *)
TechnicalInv ==
    /\ \A t \in exists \cap Technical :
          \/ t \in hidden \cup leaked
          \/ catalog.step = "creating" /\ catalog.session = t
    /\ at \in Early /\ listed # Unread => listed \subseteq exists
    /\ at = "answered" => listed \cap Technical \subseteq leaked
    /\ TechnicalStaysHidden

LEMMA LookTechnical ==
    ASSUME TypeInv, TechnicalInv, Looks
    PROVE  TechnicalInv'
BY DEF TechnicalInv, TechnicalStaysHidden, Early, Looks, StaysPut, Rediscovers, server, harness, technical

LEMMA AppTechnical ==
    ASSUME TypeInv, TechnicalInv,
           \/ Lands \/ ReadBreaks
           \/ \E s \in Old \cup New : DeleteStarts(s) \/ DeleteDone(s) \/ DeleteFailed(s)
           \/ \E s \in New : CreateStarts(s) \/ CreateDone(s) \/ CreateFailed(s)
    PROVE  TechnicalInv'
<1> USE DEF TechnicalInv, TechnicalStaysHidden, Early, harness, idle, technical, listing
<1>0. deleting \in SUBSET Deletable
  BY DEF TypeInv, AppTypeInv
<1>1. CASE Lands
  BY <1>1 DEF Lands, Settle
<1>2. CASE ReadBreaks
  BY <1>2 DEF ReadBreaks, app, history
<1>3. ASSUME NEW s \in Old \cup New, DeleteStarts(s) \/ DeleteFailed(s) PROVE TechnicalInv'
  BY <1>3 DEF DeleteStarts, DeleteFailed, history
<1>4. ASSUME NEW s \in Old \cup New, DeleteDone(s) PROVE TechnicalInv'
  <2>1. Rediscovers(rows, deleting)
    BY <1>0, <1>4, DiscoverIs DEF DeleteDone
  <2> QED
    BY <1>4, <2>1 DEF DeleteDone, Rediscovers
<1>5. ASSUME NEW s \in New, CreateDone(s) PROVE TechnicalInv'
  <2>1. Rediscovers(rows \cup {s}, deleting) /\ s \notin Technical
    BY <1>0, <1>5, DiscoverIs, Names DEF CreateDone
  <2> QED
    BY <1>5, <2>1 DEF CreateDone, Rediscovers
<1>6. ASSUME NEW s \in New, CreateStarts(s) \/ CreateFailed(s) PROVE TechnicalInv'
  BY <1>6 DEF CreateStarts, CreateFailed, app, history
<1> QED
  BY <1>1, <1>2, <1>3, <1>4, <1>5, <1>6

LEMMA DaemonTechnical ==
    ASSUME TypeInv, TechnicalInv, Daemon
    PROVE  TechnicalInv'
<1> USE DEF TechnicalInv, TechnicalStaysHidden, Early, harness, technical, listing
<1>1. /\ UNCHANGED rows /\ leaked \subseteq leaked'
      /\ at' = "answered" /\ catalog.step = "creating" => listed' \cap {catalog.session} \subseteq leaked'
  BY DEF Daemon, app
<1>2. ASSUME UNCHANGED <<exists, hidden, catalog>>,
             UNCHANGED <<at, listed>> \/ (at' \notin {"answered"} /\ (listed' = listed \/ listed' = Unread)),
             at' \in Early => at \in Early
      PROVE  TechnicalInv'
  BY <1>1, <1>2
<1>3. ASSUME NEW s \in Old \cup New, Deleting(s) \/ DeleteArrives(s) PROVE TechnicalInv'
  BY <1>2, <1>3 DEF Deleting, DeleteListed, DeleteUnknown, DeleteFails, WriteBegins, WriteEnds, WriteFails, DeleteArrives
<1>4. CASE IndexRead \/ IndexUnreadable
  <2>1. UNCHANGED <<exists, hidden, catalog>>
    BY <1>4 DEF IndexRead, IndexUnreadable
  <2>2. UNCHANGED <<at, listed>> \/ (at' \in {"fallback", "failed"} /\ listed' = Unread)
    BY <1>4 DEF IndexRead, IndexUnreadable
  <2> QED
    BY <1>1, <2>1, <2>2
<1>5. ASSUME NEW s \in New, CreateFails(s) \/ Speaks(s) PROVE TechnicalInv'
  BY <1>2, <1>5 DEF CreateFails, Speaks
<1>6. ASSUME NEW s \in New, CreateArrives(s) PROVE TechnicalInv'
  <2>1. exists' = exists \cup {s} /\ s \notin Technical /\ UNCHANGED <<hidden, catalog, at, listed>>
    BY <1>6, Names DEF CreateArrives
  <2> QED
    BY <1>1, <2>1
<1>7. ASSUME NEW t \in Technical, CatalogAsks(t) PROVE TechnicalInv'
  <2>1. /\ exists' = exists \cup {t} /\ catalog.step = "idle" /\ UNCHANGED <<hidden, at, listed>>
        /\ catalog'.step = "creating" /\ catalog'.session = t
    BY <1>7 DEF CatalogAsks, Idle
  <2> QED
    BY <1>1, <2>1
<1>8. CASE CatalogCreated
  BY <1>1, <1>8 DEF CatalogCreated
<1>9. CASE CatalogGivesUp \/ CatalogSaved \/ CatalogUnsaved
  <2>1. CASE CatalogGivesUp
    <3>1. leaked' = leaked \cup {catalog.session} /\ UNCHANGED <<exists, hidden, at, listed>>
      BY <2>1 DEF Daemon, CatalogGivesUp
    <3> QED
      BY <1>1, <3>1
  <2>2. CASE CatalogSaved \/ CatalogUnsaved
    BY <1>1, <2>2 DEF CatalogSaved, CatalogUnsaved
  <2> QED
    BY <1>9, <2>1, <2>2
<1>10. CASE ListArrives
  BY <1>2, <1>10 DEF ListArrives
<1>11. CASE AdapterLists
  <2>1. listed' \subseteq exists /\ UNCHANGED <<exists, hidden, catalog, at>> /\ at \in Early
    BY <1>11 DEF AdapterLists, Listed, DaemonTypeInv, TypeInv
  <2> QED
    BY <1>1, <2>1
<1>12. CASE ListAnswered
  <2>1. /\ listed \subseteq exists /\ UNCHANGED <<exists, hidden, catalog>> /\ at' = "answered"
        /\ listed' \subseteq (listed \cup owned) \ hidden
    BY <1>12 DEF ListAnswered, VisibleOf
  <2>2. owned \cap Technical = {}
    BY Names DEF TypeInv, DaemonTypeInv
  <2> QED
    BY <1>1, <2>1, <2>2
<1>13. CASE ListFails
  BY <1>1, <1>13 DEF ListFails
<1> QED
  BY <1>3, <1>4, <1>5, <1>6, <1>7, <1>8, <1>9, <1>10, <1>11, <1>12, <1>13 DEF Daemon, Works, Serves

LEMMA CrashTechnical ==
    ASSUME TypeInv, TechnicalInv, Crash
    PROVE  TechnicalInv'
<1>1. /\ UNCHANGED <<exists, rows>> /\ hidden' = Preloaded(hiddenFile')
      /\ leaked' = leaked \cup ((Technical \cap exists) \ hiddenFile')
      /\ UNCHANGED <<at, listed>> \/ (at' = "failed" /\ listed' = Unread)
  BY DEF Crash, Dies, harness, listing, app
<1>2. \A t \in Technical \cap exists : t \in hidden' \cup leaked'
  <2>1. Technical \cap Unread = {}
    BY IndexAssumption DEF Unread, Sessions
  <2> QED
    BY <1>1, <2>1 DEF Preloaded
<1> QED
  BY <1>1, <1>2 DEF TechnicalInv, TechnicalStaysHidden, Early

LEMMA TechnicalStep ==
    ASSUME TypeInv, TechnicalInv, [Next]_vars
    PROVE  TechnicalInv'
BY LookIs, LookTechnical, AppTechnical, DaemonTechnical, CrashTechnical DEF Next, Polls, Reads

LEMMA TechnicalInit == Init => TechnicalInv
<1> SUFFICES ASSUME Init PROVE TechnicalInv
  OBVIOUS
<1>1. exists \cap Technical = {} /\ rows = {} /\ at = "idle"
  BY Names DEF Init, IndexInit, Deletable
<1> QED
  BY <1>1 DEF TechnicalInv, TechnicalStaysHidden, Early

-----------------------------------------------------------------------------
(* What the user created. *)

(* A Session that was answered is owned by the daemon or listed by the     *)
(* harness until it is deleted, and a listing under way takes it from      *)
(* either: the app's part is kept until a later read replaces it.          *)
CreatedInv ==
    /\ created \ deleted \subseteq owned \cup Listed
    /\ at \in Early /\ gone # Unread => gone \subseteq deleted
    /\ at \in Early /\ listed # Unread => created \ deleted \subseteq owned \cup listed
    /\ at = "answered" => created \ deleted \subseteq listed
    /\ machine.state = "online" /\ at = "idle" /\ ~loading /\ ~short => created \ deleted \subseteq rows
    /\ \A s \in Old \cup New : delete[s] \in {"queued", "writing"} => s \in deleted

LEMMA LookCreated ==
    ASSUME TypeInv, CreatedInv, Looks
    PROVE  CreatedInv'
BY DEF CreatedInv, Listed, Early, Looks, StaysPut, Rediscovers, server, harness, quiet

LEMMA AppCreated ==
    ASSUME TypeInv, CreatedInv,
           \/ Lands \/ ReadBreaks
           \/ \E s \in Old \cup New : DeleteStarts(s) \/ DeleteDone(s) \/ DeleteFailed(s)
           \/ \E s \in New : CreateStarts(s) \/ CreateDone(s) \/ CreateFailed(s)
    PROVE  CreatedInv'
<1> USE DEF CreatedInv, Listed, Early, harness, idle, quiet, tombstones, technical, listing
<1>0. deleting \in SUBSET Deletable /\ delete \in [Old \cup New -> DeleteStages]
  BY DEF TypeInv, AppTypeInv, DaemonTypeInv
<1>1. CASE Lands
  BY <1>1 DEF Lands, Settle
<1>2. CASE ReadBreaks
  BY <1>2 DEF ReadBreaks, app, history
<1>3. ASSUME NEW s \in Old \cup New, DeleteStarts(s) \/ DeleteFailed(s) PROVE CreatedInv'
  BY <1>0, <1>3 DEF DeleteStarts, DeleteFailed, Move, history
<1>4. ASSUME NEW s \in Old \cup New, DeleteDone(s) PROVE CreatedInv'
  <2>1. Rediscovers(rows, deleting)
    BY <1>0, <1>4, DiscoverIs DEF DeleteDone
  <2> QED
    BY <1>0, <1>4, <2>1 DEF DeleteDone, Rediscovers, Move
<1>5. ASSUME NEW s \in New, CreateDone(s) PROVE CreatedInv'
  <2>1. Rediscovers(rows \cup {s}, deleting)
    BY <1>0, <1>5, DiscoverIs DEF CreateDone
  <2> QED
    BY <1>5, <2>1 DEF CreateDone, Rediscovers
<1>6. ASSUME NEW s \in New, CreateStarts(s) \/ CreateFailed(s) PROVE CreatedInv'
  BY <1>6 DEF CreateStarts, CreateFailed, app, history
<1> QED
  BY <1>1, <1>2, <1>3, <1>4, <1>5, <1>6

LEMMA DaemonCreated ==
    ASSUME TypeInv, CreatedInv, Daemon
    PROVE  CreatedInv'
<1> USE DEF CreatedInv, Listed, Early, harness, tombstones, technical, listing
<1>1. UNCHANGED <<machine, rows, loading, short, created>> /\ created \subseteq New
  BY DEF Daemon, app, TypeInv, AppTypeInv
<1>2. delete \in [Old \cup New -> DeleteStages]
  BY DEF TypeInv, DaemonTypeInv
<1>3. ASSUME NEW s \in Old \cup New, Deleting(s) PROVE CreatedInv'
  <2>1. CASE DeleteListed(s)
    BY <1>1, <1>2, <2>1 DEF DeleteListed, Move
  <2>2. CASE DeleteUnknown(s) \/ DeleteFails(s) \/ WriteBegins(s) \/ WriteFails(s)
    BY <1>1, <1>2, <2>2 DEF DeleteUnknown, DeleteFails, WriteBegins, WriteFails, Move
  <2>3. CASE WriteEnds(s)
    <3>1. s \in deleted
      BY <2>3 DEF WriteEnds, Move
    <3> QED
      BY <1>1, <1>2, <2>3, <3>1 DEF WriteEnds, Move
  <2> QED
    BY <1>3, <2>1, <2>2, <2>3 DEF Deleting
<1>4. ASSUME NEW s \in Old \cup New, DeleteArrives(s) PROVE CreatedInv'
  BY <1>1, <1>2, <1>4 DEF DeleteArrives, Awaits, Passes, Move
<1>5. CASE IndexRead
  <2>1. /\ deleted \subseteq deleted' /\ UNCHANGED <<harness, owned, at, listed>>
        /\ gone' = gone \/ gone' = deleted'
    BY <1>5 DEF IndexRead
  <2>2. \A s \in Old \cup New : delete'[s] \in {"queued", "writing"} => delete[s] \in {"queued", "writing"}
    BY <1>2, <1>5 DEF IndexRead, Move
  <2> QED
    BY <1>1, <2>1, <2>2
<1>6. CASE IndexUnreadable
  <2>1. UNCHANGED <<harness, owned, deleted>> /\ (UNCHANGED listing \/ (at' \in {"fallback", "failed"} /\ listed' = Unread /\ gone' = Unread))
    BY <1>6 DEF IndexUnreadable
  <2>2. \A s \in Old \cup New : delete'[s] \in {"queued", "writing"} => delete[s] \in {"queued", "writing"}
    BY <1>2, <1>6 DEF IndexUnreadable, Move
  <2> QED
    BY <1>1, <2>1, <2>2
<1>7. ASSUME NEW s \in New, CreateArrives(s) \/ CreateFails(s) \/ Speaks(s) PROVE CreatedInv'
  <2>1. /\ late' = late /\ exists \subseteq exists' /\ spoken \subseteq spoken' /\ owned \subseteq owned'
        /\ UNCHANGED <<deleted, delete, listing>>
    BY <1>7 DEF CreateArrives, CreateFails, Speaks
  <2> QED
    BY <1>1, <2>1
<1>8. ASSUME NEW t \in Technical, CatalogAsks(t) PROVE CreatedInv'
  <2>1. /\ late' = late /\ exists \subseteq exists' /\ UNCHANGED <<spoken, owned, deleted, delete, listing>>
    BY <1>8 DEF CatalogAsks
  <2> QED
    BY <1>1, <2>1
<1>9. CASE CatalogCreated \/ CatalogGivesUp \/ CatalogSaved \/ CatalogUnsaved
  BY <1>1, <1>9 DEF CatalogCreated, CatalogGivesUp, CatalogSaved, CatalogUnsaved
<1>10. CASE ListArrives
  BY <1>1, <1>10 DEF ListArrives, Awaits, Passes
<1>11. CASE AdapterLists
  BY <1>1, <1>11 DEF AdapterLists
<1>12. CASE ListAnswered
  <2>1. /\ deleted \subseteq deleted' /\ UNCHANGED <<harness, owned, delete, gone>> /\ at' = "answered"
        /\ created \ deleted \subseteq owned \cup listed /\ gone \subseteq deleted
    BY <1>12 DEF ListAnswered
  <2>2. (listed \cup owned) \ (hidden \cup deleted') \subseteq listed'
    BY <1>12, <2>1 DEF ListAnswered, VisibleOf
  <2>3. created \cap hidden = {}
    BY <1>1, Names DEF TypeInv, DaemonTypeInv
  <2> QED
    BY <1>1, <2>1, <2>2, <2>3
<1>13. CASE ListFails
  BY <1>1, <1>13 DEF ListFails
<1> QED
  BY <1>3, <1>4, <1>5, <1>6, <1>7, <1>8, <1>9, <1>10, <1>11, <1>12, <1>13 DEF Daemon, Works, Serves

LEMMA CrashCreated ==
    ASSUME TypeInv, CreatedInv, Crash
    PROVE  CreatedInv'
<1>1. /\ created' = (created \cap Listed) \ deleted /\ UNCHANGED <<harness, machine, rows, loading, short>>
      /\ UNCHANGED listing \/ (at' = "failed" /\ listed' = Unread /\ gone' = Unread)
      /\ at \in Early => at' = "failed"
  BY DEF Crash, Dies, app, Early, listing
<1>2. \A s \in Old \cup New : delete'[s] \notin {"queued", "writing"}
  BY DEF Crash, Dies, TypeInv, DaemonTypeInv
<1> QED
  BY <1>1, <1>2 DEF CreatedInv, Listed, harness, listing, Early

LEMMA CreatedStep ==
    ASSUME TypeInv, CreatedInv, [Next]_vars
    PROVE  CreatedInv'
BY LookIs, LookCreated, AppCreated, DaemonCreated, CrashCreated DEF Next, Polls, Reads

LEMMA CreatedInit == Init => CreatedInv
BY DEF Init, IndexInit, CreatedInv, Listed, Early

-----------------------------------------------------------------------------
(* A Session whose creation was not answered yet. *)

(* Nothing of it is anywhere before the daemon has made it, and the row    *)
(* that shows it before the answer is deleted at the app's own risk.       *)
Unanswered ==
    \A s \in New :
        /\ create[s] \in {"none", "asked"} =>
              s \notin exists \cup owned \cup rows \cup listed \cup confirmed /\ delete[s] = "none"
        /\ create[s] = "answered" /\ (delete[s] # "none" \/ s \in confirmed) => s \in mistaken

LEMMA LookUnanswered ==
    ASSUME TypeInv, Unanswered, Looks
    PROVE  Unanswered'
<1>1. New \cap Unread = {}
  BY IndexAssumption DEF Unread, Sessions
<1> QED
  BY <1>1 DEF Unanswered, Looks, StaysPut, Rediscovers, server, harness

LEMMA AppUnanswered ==
    ASSUME TypeInv, Unanswered,
           \/ Lands \/ ReadBreaks
           \/ \E s \in Old \cup New : DeleteStarts(s) \/ DeleteDone(s) \/ DeleteFailed(s)
           \/ \E s \in New : CreateStarts(s) \/ CreateDone(s) \/ CreateFailed(s)
    PROVE  Unanswered'
<1> USE DEF Unanswered, harness, idle, technical, listing
<1>0. /\ deleting \in SUBSET Deletable /\ delete \in [Old \cup New -> DeleteStages]
      /\ create \in [New -> CreateStages] /\ New \cap Unread = {}
  BY IndexAssumption DEF TypeInv, AppTypeInv, DaemonTypeInv, Unread, Sessions
<1>1. CASE Lands
  <2>1. rows' \subseteq listed \/ rows' = {}
    BY <1>1 DEF Lands, Settle
  <2> QED
    BY <1>0, <1>1, <2>1 DEF Lands, Settle
<1>2. CASE ReadBreaks
  BY <1>0, <1>2 DEF ReadBreaks, app, history
<1>3. ASSUME NEW s \in Old \cup New, DeleteStarts(s) PROVE Unanswered'
  <2>1. /\ UNCHANGED <<exists, owned, rows, listed, confirmed, create>>
        /\ s \in rows /\ mistaken' = mistaken \cup {r \in {s} \cap New : create[r] \in {"asked", "answered"}}
        /\ \A r \in New \ {s} : delete'[r] = delete[r]
    BY <1>0, <1>3 DEF DeleteStarts
  <2> QED
    BY <2>1
<1>4. ASSUME NEW s \in Old \cup New, DeleteFailed(s) PROVE Unanswered'
  <2>1. /\ UNCHANGED <<exists, owned, rows, listed, confirmed, create, mistaken>>
        /\ delete[s] # "none" /\ delete'[s] = "none" /\ \A r \in New \ {s} : delete'[r] = delete[r]
    BY <1>0, <1>4 DEF DeleteFailed, Move, history
  <2> QED
    BY <2>1
<1>5. ASSUME NEW s \in Old \cup New, DeleteDone(s) PROVE Unanswered'
  <2>1. Rediscovers(rows, deleting)
    BY <1>0, <1>5, DiscoverIs DEF DeleteDone
  <2>2. /\ UNCHANGED <<exists, owned, create>> /\ confirmed' = confirmed \cup {s}
        /\ delete[s] # "none" /\ \A r \in New \ {s} : delete'[r] = delete[r]
        /\ delete'[s] = "none"
    BY <1>0, <1>5 DEF DeleteDone, Move
  <2> QED
    BY <1>0, <2>1, <2>2 DEF Rediscovers
<1>6. ASSUME NEW s \in New, CreateDone(s) PROVE Unanswered'
  <2>1. Rediscovers(rows \cup {s}, deleting)
    BY <1>0, <1>6, DiscoverIs DEF CreateDone
  <2>2. /\ UNCHANGED <<exists, owned, delete, confirmed>> /\ create'[s] = "refused"
        /\ \A r \in New \ {s} : create'[r] = create[r]
    BY <1>0, <1>6 DEF CreateDone
  <2> QED
    BY <1>0, <2>1, <2>2 DEF Rediscovers
<1>7. ASSUME NEW s \in New, CreateStarts(s) \/ CreateFailed(s) PROVE Unanswered'
  <2>1. /\ UNCHANGED <<exists, owned, rows, listed, delete, confirmed, mistaken>>
        /\ create'[s] \in {"none", "asked"} => create[s] \in {"none", "asked"}
        /\ create'[s] # "answered" /\ \A r \in New \ {s} : create'[r] = create[r]
    BY <1>0, <1>7 DEF CreateStarts, CreateFailed, app, history
  <2> QED
    BY <2>1
<1> QED
  BY <1>1, <1>2, <1>3, <1>4, <1>5, <1>6, <1>7

LEMMA DaemonUnanswered ==
    ASSUME TypeInv, Unanswered, Daemon
    PROVE  Unanswered'
<1> USE DEF Unanswered, harness, tombstones, technical, listing
<1>1. UNCHANGED <<rows, confirmed, mistaken>> /\ New \cap Unread = {}
  BY IndexAssumption DEF Daemon, app, Unread, Sessions
<1>2. delete \in [Old \cup New -> DeleteStages] /\ create \in [New -> CreateStages]
  BY DEF TypeInv, DaemonTypeInv
<1>3. ASSUME UNCHANGED <<exists, create>>, owned' \subseteq owned, listed' \subseteq listed \cup owned \cup exists,
             \A r \in New : delete[r] = "none" <=> delete'[r] = "none"
      PROVE  Unanswered'
  BY <1>1, <1>3
<1>4. ASSUME NEW s \in Old \cup New, Deleting(s) PROVE Unanswered'
  BY <1>2, <1>3, <1>4 DEF Deleting, DeleteListed, DeleteUnknown, DeleteFails, WriteBegins, WriteEnds, WriteFails, Move
<1>5. ASSUME NEW s \in Old \cup New, DeleteArrives(s) PROVE Unanswered'
  BY <1>2, <1>3, <1>5 DEF DeleteArrives, Move
<1>6. CASE IndexRead \/ IndexUnreadable
  <2>1. UNCHANGED <<exists, create, owned>> /\ (listed' = listed \/ listed' = Unread)
    BY <1>6 DEF IndexRead, IndexUnreadable
  <2>2. \A r \in New : delete[r] = "none" <=> delete'[r] = "none"
    BY <1>2, <1>6 DEF IndexRead, IndexUnreadable, Move
  <2> QED
    BY <1>1, <2>1, <2>2
<1>7. ASSUME NEW s \in New, CreateArrives(s) PROVE Unanswered'
  <2>1. /\ create[s] = "asked" /\ create'[s] = "answered" /\ \A r \in New \ {s} : create'[r] = create[r]
        /\ exists' = exists \cup {s} /\ owned' = owned \cup {s} /\ UNCHANGED <<delete, listed>>
    BY <1>2, <1>7 DEF CreateArrives
  <2> QED
    BY <1>1, <2>1
<1>8. ASSUME NEW s \in New, CreateFails(s) PROVE Unanswered'
  <2>1. /\ create'[s] = "refused" /\ \A r \in New \ {s} : create'[r] = create[r]
        /\ UNCHANGED <<exists, owned, delete, listed>>
    BY <1>2, <1>8 DEF CreateFails
  <2> QED
    BY <1>1, <2>1
<1>9. ASSUME NEW s \in New, Speaks(s) PROVE Unanswered'
  BY <1>3, <1>9 DEF Speaks
<1>10. ASSUME NEW t \in Technical, CatalogAsks(t) PROVE Unanswered'
  <2>1. exists' = exists \cup {t} /\ t \notin New /\ UNCHANGED <<owned, delete, create, listed>>
    BY <1>10, Names DEF CatalogAsks
  <2> QED
    BY <1>1, <2>1
<1>11. CASE CatalogCreated \/ CatalogGivesUp \/ CatalogSaved \/ CatalogUnsaved
  BY <1>3, <1>11 DEF CatalogCreated, CatalogGivesUp, CatalogSaved, CatalogUnsaved
<1>12. CASE ListArrives
  BY <1>3, <1>12 DEF ListArrives
<1>13. CASE AdapterLists
  BY <1>3, <1>13 DEF AdapterLists, Listed
<1>14. CASE ListAnswered
  BY <1>3, <1>14 DEF ListAnswered, VisibleOf
<1>15. CASE ListFails
  BY <1>1, <1>15 DEF ListFails
<1> QED
  BY <1>4, <1>5, <1>6, <1>7, <1>8, <1>9, <1>10, <1>11, <1>12, <1>13, <1>14, <1>15 DEF Daemon, Works, Serves

LEMMA CrashUnanswered ==
    ASSUME TypeInv, Unanswered, Crash
    PROVE  Unanswered'
<1>1. /\ UNCHANGED <<harness, rows, confirmed>> /\ owned' = {} /\ (listed' = listed \/ listed' = Unread)
      /\ mistaken \subseteq mistaken'
  BY DEF Crash, Dies, app, listing
<1>2. New \cap Unread = {}
  BY IndexAssumption DEF Unread, Sessions
<1>3. \A s \in New : /\ delete'[s] = "none" <=> delete[s] = "none"
                     /\ create'[s] \in {"none", "answered"} => create'[s] = create[s]
                     /\ create'[s] # "asked"
  BY DEF Crash, Dies, TypeInv, DaemonTypeInv
<1> QED
  BY <1>1, <1>2, <1>3 DEF Unanswered, harness

LEMMA UnansweredStep ==
    ASSUME TypeInv, Unanswered, [Next]_vars
    PROVE  Unanswered'
BY LookIs, LookUnanswered, AppUnanswered, DaemonUnanswered, CrashUnanswered DEF Next, Polls, Reads

LEMMA UnansweredInit == Init => Unanswered
<1> SUFFICES ASSUME Init PROVE Unanswered
  OBVIOUS
<1>1. New \cap Unread = {} /\ New \cap Old = {}
  BY IndexAssumption DEF Unread, Sessions
<1> QED
  BY <1>1 DEF Init, IndexInit, Unanswered

-----------------------------------------------------------------------------
(* The tombstones. *)

(* What is deleted in memory is what the index file held when it was read, *)
(* and more; what is being written to it is no less than what it holds.    *)
(* A request that passes the index while it is being read breaks this.     *)
IndexInv ==
    /\ reading # "read" => deleted = {}
    /\ reading = "read" => index \subseteq deleted
    /\ \A s \in Old \cup New : delete[s] \in {"listing", "queued", "writing"} => reading = "read"
    /\ at \in Early /\ gone # Unread => reading = "read"
    /\ \A s \in Old \cup New : delete[s] = "writing" =>
          /\ s \in outgoing /\ outgoing \subseteq deleted /\ index \subseteq outgoing
          /\ \A r \in Old \cup New : delete[r] = "writing" => r = s
    /\ \A s \in Old \cup New : delete[s] = "answered" => s \in index

IndexOk == raced \/ IndexInv

LEMMA LookIndex ==
    ASSUME TypeInv, IndexOk, Looks
    PROVE  IndexOk'
BY DEF IndexOk, IndexInv, Early, Looks, StaysPut, Rediscovers, server, quiet

LEMMA AppIndex ==
    ASSUME TypeInv, IndexOk,
           \/ Lands \/ ReadBreaks
           \/ \E s \in Old \cup New : DeleteStarts(s) \/ DeleteDone(s) \/ DeleteFailed(s)
           \/ \E s \in New : CreateStarts(s) \/ CreateDone(s) \/ CreateFailed(s)
    PROVE  IndexOk'
<1> USE DEF IndexOk, IndexInv, Early, idle, quiet, tombstones, listing
<1>0. deleting \in SUBSET Deletable /\ delete \in [Old \cup New -> DeleteStages]
  BY DEF TypeInv, AppTypeInv, DaemonTypeInv
<1>1. CASE Lands \/ ReadBreaks
  BY <1>1 DEF Lands, ReadBreaks
<1>2. ASSUME NEW s \in Old \cup New, DeleteStarts(s) \/ DeleteFailed(s) PROVE IndexOk'
  BY <1>0, <1>2 DEF DeleteStarts, DeleteFailed, Move
<1>3. ASSUME NEW s \in Old \cup New, DeleteDone(s) PROVE IndexOk'
  <2>1. Rediscovers(rows, deleting)
    BY <1>0, <1>3, DiscoverIs DEF DeleteDone
  <2> QED
    BY <1>0, <1>3, <2>1 DEF DeleteDone, Rediscovers, Move
<1>4. ASSUME NEW s \in New, CreateDone(s) PROVE IndexOk'
  <2>1. Rediscovers(rows \cup {s}, deleting)
    BY <1>0, <1>4, DiscoverIs DEF CreateDone
  <2> QED
    BY <1>4, <2>1 DEF CreateDone, Rediscovers
<1>5. ASSUME NEW s \in New, CreateStarts(s) \/ CreateFailed(s) PROVE IndexOk'
  BY <1>5 DEF CreateStarts, CreateFailed
<1> QED
  BY <1>1, <1>2, <1>3, <1>4, <1>5

LEMMA DaemonIndex ==
    ASSUME TypeInv, CreatedInv, IndexOk, Daemon
    PROVE  IndexOk'
<1> USE DEF IndexInv, Early, harness, tombstones, technical, listing
<1>0. raced => raced'
  BY DEF Daemon, Works, Serves, IndexRead, IndexUnreadable, Deleting, DeleteListed, DeleteUnknown, DeleteFails,
         WriteBegins, WriteEnds, WriteFails, DeleteArrives, CreateArrives, CreateFails, Speaks, CatalogAsks,
         CatalogCreated, CatalogGivesUp, CatalogSaved, CatalogUnsaved, ListArrives, AdapterLists, ListAnswered, ListFails,
         Awaits, Passes
<1> SUFFICES ASSUME ~raced', IndexInv PROVE IndexInv'
  BY <1>0 DEF IndexOk
<1>2. delete \in [Old \cup New -> DeleteStages]
  BY DEF TypeInv, DaemonTypeInv
<1>3. ASSUME NEW s \in Old \cup New, Deleting(s) PROVE IndexInv'
  <2>1. CASE DeleteListed(s)
    BY <1>2, <2>1 DEF DeleteListed, Move
  <2>2. CASE DeleteUnknown(s) \/ DeleteFails(s) \/ WriteFails(s)
    BY <1>2, <2>2 DEF DeleteUnknown, DeleteFails, WriteFails, Move
  <2>3. CASE WriteBegins(s)
    <3>1. s \in deleted /\ reading = "read"
      BY <2>3 DEF WriteBegins, Move, CreatedInv
    <3>2. \A r \in Old \cup New : delete[r] # "writing"
      BY <1>2, <2>3 DEF WriteBegins
    <3> QED
      BY <1>2, <2>3, <3>1, <3>2 DEF WriteBegins, Move
  <2>4. CASE WriteEnds(s)
    <3>1. /\ delete[s] = "writing" /\ delete' = [delete EXCEPT ![s] = "answered"] /\ index' = outgoing
          /\ UNCHANGED <<deleted, reading, outgoing, at, gone>>
      BY <2>4 DEF WriteEnds, Move
    <3>2. s \in outgoing /\ outgoing \subseteq deleted /\ index \subseteq outgoing
      BY <3>1
    <3>3. \A r \in Old \cup New : delete'[r] # "writing"
      BY <1>2, <3>1
    <3>4. \A r \in Old \cup New : delete'[r] = "answered" => r \in index'
      BY <1>2, <3>1, <3>2
    <3> QED
      BY <1>2, <3>1, <3>2, <3>3, <3>4
  <2> QED
    BY <1>3, <2>1, <2>2, <2>3, <2>4 DEF Deleting
<1>4. ASSUME NEW s \in Old \cup New, DeleteArrives(s) PROVE IndexInv'
  <2>1. CASE Awaits(s) /\ Move(s, "sent", "index")
    BY <1>2, <1>4, <2>1 DEF DeleteArrives, Awaits, Move
  <2>2. CASE Passes /\ Move(s, "sent", "listing")
    BY <1>2, <1>4, <2>2 DEF DeleteArrives, Passes, Move, TypeInv, DaemonTypeInv
  <2> QED
    BY <1>4, <2>1, <2>2 DEF DeleteArrives
<1>5. CASE IndexRead
  <2>1. /\ deleted' = deleted \cup index /\ reading' = "read" /\ UNCHANGED <<index, outgoing>>
        /\ \A s \in Old \cup New : delete'[s] = delete[s] \/ delete'[s] = "listing"
    BY <1>2, <1>5 DEF IndexRead, Move
  <2> QED
    BY <2>1
<1>6. CASE IndexUnreadable
  <2>1. /\ reading = "reading" /\ reading' = "unread" /\ UNCHANGED <<deleted, index, outgoing>>
        /\ UNCHANGED <<at, gone>> \/ (at' \in {"fallback", "failed"} /\ gone' = Unread)
        /\ \A s \in Old \cup New : delete'[s] = delete[s] \/ delete'[s] = "refused"
    BY <1>2, <1>6 DEF IndexUnreadable, Move
  <2> QED
    BY <2>1
<1>7. ASSUME NEW s \in New, CreateArrives(s) \/ CreateFails(s) \/ Speaks(s) PROVE IndexInv'
  BY <1>7 DEF CreateArrives, CreateFails, Speaks
<1>8. ASSUME NEW t \in Technical, CatalogAsks(t) PROVE IndexInv'
  BY <1>8 DEF CatalogAsks
<1>9. CASE CatalogCreated \/ CatalogGivesUp \/ CatalogSaved \/ CatalogUnsaved
  BY <1>9 DEF CatalogCreated, CatalogGivesUp, CatalogSaved, CatalogUnsaved
<1>10. CASE ListArrives
  BY <1>10 DEF ListArrives, Awaits, Passes, TypeInv, DaemonTypeInv
<1>11. CASE AdapterLists
  BY <1>11 DEF AdapterLists
<1>12. CASE ListAnswered
  <2>1. reading = "read" /\ deleted \subseteq deleted' /\ at' = "answered" /\ UNCHANGED <<delete, reading, index, outgoing>>
    BY <1>12 DEF ListAnswered
  <2> QED
    BY <2>1
<1>13. CASE ListFails
  BY <1>13 DEF ListFails
<1> QED
  BY <1>3, <1>4, <1>5, <1>6, <1>7, <1>8, <1>9, <1>10, <1>11, <1>12, <1>13 DEF Daemon, Works, Serves

LEMMA CrashIndex ==
    ASSUME TypeInv, IndexOk, Crash
    PROVE  IndexOk'
<1>1. /\ deleted' = {} /\ reading' = "unread" /\ UNCHANGED <<index, raced>>
      /\ at' \in Early => gone' = Unread
  BY DEF Crash, Dies, Early, listing
<1>2. \A s \in Old \cup New : /\ delete'[s] \notin {"listing", "queued", "writing"}
                              /\ delete'[s] = "answered" => delete[s] = "answered"
  BY DEF Crash, Dies, TypeInv, DaemonTypeInv
<1> QED
  BY <1>1, <1>2 DEF IndexOk, IndexInv

LEMMA IndexStep ==
    ASSUME TypeInv, CreatedInv, IndexOk, [Next]_vars
    PROVE  IndexOk'
BY LookIs, LookIndex, AppIndex, DaemonIndex, CrashIndex DEF Next, Polls, Reads

LEMMA IndexInitially == Init => IndexOk
<1> SUFFICES ASSUME Init PROVE IndexInv
  BY DEF IndexOk
<1> QED
  BY DEF Init, IndexInit, IndexInv, Early

-----------------------------------------------------------------------------
(* What was deleted. *)

Live == {"sent", "index", "listing", "queued", "writing", "answered"}

(* A listing under way, and one that is answered, do without it.           *)
Hidden(s) ==
    /\ s \in deleted \cup index
    /\ at \in Early /\ gone # Unread => s \in gone
    /\ at = "answered" => s \notin listed

(* A Session whose DELETE was answered is hidden for good; one whose       *)
(* DELETE goes on is marked, or hidden already.                            *)
GoneInv ==
    \A s \in (Old \cup New) \ mistaken :
        /\ s \in confirmed => Hidden(s) /\ s \in index /\ s \notin rows \ deleting /\ delete[s] = "none"
        /\ delete[s] \in Live /\ s \notin deleting => Hidden(s) /\ s \notin rows

GoneOk == raced \/ GoneInv

LEMMA RediscoversGone ==
    ASSUME NEW s \in Old \cup New, Rediscovers(rows, deleting), UNCHANGED <<deleted, index>>, s \notin mistaken'
    PROVE  /\ Hidden(s) => Hidden(s)'
           /\ mistaken \subseteq mistaken'
           /\ s \notin rows \ deleting => s \notin rows' \ deleting'
           /\ s \notin deleting' => (s \notin deleting \/ (s \in deleted /\ Hidden(s)'))
           /\ s \notin rows => s \notin rows'
           /\ s \notin deleting' /\ s \in deleting => s \notin rows'
BY DEF Rediscovers, Hidden, Early

LEMMA LookGone ==
    ASSUME TypeInv, GoneOk, Looks
    PROVE  GoneOk'
<1> SUFFICES ASSUME GoneInv PROVE GoneInv'
  BY DEF GoneOk, Looks, server
<1>1. UNCHANGED <<deleted, index, delete, confirmed>>
  BY DEF Looks, server, quiet
<1>2. CASE StaysPut
  BY <1>1, <1>2 DEF StaysPut, GoneInv, Hidden
<1>3. CASE Rediscovers(rows, deleting)
  <2> SUFFICES ASSUME NEW s \in (Old \cup New) \ mistaken'
               PROVE  /\ s \in confirmed => Hidden(s)' /\ s \in index /\ s \notin rows' \ deleting' /\ delete[s] = "none"
                      /\ delete[s] \in Live /\ s \notin deleting' => Hidden(s)' /\ s \notin rows'
    BY <1>1 DEF GoneInv
  <2> QED
    BY <1>1, <1>3, RediscoversGone DEF GoneInv
<1> QED
  BY <1>2, <1>3 DEF Looks

LEMMA AppGone ==
    ASSUME TypeInv, Unanswered, IndexOk, GoneOk,
           \/ Lands \/ ReadBreaks
           \/ \E s \in Old \cup New : DeleteStarts(s) \/ DeleteDone(s) \/ DeleteFailed(s)
           \/ \E s \in New : CreateStarts(s) \/ CreateDone(s) \/ CreateFailed(s)
    PROVE  GoneOk'
<1> USE DEF idle, quiet, tombstones, listing
<1>0. raced' = raced
  BY DEF Lands, ReadBreaks, DeleteStarts, DeleteDone, DeleteFailed, CreateStarts, CreateDone, CreateFailed
<1> SUFFICES ASSUME GoneInv, IndexInv PROVE GoneInv'
  BY <1>0 DEF GoneOk, IndexOk
<1>1. deleting \in SUBSET Deletable /\ delete \in [Old \cup New -> DeleteStages]
  BY DEF TypeInv, AppTypeInv, DaemonTypeInv
<1>2. CASE Lands
  <2>1. /\ UNCHANGED <<deleted, index, delete, confirmed>> /\ at' = "idle"
        /\ rows' = {} \/ (at = "answered" /\ rows' = listed)
        /\ deleting' = deleting \cap rows' /\ mistaken' = mistaken \cup ((deleting \ rows') \ deleted)
    BY <1>2 DEF Lands, Settle
  <2>2. \A s \in (Old \cup New) \ mistaken' : s \in deleting \ deleting' => s \in deleted /\ s \notin rows'
    BY <2>1
  <2>3. \A s \in Old \cup New : s \in deleted \cup index => Hidden(s)'
    BY <2>1 DEF Hidden, Early
  <2>4. \A s \in Old \cup New : Hidden(s) => s \in deleted \cup index /\ s \notin rows'
    BY <2>1 DEF Hidden
  <2> HIDE DEF Hidden
  <2> QED
    BY <2>1, <2>2, <2>3, <2>4 DEF GoneInv
<1>3. CASE ReadBreaks
  BY <1>3 DEF ReadBreaks, app, history, GoneInv, Hidden, Early
<1>4. ASSUME NEW s \in Old \cup New, DeleteStarts(s) PROVE GoneInv'
  <2>1. /\ UNCHANGED <<deleted, index, at, gone, listed, rows, confirmed>> /\ mistaken \subseteq mistaken'
        /\ s \in rows \ deleting /\ deleting' = deleting \cup {s}
        /\ \A r \in (Old \cup New) \ {s} : delete'[r] = delete[r]
    BY <1>1, <1>4 DEF DeleteStarts
  <2> QED
    BY <2>1 DEF GoneInv, Hidden
<1>5. ASSUME NEW s \in Old \cup New, DeleteFailed(s) PROVE GoneInv'
  <2>1. /\ UNCHANGED <<deleted, index, at, gone, listed, rows, confirmed, mistaken>>
        /\ deleting' = deleting \ {s} /\ delete[s] # "none" /\ delete'[s] = "none"
        /\ \A r \in (Old \cup New) \ {s} : delete'[r] = delete[r]
    BY <1>1, <1>5 DEF DeleteFailed, Move, history
  <2> QED
    BY <2>1 DEF GoneInv, Hidden, Live
<1>6. ASSUME NEW s \in Old \cup New, DeleteDone(s) PROVE GoneInv'
  <2>1. Rediscovers(rows, deleting)
    BY <1>1, <1>6, DiscoverIs DEF DeleteDone
  <2>2. /\ UNCHANGED <<deleted, index>> /\ delete[s] = "answered" /\ delete'[s] = "none"
        /\ confirmed' = confirmed \cup {s} /\ \A r \in (Old \cup New) \ {s} : delete'[r] = delete[r]
    BY <1>1, <1>6 DEF DeleteDone, Move
  <2>3. s \in index /\ (s \notin mistaken => (s \notin deleting => s \notin rows /\ Hidden(s)))
    BY <2>2 DEF IndexInv, GoneInv, Live
  <2>4. ASSUME s \notin mistaken'
        PROVE  Hidden(s)' /\ s \notin rows' \ deleting'
    <3>1. gone' = Unread /\ at' # "answered" /\ mistaken \subseteq mistaken'
      BY <2>1 DEF Rediscovers
    <3>2. Hidden(s)'
      BY <2>2, <2>3, <3>1 DEF Hidden
    <3> QED
      BY <2>1, <2>2, <2>3, <2>4, <3>1, <3>2, RediscoversGone
  <2> SUFFICES ASSUME NEW r \in (Old \cup New) \ mistaken'
               PROVE  /\ r \in confirmed' => Hidden(r)' /\ r \in index' /\ r \notin rows' \ deleting' /\ delete'[r] = "none"
                      /\ delete'[r] \in Live /\ r \notin deleting' => Hidden(r)' /\ r \notin rows'
    BY DEF GoneInv
  <2>5. CASE r = s
    BY <2>2, <2>3, <2>4, <2>5 DEF Live
  <2>6. CASE r # s
    BY <2>1, <2>2, <2>6, RediscoversGone DEF GoneInv
  <2> QED
    BY <2>5, <2>6
<1>7. ASSUME NEW s \in New, CreateDone(s) PROVE GoneInv'
  <2>1. Rediscovers(rows \cup {s}, deleting)
    BY <1>1, <1>7, DiscoverIs DEF CreateDone
  <2>2. UNCHANGED <<deleted, index, delete, confirmed>> /\ (s \notin mistaken => delete[s] = "none" /\ s \notin confirmed)
    BY <1>7 DEF CreateDone, Unanswered
  <2> QED
    BY <2>1, <2>2 DEF Rediscovers, GoneInv, Hidden, Early, Live
<1>8. ASSUME NEW s \in New, CreateStarts(s) \/ CreateFailed(s) PROVE GoneInv'
  BY <1>8 DEF CreateStarts, CreateFailed, app, history, GoneInv, Hidden
<1> QED
  BY <1>2, <1>3, <1>4, <1>5, <1>6, <1>7, <1>8

LEMMA DaemonGone ==
    ASSUME TypeInv, CreatedInv, IndexOk, GoneOk, Daemon
    PROVE  GoneOk'
<1> USE DEF harness, tombstones, technical, listing
<1>a. UNCHANGED <<rows, deleting, confirmed, mistaken>>
  BY DEF Daemon, app
<1>0. raced => raced'
  BY DEF Daemon, Works, Serves, IndexRead, IndexUnreadable, Deleting, DeleteListed, DeleteUnknown, DeleteFails,
         WriteBegins, WriteEnds, WriteFails, DeleteArrives, CreateArrives, CreateFails, Speaks, CatalogAsks,
         CatalogCreated, CatalogGivesUp, CatalogSaved, CatalogUnsaved, ListArrives, AdapterLists, ListAnswered, ListFails,
         Awaits, Passes
<1> SUFFICES ASSUME ~raced', GoneInv, IndexInv PROVE GoneInv'
  BY <1>0 DEF GoneOk, IndexOk
<1>1. delete \in [Old \cup New -> DeleteStages]
  BY DEF TypeInv, DaemonTypeInv
<1>2. ASSUME \A s \in Old \cup New : Hidden(s) => Hidden(s)',
             index \subseteq index',
             \A s \in Old \cup New : delete'[s] \in Live => delete[s] \in Live,
             \A s \in Old \cup New : delete[s] = "none" => delete'[s] = "none"
      PROVE  GoneInv'
  BY <1>a, <1>2 DEF GoneInv
<1>3. ASSUME NEW s \in Old \cup New, Deleting(s) PROVE GoneInv'
  <2>1. \A r \in Old \cup New : /\ delete'[r] \in Live => delete[r] \in Live
                                /\ delete[r] = "none" => delete'[r] = "none"
    BY <1>1, <1>3 DEF Deleting, DeleteListed, DeleteUnknown, DeleteFails, WriteBegins, WriteEnds, WriteFails, Move, Live
  <2>2. index \subseteq index' /\ deleted \subseteq deleted' /\ UNCHANGED listing
    BY <1>3 DEF Deleting, DeleteListed, DeleteUnknown, DeleteFails, WriteBegins, WriteEnds, WriteFails, Move, IndexInv
  <2> QED
    BY <1>2, <2>1, <2>2 DEF Hidden
<1>4. ASSUME NEW s \in Old \cup New, DeleteArrives(s) PROVE GoneInv'
  <2>1. \A r \in Old \cup New : /\ delete'[r] \in Live => delete[r] \in Live
                                /\ delete[r] = "none" => delete'[r] = "none"
    BY <1>1, <1>4 DEF DeleteArrives, Move, Live
  <2>2. UNCHANGED <<index, deleted, listing>>
    BY <1>4 DEF DeleteArrives, Awaits, Passes
  <2> QED
    BY <1>2, <2>1, <2>2 DEF Hidden
<1>5. CASE IndexRead
  <2>1. \A r \in Old \cup New : /\ delete'[r] \in Live => delete[r] \in Live
                                /\ delete[r] = "none" => delete'[r] = "none"
    BY <1>1, <1>5 DEF IndexRead, Move, Live
  <2>2. UNCHANGED <<index, at, listed>> /\ deleted' = deleted \cup index /\ (gone' = gone \/ gone' = deleted')
    BY <1>5 DEF IndexRead
  <2> QED
    BY <1>2, <2>1, <2>2 DEF Hidden
<1>6. CASE IndexUnreadable
  <2>1. \A r \in Old \cup New : /\ delete'[r] \in Live => delete[r] \in Live
                                /\ delete[r] = "none" => delete'[r] = "none"
    BY <1>1, <1>6 DEF IndexUnreadable, Move, Live
  <2>2. UNCHANGED <<index, deleted>> /\ (UNCHANGED listing \/ (at' \in {"fallback", "failed"} /\ gone' = Unread))
    BY <1>6 DEF IndexUnreadable
  <2> QED
    BY <1>2, <2>1, <2>2 DEF Hidden
<1>7. ASSUME NEW s \in New, CreateArrives(s) \/ CreateFails(s) \/ Speaks(s) PROVE GoneInv'
  BY <1>2, <1>7 DEF CreateArrives, CreateFails, Speaks, Hidden
<1>8. ASSUME NEW t \in Technical, CatalogAsks(t) PROVE GoneInv'
  BY <1>2, <1>8 DEF CatalogAsks, Hidden
<1>9. CASE CatalogCreated \/ CatalogGivesUp \/ CatalogSaved \/ CatalogUnsaved
  BY <1>2, <1>9 DEF CatalogCreated, CatalogGivesUp, CatalogSaved, CatalogUnsaved, Hidden
<1>10. CASE ListArrives
  <2>1. UNCHANGED <<index, deleted, delete, at, listed>>
    BY <1>10 DEF ListArrives, Awaits, Passes
  <2>2. gone' = gone \/ (gone' = deleted /\ index \subseteq deleted)
    BY <1>10 DEF ListArrives, Passes, TypeInv, DaemonTypeInv, IndexInv
  <2> QED
    BY <1>2, <2>1, <2>2 DEF Hidden
<1>11. CASE AdapterLists
  BY <1>2, <1>11 DEF AdapterLists, Hidden, Early
<1>12. CASE ListAnswered
  <2>1. /\ UNCHANGED <<index, delete>> /\ deleted \subseteq deleted' /\ at' = "answered"
        /\ at \in Early /\ gone # Unread
        /\ index \subseteq deleted
    BY <1>12 DEF ListAnswered, Early, IndexInv
  <2>2. \A s \in Old \cup New : Hidden(s) => s \notin listed'
    BY <1>12, <2>1 DEF ListAnswered, VisibleOf, Hidden
  <2> QED
    BY <1>2, <2>1, <2>2 DEF Hidden, Early
<1>13. CASE ListFails
  BY <1>2, <1>13 DEF ListFails, Hidden
<1> QED
  BY <1>3, <1>4, <1>5, <1>6, <1>7, <1>8, <1>9, <1>10, <1>11, <1>12, <1>13 DEF Daemon, Works, Serves

LEMMA CrashGone ==
    ASSUME TypeInv, IndexOk, GoneOk, Crash
    PROVE  GoneOk'
<1> SUFFICES ASSUME GoneInv, IndexInv PROVE GoneInv'
  BY DEF GoneOk, IndexOk, Crash, Dies
<1>1. /\ UNCHANGED <<index, rows, deleting, confirmed>>
      /\ mistaken' = mistaken \cup {s \in Old \cup New : delete[s] = "sent" /\ s \in deleted \ (index \cup deleting)}
      /\ at' \notin Early /\ (at' = "answered" => at = "answered" /\ listed' = listed)
  BY DEF Crash, Dies, Early, listing, app
<1>2. \A s \in Old \cup New : /\ delete[s] = "none" => delete'[s] = "none"
                              /\ delete'[s] \in Live => delete[s] \in {"sent", "answered"}
  BY DEF Crash, Dies, TypeInv, DaemonTypeInv, Live
<1>3. \A s \in Old \cup New : Hidden(s) /\ s \in index => Hidden(s)'
  BY <1>1 DEF Hidden
<1>4. \A s \in Old \cup New : delete[s] = "answered" => s \in index
  BY DEF IndexInv
<1>5. \A s \in Old \cup New : delete[s] = "sent" /\ s \notin mistaken' /\ s \notin deleting /\ Hidden(s) => s \in index
  BY <1>1 DEF Hidden
<1> QED
  BY <1>1, <1>2, <1>3, <1>4, <1>5 DEF GoneInv, Live

LEMMA GoneStep ==
    ASSUME TypeInv, CreatedInv, Unanswered, IndexOk, GoneOk, [Next]_vars
    PROVE  GoneOk'
BY LookIs, LookGone, AppGone, DaemonGone, CrashGone DEF Next, Polls, Reads

LEMMA GoneInit == Init => GoneOk
BY DEF Init, IndexInit, GoneOk, GoneInv, Live

-----------------------------------------------------------------------------
(* The theorems. *)

RailInv == TypeInv /\ TechnicalInv /\ CreatedInv /\ Unanswered /\ IndexOk /\ GoneOk

(* The inductive invariant of the rail over the daemon's Session index.    *)
THEOREM RailInvariant == Spec => []RailInv
<1>1. Init => RailInv
  BY TypeInit, TechnicalInit, CreatedInit, UnansweredInit, IndexInitially, GoneInit DEF RailInv
<1>2. RailInv /\ [Next]_vars => RailInv'
  BY TypeStep, TechnicalStep, CreatedStep, UnansweredStep, IndexStep, GoneStep DEF RailInv
<1> QED
  BY <1>1, <1>2, PTL DEF Spec

(* Every variable of the daemon's index and of the app's rail has its      *)
(* type.                                                                   *)
THEOREM RailTypeCorrect == Spec => []RailTypeOK
<1>1. RailInv => RailTypeOK
  <2> SUFFICES ASSUME TypeInv PROVE RailTypeOK
    BY DEF RailInv
  <2>1. IndexTypeOK
    <3>1. {late, raced} \subseteq BOOLEAN /\ {gone, listed} \subseteq (SUBSET Sessions) \cup {Unread}
      BY DEF TypeInv, DaemonTypeInv
    <3>2. hiddenFile \in (SUBSET Technical) \cup {Unread} /\ reader \in Sessions \cup {List, Nobody}
      BY DEF TypeInv, DaemonTypeInv
    <3> QED
      BY <3>1, <3>2 DEF TypeInv, DaemonTypeInv, IndexTypeOK, DeleteStages, CreateStages
  <2> QED
    BY <2>1 DEF TypeInv, AppTypeInv, RailTypeOK, Deletable
<1> QED
  BY <1>1, RailInvariant, PTL

(* A Session whose DELETE was answered is in the rail at most as its       *)
(* marked row, and a technical Session only when it leaked: no listing,    *)
(* retry, fallback or restart (native-session-home.tsx over                *)
(* acp-service.js) brings either back, whatever the number of Sessions and *)
(* of crashes, failures and outages.                                       *)
THEOREM HiddenStaysHiddenHolds == Spec => []HiddenStaysHidden
<1>1. RailInv => HiddenStaysHidden
  <2> SUFFICES ASSUME RailInv PROVE DeletedStaysGone
    BY DEF RailInv, TechnicalInv, HiddenStaysHidden
  <2>1. confirmed \subseteq Old \cup New
    BY DEF RailInv, TypeInv, AppTypeInv, Deletable
  <2> QED
    BY <2>1 DEF RailInv, GoneOk, GoneInv, DeletedStaysGone
<1> QED
  BY <1>1, RailInvariant, PTL

(* What the user created stays in every list the app has read since, until *)
(* it is deleted, also when the harness itself lists a Session only from   *)
(* its first prompt on (server.js lays the Sessions it owns over the       *)
(* listing) and when the daemon dies in between.                           *)
THEOREM CreatedIsListedHolds == Spec => []CreatedIsListed
<1>1. RailInv => CreatedIsListed
  BY DEF RailInv, CreatedInv, CreatedIsListed
<1> QED
  BY <1>1, RailInvariant, PTL

==============================================================================
