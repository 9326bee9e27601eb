-------------------------------- MODULE Adapter --------------------------------
(***************************************************************************)
(* The bridge's connection to one ACP adapter (acp-client.js) under the    *)
(* calls that claim, stop and create native Sessions (acp-service.js,      *)
(* machine-daemon.js): spawning and handshake, requests and their timers,  *)
(* answers, a line torn by a dying process, exits, and the writer claim    *)
(* the daemon remembers of one Session.                                    *)
(*                                                                         *)
(* A process is a spawned adapter.  Node tells the client of its end by an *)
(* exit event, which comes some time after the process has died or was     *)
(* killed; what it had written may be read even later.  Awaits that only   *)
(* yield to ready microtasks are merged with the step before them.         *)
(***************************************************************************)
EXTENDS Naturals, FiniteSets

CONSTANTS Claims,   \* calls of POST .../claim for the Session
          Stops,    \* calls of POST .../stop for the Session
          Creates   \* calls that create another Session

Users == Claims \cup Stops \cup Creates
Handshake == {"initialize", "authenticate"}

ASSUME AdapterAssumption ==
    /\ IsFiniteSet(Users)
    /\ Claims \cap Stops = {} /\ Claims \cap Creates = {} /\ Stops \cap Creates = {}
    /\ Users \cap (Handshake \cup {"list", "load"}) = {}

(* Every call starts an adapter at most once. *)
MaxSpawns == Cardinality(Users)
Processes == 1..MaxSpawns
Nothing == 0

VARIABLES
    child,     \* #child, or Nothing
    process,   \* process[c]: "unborn", "running", "ended", "reaped" (exit event seen)
    nextID,    \* #nextID
    pending,   \* #pending
    answerable,\* requests a process received and may still answer
    torn,      \* #buffer ends with the half line of a process that ended
    caps,      \* the process that #sessionCapabilities describes, or Nothing
    listing,   \* #sessionListing: "none", "starting", "sent"
    loading,   \* #loads of the Session: "none", "preparing", "sent"
    call,      \* call[u]: where a call is
    isOpen,    \* the Session is in #acpOpenSessions
    owned,     \* ... in #ownedSessions
    claimed    \* ... in the daemon's claimedAcpSessions

client == <<child, process, nextID, pending, answerable, torn, caps>>
service == <<isOpen, owned, claimed>>
vars == <<client, listing, loading, call, service>>

Stages == {"idle", "starting", "listing", "loading", "creating", "done", "failed"}

Request(id, to, for) == [id |-> id, to |-> to, for |-> for]
Requests == [id : Nat, to : Processes, for : Handshake \cup {"list", "load"} \cup Creates]

Spawned == {c \in Processes : process[c] # "unborn"}
Starting == \E p \in pending : p.for \in Handshake

Init ==
    /\ child = Nothing
    /\ process = [c \in Processes |-> "unborn"]
    /\ nextID = 1
    /\ pending = {} /\ answerable = {}
    /\ torn = FALSE
    /\ caps = Nothing
    /\ listing = "none" /\ loading = "none"
    /\ call = [u \in Users |-> "idle"]
    /\ isOpen = FALSE /\ owned = FALSE /\ claimed = FALSE

-----------------------------------------------------------------------------
(* Requests *)

(* request(): the pending entry and the write; a process that has ended    *)
(* may take the write and will not answer it.                              *)
Send(to, for, others, unread) ==
    LET r == Request(nextID, to, for)
    IN  /\ pending' = others \cup {r}
        /\ nextID' = nextID + 1
        /\ answerable' = IF process'[to] = "running" THEN unread \cup {r} ELSE unread

(* #start(): the child is set before its handshake. *)
Spawn ==
    LET c == Cardinality(Spawned) + 1
    IN  /\ child = Nothing
        /\ c \in Processes
        /\ child' = c
        /\ process' = [process EXCEPT ![c] = "running"]
        /\ Send(c, "initialize", pending, answerable)
        /\ UNCHANGED <<torn, caps>>

(* start() returns at once when there is a child, whether or not its       *)
(* handshake is over; the request follows.                                 *)
StartedRequest(for) ==
    /\ child # Nothing
    /\ process' = process
    /\ Send(child, for, pending, answerable)
    /\ UNCHANGED <<child, torn, caps>>

-----------------------------------------------------------------------------
(* What the callers make of an answer *)

(* A stop that has its claim goes on to AcpService.abort: a cancel for the *)
(* child, whoever that is; without one notify throws.                      *)
EndOf(u) == IF u \in Stops /\ child = Nothing THEN "failed" ELSE "done"

Waiting(stage) == {u \in Users : call[u] = stage}

(* Slip: a listing that failed is kept for the next caller. *)
FailedKept(P) ==
    LET fors == {p.for : p \in P}
        gone == (IF "list" \in fors THEN Waiting("listing") ELSE {})
           \cup (IF "load" \in fors THEN Waiting("loading") ELSE {})
           \cup (fors \cap (Creates \cup Waiting("starting")))
    IN  /\ call' = [u \in Users |-> IF u \in gone THEN "failed" ELSE call[u]]
        /\ UNCHANGED listing
        /\ loading' = IF "load" \in fors THEN "none" ELSE loading

(* The calls that wait for a request of P are told that it failed: list    *)
(* and load are shared, and a failed handshake fails the call that began   *)
(* the start.                                                              *)
Failed(P) ==
    LET fors == {p.for : p \in P}
        gone == (IF "list" \in fors THEN Waiting("listing") ELSE {})
           \cup (IF "load" \in fors THEN Waiting("loading") ELSE {})
           \cup (fors \cap Creates)
           \cup (IF fors \cap Handshake # {}
                 THEN Waiting("starting") \cup IF listing = "starting" THEN Waiting("listing") ELSE {}
                 ELSE {})
    IN  /\ call' = [u \in Users |-> IF u \in gone THEN "failed" ELSE call[u]]
        /\ listing' = IF "list" \in fors \/ (fors \cap Handshake # {} /\ listing = "starting")
                      THEN "none" ELSE listing
        /\ loading' = IF "load" \in fors THEN "none" ELSE loading

(* Slip: the child is forgotten, its requests are left to their timers. *)
LoseChildOnly ==
    /\ child' = Nothing
    /\ UNCHANGED <<pending, call, listing, loading>>

(* close() and #handleExit(): no child, and every pending request fails. *)
LoseChild ==
    /\ child' = Nothing
    /\ pending' = {}
    /\ Failed(pending)

(* Slip: a failed handshake does not close the adapter. *)
RejectOnly(p) ==
    /\ pending' = pending \ {p}
    /\ Failed({p})
    /\ UNCHANGED child

(* One request is rejected; a rejected handshake ends in close().  The     *)
(* process is killed: it will end, and its exit event come, later.         *)
Reject(p) ==
    IF p.for \in Handshake
    THEN LoseChild
    ELSE /\ pending' = pending \ {p}
         /\ Failed({p})
         /\ UNCHANGED child

-----------------------------------------------------------------------------
(* Calls *)

(* #refreshSessions(): one listing at a time, shared by its callers. *)
BeginListing(u) ==
    /\ call' = [call EXCEPT ![u] = "listing"]
    /\ IF listing # "none"
       THEN UNCHANGED <<client, listing>>
       ELSE \/ Spawn /\ listing' = "starting"
            \/ StartedRequest("list") /\ listing' = "sent"
    /\ UNCHANGED <<loading, service>>

Claim(u) ==
    /\ u \in Claims /\ call[u] = "idle"
    /\ BeginListing(u)

(* stopSession(): a Session whose claim the daemon remembers is aborted at *)
(* once, any other is claimed first.                                       *)
Stop(u) ==
    /\ u \in Stops /\ call[u] = "idle"
    /\ IF claimed
       THEN /\ call' = [call EXCEPT ![u] = EndOf(u)]
            /\ UNCHANGED <<client, listing, loading, isOpen, owned, claimed>>
       ELSE BeginListing(u)

Create(u) ==
    /\ u \in Creates /\ call[u] = "idle"
    /\ \/ Spawn /\ call' = [call EXCEPT ![u] = "starting"]
       \/ StartedRequest(u) /\ call' = [call EXCEPT ![u] = "creating"]
    /\ UNCHANGED <<listing, loading, service>>

(* claimSession() after its listing: a Session that is owned or open is    *)
(* claimed without asking the adapter; any other is loaded, once for all   *)
(* who wait.                                                               *)
Listed ==
    LET S == Waiting("listing")
    IN  IF owned \/ isOpen
        THEN /\ call' = [u \in Users |-> IF u \in S THEN EndOf(u) ELSE call[u]]
             /\ owned' = TRUE
             /\ claimed' = TRUE
             /\ UNCHANGED <<loading, isOpen>>
        ELSE /\ call' = [u \in Users |-> IF u \in S THEN "loading" ELSE call[u]]
             /\ loading' = IF loading = "none" /\ S # {} THEN "preparing" ELSE loading
             /\ UNCHANGED service

(* The snapshot and the journal were read, session/load is sent: the load  *)
(* itself starts no adapter.                                               *)
SendLoad ==
    /\ loading = "preparing"
    /\ IF child = Nothing
       THEN /\ loading' = "none"
            /\ call' = [u \in Users |-> IF call[u] = "loading" THEN "failed" ELSE call[u]]
            /\ UNCHANGED client
       ELSE /\ loading' = "sent"
            /\ StartedRequest("load")
            /\ UNCHANGED call
    /\ UNCHANGED <<listing, service>>

Loaded ==
    LET S == Waiting("loading")
    IN  /\ isOpen' = TRUE
        /\ owned' = TRUE
        /\ claimed' = TRUE
        /\ loading' = "none"
        /\ call' = [u \in Users |-> IF u \in S THEN EndOf(u) ELSE call[u]]

-----------------------------------------------------------------------------
(* Answers *)

(* The handshake is over: whoever awaited start() sends its request. *)
Started(others, unread) ==
    LET u == CHOOSE v \in Users : call[v] = "starting"
    IN  IF listing = "starting"
        THEN /\ listing' = "sent"
             /\ Send(child, "list", others, unread)
             /\ UNCHANGED call
        ELSE /\ call' = [call EXCEPT ![u] = "creating"]
             /\ Send(child, u, others, unread)
             /\ UNCHANGED listing

(* #consumeMessage() for the result of a request that is pending. *)
Resolve(p, unread) ==
    LET others == pending \ {p}
    IN  /\ UNCHANGED <<child, process>>
        /\ \/ /\ p.for = "initialize"
              /\ caps' = p.to
              /\ \/ Started(others, unread)
                 \/ Send(child, "authenticate", others, unread) /\ UNCHANGED <<call, listing>>
              /\ UNCHANGED <<loading, service>>
           \/ /\ p.for = "authenticate"
              /\ Started(others, unread)
              /\ UNCHANGED <<caps, loading, service>>
           \/ /\ p.for = "list"
              /\ Listed
              /\ listing' = "none"
              /\ pending' = others /\ answerable' = unread
              /\ UNCHANGED <<nextID, caps>>
           \/ /\ p.for = "load"
              /\ Loaded
              /\ pending' = others /\ answerable' = unread
              /\ UNCHANGED <<nextID, caps, listing>>
           \/ /\ p.for \in Creates
              /\ call' = [call EXCEPT ![p.for] = "done"]
              /\ pending' = others /\ answerable' = unread
              /\ UNCHANGED <<nextID, caps, listing, loading, service>>

(* A line of process c is read.  Behind a half line it is no JSON, and is  *)
(* lost; an answer to a request that is not pending is ignored.            *)
Answer(r) ==
    /\ r \in answerable
    /\ torn' = FALSE
    /\ \/ /\ torn \/ r.id \notin {p.id : p \in pending}
          /\ answerable' = answerable \ {r}
          /\ UNCHANGED <<child, process, nextID, pending, caps, listing, loading, call, service>>
       \/ /\ ~torn
          /\ \E p \in pending :
               /\ p.id = r.id
               /\ \/ Resolve(p, answerable \ {r})
                  \/ /\ Reject(p)
                     /\ answerable' = answerable \ {r}
                     /\ UNCHANGED <<process, nextID, caps, service>>

(* The timer of a request fires, or writing it failed. *)
Expire(p) ==
    /\ p \in pending
    /\ Reject(p)
    /\ UNCHANGED <<process, nextID, answerable, torn, caps, service>>

-----------------------------------------------------------------------------
(* Processes *)

(* A process dies, of itself or because it was killed, maybe in the middle *)
(* of a line.                                                              *)
ProcessEnds(c) ==
    /\ process[c] = "running"
    /\ process' = [process EXCEPT ![c] = "ended"]
    /\ \/ UNCHANGED <<torn, answerable>>
       \/ torn' = TRUE /\ answerable' = {r \in answerable : r.to # c}
    /\ UNCHANGED <<child, nextID, pending, caps, listing, loading, call, service>>

ForgetClaims == claimed' = FALSE

(* The exit event of ANY process takes the child away (#handleExit does    *)
(* not look whose exit it is) and, if there was one, makes the daemon      *)
(* forget its claims.                                                      *)
ExitEvent(c) ==
    /\ process[c] = "ended"
    /\ process' = [process EXCEPT ![c] = "reaped"]
    /\ IF child = Nothing
       THEN UNCHANGED <<child, pending, call, listing, loading, claimed>>
       ELSE LoseChild /\ ForgetClaims
    /\ UNCHANGED <<nextID, answerable, torn, caps, isOpen, owned>>

-----------------------------------------------------------------------------
Next ==
    \/ \E u \in Users : Claim(u) \/ Stop(u) \/ Create(u)
    \/ SendLoad
    \/ \E r \in answerable : Answer(r)
    \/ \E p \in pending : Expire(p)
    \/ \E c \in Processes : ProcessEnds(c) \/ ExitEvent(c)

Spec == Init /\ [][Next]_vars

(* Timers fire, and what the load reads from disk is read. *)
FairSpec ==
    /\ Spec
    /\ \A id \in 1..(6 * MaxSpawns) : WF_vars(\E p \in pending : p.id = id /\ Expire(p))
    /\ WF_vars(SendLoad)

-----------------------------------------------------------------------------
TypeOK ==
    /\ child \in Processes \cup {Nothing}
    /\ process \in [Processes -> {"unborn", "running", "ended", "reaped"}]
    /\ nextID \in Nat \ {0}
    /\ pending \subseteq Requests
    /\ answerable \subseteq Requests
    /\ torn \in BOOLEAN
    /\ caps \in Processes \cup {Nothing}
    /\ listing \in {"none", "starting", "sent"}
    /\ loading \in {"none", "preparing", "sent"}
    /\ call \in [Users -> Stages]
    /\ {isOpen, owned, claimed} \subseteq BOOLEAN

(* Nobody waits for an adapter that is gone: whatever ends the child also  *)
(* settles its requests, so the next child starts with none; and what a    *)
(* killed or replaced adapter still says is never taken for the answer to  *)
(* a request that was sent to its successor.                               *)
PendingIsWithTheChild ==
    \A p \in pending :
        /\ p.to = child
        /\ \A r \in answerable : r.id = p.id => r = p

(* Once its handshake is over, what the bridge believes an adapter can do  *)
(* is what this adapter said, not what its predecessor said.               *)
ReadyChildIsKnown ==
    child # Nothing /\ ~Starting => caps = child

(* No start, listing or load leaves a caller waiting, whatever dies, hangs *)
(* or is torn while several of them share it.                              *)
CallsSettle ==
    \A u \in Users : call[u] \in {"starting", "listing", "loading", "creating"}
        ~> call[u] \in {"done", "failed"}

=============================================================================
