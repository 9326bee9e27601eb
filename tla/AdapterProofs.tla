----------------------------- MODULE AdapterProofs -----------------------------
(***************************************************************************)
(* What TLAPS proves of Adapter: a request is never pending with an        *)
(* adapter that is gone, no answer is taken for another request's, the     *)
(* capabilities are those of the adapter that is there, and every          *)
(* handshake has exactly one call that awaits it.                          *)
(***************************************************************************)
EXTENDS Adapter, FiniteSetTheorems, TLAPS

-----------------------------------------------------------------------------
(* Ids are not used twice. *)
IdsBelow == \A r \in pending \cup answerable : r.id < nextID

(* The adapter's capabilities are known, or its initialize is pending. *)
KnownOrAsked ==
    child # Nothing => caps = child \/ \E p \in pending : p.for = "initialize"

ClientInv == IdsBelow /\ PendingIsWithTheChild /\ KnownOrAsked

(* A handshake under way is one request, and one call or one listing       *)
(* awaits it.                                                              *)
StartIsAwaited ==
    /\ \A p, q \in pending : p.for \in Handshake /\ q.for \in Handshake => p = q
    /\ Starting <=> (listing = "starting" \/ \E u \in Users : call[u] = "starting")
    /\ \A u, v \in Users : call[u] = "starting" /\ call[v] = "starting" => u = v
    /\ listing = "starting" => \A u \in Users : call[u] # "starting"
    /\ \A u \in Users : call[u] = "starting" => u \in Creates

ListIsAwaited ==
    \A p, q \in pending : p.for = "list" => listing = "sent" /\ (q.for = "list" => p = q)

CreatesAreAsked ==
    \A p \in pending : p.for \in Creates => call[p.for] \notin {"idle", "starting"}

WaitsInv == StartIsAwaited /\ ListIsAwaited /\ CreatesAreAsked

AdapterInv == TypeOK /\ ClientInv /\ WaitsInv

Purposes == Handshake \cup {"list", "load"} \cup Creates

LEMMA UsersAssumption ==
    /\ MaxSpawns \in Nat
    /\ Nothing \notin Processes
    /\ Creates \subseteq Users /\ Claims \subseteq Users /\ Stops \subseteq Users
    /\ Users \cap (Handshake \cup {"list", "load"}) = {}
    /\ (Claims \cup Stops) \cap Creates = {}
<1>1. MaxSpawns \in Nat
  BY AdapterAssumption, FS_CardinalityType DEF MaxSpawns
<1> QED
  BY <1>1, AdapterAssumption DEF Processes, Nothing, Users

-----------------------------------------------------------------------------
(* What the client does. *)

(* A request that is written, beside others that are with the same child. *)
LEMMA SendKeeps ==
    ASSUME TypeOK, IdsBelow, PendingIsWithTheChild,
           NEW to \in Processes, NEW for \in Purposes,
           NEW others \in SUBSET pending, NEW unread \in SUBSET answerable,
           Send(to, for, others, unread), child' = to, others # {} => child = to
    PROVE  /\ pending' \subseteq Requests /\ answerable' \subseteq Requests
           /\ nextID' \in Nat \ {0}
           /\ IdsBelow' /\ PendingIsWithTheChild'
           /\ \E r \in Requests : pending' = others \cup {r} /\ r.for = for /\ r.to = to
<1> DEFINE r == Request(nextID, to, for)
<1>1. r \in Requests /\ r.id = nextID /\ r.to = to /\ r.for = for
  BY DEF Request, Requests, Purposes, TypeOK
<1>2. /\ pending' = others \cup {r} /\ nextID' = nextID + 1
      /\ answerable' \subseteq unread \cup {r}
  BY DEF Send
<1> HIDE DEF r
<1>3. \A q \in pending \cup answerable : q.id \in Nat /\ q.id < nextID
  BY DEF TypeOK, Requests, IdsBelow
<1>4. nextID \in Nat /\ nextID' \in Nat \ {0} /\ nextID < nextID'
  BY <1>2 DEF TypeOK
<1>5. IdsBelow'
  <2>1. \A q \in pending' \cup answerable' : q = r \/ q \in pending \cup answerable
    BY <1>2
  <2>2. \A q \in pending' \cup answerable' : q.id < nextID'
    BY <1>1, <1>3, <1>4, <2>1
  <2> QED
    BY <2>2 DEF IdsBelow
<1>6. PendingIsWithTheChild'
  <2>1. \A p \in others : p.to = to /\ p.id # nextID
    BY <1>3, <1>4 DEF PendingIsWithTheChild
  <2>2. \A a \in unread : a.id # nextID
    BY <1>3, <1>4
  <2>3. ASSUME NEW p \in pending' PROVE p.to = to /\ \A a \in answerable' : a.id = p.id => a = p
    BY <1>1, <1>2, <2>1, <2>2 DEF PendingIsWithTheChild
  <2> QED
    BY <2>3 DEF PendingIsWithTheChild
<1>7. pending' \subseteq Requests /\ answerable' \subseteq Requests
  BY <1>1, <1>2 DEF TypeOK
<1> QED
  BY <1>1, <1>2, <1>4, <1>5, <1>6, <1>7

(* No child, nothing pending. *)
LEMMA NoChildNothingPending ==
    ASSUME TypeOK, PendingIsWithTheChild, child = Nothing
    PROVE  pending = {}
BY UsersAssumption DEF TypeOK, PendingIsWithTheChild, Requests

(* A new adapter: its initialize is all that is pending. *)
LEMMA SpawnKeeps ==
    ASSUME TypeOK, IdsBelow, PendingIsWithTheChild, Spawn
    PROVE  /\ pending = {} /\ ClientInv'
           /\ child' \in Processes /\ process' \in [Processes -> {"unborn", "running", "ended", "reaped"}]
           /\ pending' \subseteq Requests /\ answerable' \subseteq Requests
           /\ nextID' \in Nat \ {0} /\ torn' = torn /\ caps' = caps
           /\ \E r \in Requests : pending' = {r} /\ r.for = "initialize"
<1>1. PICK c \in Processes :
         /\ child = Nothing /\ child' = c /\ process' = [process EXCEPT ![c] = "running"]
         /\ Send(c, "initialize", pending, answerable) /\ UNCHANGED <<torn, caps>>
  BY DEF Spawn
<1>2. pending = {}
  BY <1>1, NoChildNothingPending
<1>3. "initialize" \in Purposes
  BY DEF Purposes, Handshake
<1>4. /\ pending' \subseteq Requests /\ answerable' \subseteq Requests
      /\ nextID' \in Nat \ {0} /\ IdsBelow' /\ PendingIsWithTheChild'
      /\ \E r \in Requests : pending' = pending \cup {r} /\ r.for = "initialize" /\ r.to = c
  <2>1. /\ pending \in SUBSET pending /\ answerable \in SUBSET answerable
        /\ Send(c, "initialize", pending, answerable) /\ child' = c /\ (pending # {} => child = c)
    BY <1>1, <1>2
  <2> QED
    BY <1>3, <2>1, SendKeeps
<1>5. KnownOrAsked'
  BY <1>4 DEF KnownOrAsked
<1>6. process' \in [Processes -> {"unborn", "running", "ended", "reaped"}]
  BY <1>1 DEF TypeOK
<1> QED
  BY <1>1, <1>2, <1>4, <1>5, <1>6 DEF ClientInv

(* A request to the child, when another one may have been answered. *)
LEMMA ChildIsAsked ==
    ASSUME TypeOK, ClientInv, child \in Processes, child' = child,
           NEW for \in Purposes, NEW others \in SUBSET pending, NEW unread \in SUBSET answerable,
           Send(child, for, others, unread),
           \/ caps' = child
           \/ caps' = caps /\ \A p \in pending : p.for = "initialize" => p \in others
    PROVE  /\ ClientInv'
           /\ pending' \subseteq Requests /\ answerable' \subseteq Requests
           /\ nextID' \in Nat \ {0}
           /\ \E r \in Requests : pending' = others \cup {r} /\ r.for = for
<1>1. /\ pending' \subseteq Requests /\ answerable' \subseteq Requests
      /\ nextID' \in Nat \ {0} /\ IdsBelow' /\ PendingIsWithTheChild'
      /\ \E r \in Requests : pending' = others \cup {r} /\ r.for = for /\ r.to = child
  BY SendKeeps DEF ClientInv
<1>2. KnownOrAsked'
  BY <1>1 DEF KnownOrAsked, ClientInv
<1> QED
  BY <1>1, <1>2 DEF ClientInv

(* Requests are taken off, and nothing is written. *)
LEMMA FewerKeep ==
    ASSUME TypeOK, ClientInv, pending' \subseteq pending, answerable' \subseteq answerable,
           nextID' = nextID,
           \/ child' = Nothing /\ pending' = {}
           \/ child' = child /\ caps' = child
           \/ /\ child' = child /\ caps' = caps
              /\ \A p \in pending : p.for = "initialize" => p \in pending'
    PROVE  ClientInv' /\ pending' \subseteq Requests /\ answerable' \subseteq Requests
BY DEF TypeOK, ClientInv, IdsBelow, PendingIsWithTheChild, KnownOrAsked

-----------------------------------------------------------------------------
(* What the calls make of it. *)

(* A handshake neither begins nor ends, and nobody comes to wait for one. *)
LEMMA WaitsKeep ==
    ASSUME WaitsInv, \A u \in Users : call'[u] = "starting" <=> call[u] = "starting",
           \A p \in pending' : p.for \in Handshake => p \in pending,
           \A p \in pending : p.for \in Handshake => p \in pending',
           listing' = "starting" <=> listing = "starting",
           ListIsAwaited', CreatesAreAsked'
    PROVE  WaitsInv'
BY DEF WaitsInv, StartIsAwaited, Starting

(* A call that was no handshake's fails for those who share it. *)
LEMMA RejectedWaits ==
    ASSUME AdapterInv, NEW p \in pending, p.for \notin Handshake,
           pending' = pending \ {p}, Failed({p})
    PROVE  /\ WaitsInv' /\ call' \in [Users -> Stages]
           /\ listing' \in {"none", "starting", "sent"} /\ loading' \in {"none", "preparing", "sent"}
<1> USE DEF AdapterInv
<1> DEFINE gone == (IF p.for = "list" THEN Waiting("listing") ELSE {})
                   \cup (IF p.for = "load" THEN Waiting("loading") ELSE {})
                   \cup ({p.for} \cap Creates)
<1>1. /\ call' = [u \in Users |-> IF u \in gone THEN "failed" ELSE call[u]]
      /\ listing' = IF p.for = "list" THEN "none" ELSE listing
      /\ loading' = IF p.for = "load" THEN "none" ELSE loading
  <2>1. {q.for : q \in {p}} = {p.for} /\ {p.for} \cap Handshake = {}
    OBVIOUS
  <2> QED
    BY <2>1 DEF Failed
<1>2. \A u \in gone : call[u] # "starting"
  BY DEF Waiting, WaitsInv, CreatesAreAsked
<1> HIDE DEF gone
<1>3. /\ call' \in [Users -> Stages]
      /\ listing' \in {"none", "starting", "sent"} /\ loading' \in {"none", "preparing", "sent"}
  BY <1>1 DEF TypeOK, Stages
<1>4. \A u \in Users : call'[u] \in {"failed", call[u]} /\ (call'[u] = "starting" <=> call[u] = "starting")
  BY <1>1, <1>2
<1>5. listing' = "starting" <=> listing = "starting"
  BY <1>1 DEF WaitsInv, ListIsAwaited
<1>6. ListIsAwaited'
  BY <1>1 DEF WaitsInv, ListIsAwaited
<1>7. CreatesAreAsked'
  BY <1>4, UsersAssumption DEF WaitsInv, CreatesAreAsked
<1> QED
  BY <1>3, <1>4, <1>5, <1>6, <1>7, WaitsKeep

(* The child goes: every request fails for everybody. *)
LEMMA LostWaits ==
    ASSUME AdapterInv, LoseChild
    PROVE  /\ WaitsInv' /\ call' \in [Users -> Stages] /\ child' = Nothing /\ pending' = {}
           /\ listing' \in {"none", "starting", "sent"} /\ loading' \in {"none", "preparing", "sent"}
<1> USE DEF AdapterInv
<1> DEFINE fors == {p.for : p \in pending}
           gone == (IF "list" \in fors THEN Waiting("listing") ELSE {})
                   \cup (IF "load" \in fors THEN Waiting("loading") ELSE {})
                   \cup (fors \cap Creates)
                   \cup (IF fors \cap Handshake # {}
                         THEN Waiting("starting") \cup IF listing = "starting" THEN Waiting("listing") ELSE {}
                         ELSE {})
<1>1. /\ child' = Nothing /\ pending' = {}
      /\ call' = [u \in Users |-> IF u \in gone THEN "failed" ELSE call[u]]
      /\ listing' = IF "list" \in fors \/ (fors \cap Handshake # {} /\ listing = "starting")
                    THEN "none" ELSE listing
      /\ loading' = IF "load" \in fors THEN "none" ELSE loading
  BY DEF LoseChild, Failed
<1>2. Starting <=> fors \cap Handshake # {}
  BY DEF Starting
<1>3. fors \cap Handshake # {} => \A u \in Users : call[u] = "starting" => u \in gone
  BY DEF Waiting
<1> HIDE DEF gone, fors
<1>4. \A u \in Users : call'[u] # "starting"
  BY <1>1, <1>2, <1>3 DEF WaitsInv, StartIsAwaited
<1>5. listing' # "starting"
  BY <1>1, <1>2 DEF WaitsInv, StartIsAwaited
<1>6. WaitsInv'
  BY <1>1, <1>4, <1>5 DEF WaitsInv, StartIsAwaited, Starting, ListIsAwaited, CreatesAreAsked
<1>7. /\ call' \in [Users -> Stages]
      /\ listing' \in {"none", "starting", "sent"} /\ loading' \in {"none", "preparing", "sent"}
  BY <1>1 DEF TypeOK, Stages
<1> QED
  BY <1>1, <1>6, <1>7

-----------------------------------------------------------------------------
(* The types, of the client and of its callers. *)
ClientTypes ==
    /\ child \in Processes \cup {Nothing}
    /\ process \in [Processes -> {"unborn", "running", "ended", "reaped"}]
    /\ nextID \in Nat \ {0}
    /\ pending \subseteq Requests /\ answerable \subseteq Requests
    /\ torn \in BOOLEAN /\ caps \in Processes \cup {Nothing}

CallTypes ==
    /\ listing \in {"none", "starting", "sent"} /\ loading \in {"none", "preparing", "sent"}
    /\ call \in [Users -> Stages]
    /\ isOpen \in BOOLEAN /\ owned \in BOOLEAN /\ claimed \in BOOLEAN

LEMMA TypesSplit == (TypeOK <=> ClientTypes /\ CallTypes) /\ (TypeOK' <=> ClientTypes' /\ CallTypes')
BY DEF TypeOK, ClientTypes, CallTypes

(* A request of a call, to the child that is there. *)
LEMMA StartedRequestKeeps ==
    ASSUME AdapterInv, NEW for \in Purposes, StartedRequest(for)
    PROVE  /\ ClientInv' /\ ClientTypes'
           /\ \E r \in Requests : pending' = pending \cup {r} /\ r.for = for
<1> USE DEF AdapterInv
<1>1. /\ child \in Processes /\ Send(child, for, pending, answerable)
      /\ UNCHANGED <<process, child, torn, caps>>
  BY DEF StartedRequest, TypeOK
<1>2. pending \in SUBSET pending /\ answerable \in SUBSET answerable
  OBVIOUS
<1>3. /\ ClientInv' /\ pending' \subseteq Requests /\ answerable' \subseteq Requests
      /\ nextID' \in Nat \ {0} /\ \E r \in Requests : pending' = pending \cup {r} /\ r.for = for
  BY <1>1, <1>2, ChildIsAsked
<1> QED
  BY <1>1, <1>3 DEF TypeOK, ClientTypes

LEMMA UnchangedClient ==
    ASSUME AdapterInv, UNCHANGED client
    PROVE  ClientInv' /\ ClientTypes'
BY DEF AdapterInv, client, ClientInv, IdsBelow, PendingIsWithTheChild, KnownOrAsked, TypeOK,
       ClientTypes

-----------------------------------------------------------------------------
(* The calls. *)
LEMMA BeginListingKeeps ==
    ASSUME AdapterInv, NEW u \in Users, u \notin Creates, call[u] = "idle", BeginListing(u)
    PROVE  AdapterInv'
<1> USE DEF AdapterInv
<1>1. call' = [call EXCEPT ![u] = "listing"] /\ UNCHANGED <<loading, isOpen, owned, claimed>>
  BY DEF BeginListing, service
<1>2. /\ call' \in [Users -> Stages]
      /\ \A v \in Users : (call'[v] = "starting" <=> call[v] = "starting") /\ (v # u => call'[v] = call[v])
  BY <1>1 DEF TypeOK, Stages
<1>3. CASE listing # "none" /\ UNCHANGED <<client, listing>>
  <2>1. CreatesAreAsked' /\ ListIsAwaited' /\ pending' = pending
    BY <1>2, <1>3, UsersAssumption DEF client, WaitsInv, CreatesAreAsked, ListIsAwaited
  <2> QED
    BY <1>1, <1>2, <1>3, <2>1, UnchangedClient, WaitsKeep, TypesSplit DEF CallTypes
<1>4. CASE listing = "none" /\ Spawn /\ listing' = "starting"
  <2>1. /\ pending = {} /\ ClientInv' /\ ClientTypes'
        /\ \E r \in Requests : pending' = {r} /\ r.for = "initialize"
    BY <1>4, SpawnKeeps DEF ClientInv, TypeOK, ClientTypes
  <2>2. \A v \in Users : call'[v] # "starting"
    BY <1>2, <2>1 DEF WaitsInv, StartIsAwaited, Starting
  <2>3. WaitsInv'
    BY <1>4, <2>1, <2>2, UsersAssumption
    DEF WaitsInv, StartIsAwaited, Starting, Handshake, ListIsAwaited, CreatesAreAsked
  <2> QED
    BY <1>1, <1>2, <1>4, <2>1, <2>3, TypesSplit DEF CallTypes
<1>5. CASE listing = "none" /\ StartedRequest("list") /\ listing' = "sent"
  <2>1. PICK r \in Requests : ClientInv' /\ ClientTypes' /\ pending' = pending \cup {r} /\ r.for = "list"
    BY <1>5, StartedRequestKeeps DEF Purposes
  <2>2. ListIsAwaited'
    BY <1>5, <2>1 DEF WaitsInv, ListIsAwaited
  <2>3. CreatesAreAsked' /\ r.for \notin Handshake
    BY <1>2, <2>1, UsersAssumption DEF WaitsInv, CreatesAreAsked, Handshake
  <2>4. WaitsInv'
    BY <1>2, <1>5, <2>1, <2>2, <2>3, WaitsKeep
  <2> QED
    BY <1>1, <1>2, <1>5, <2>1, <2>4, TypesSplit DEF CallTypes
<1> QED
  BY <1>3, <1>4, <1>5 DEF BeginListing

LEMMA CreateKeeps ==
    ASSUME AdapterInv, NEW u \in Users, Create(u)
    PROVE  AdapterInv'
<1> USE DEF AdapterInv
<1>1. u \in Creates /\ call[u] = "idle" /\ UNCHANGED <<listing, loading, isOpen, owned, claimed>>
  BY DEF Create, service
<1>2. u \notin Handshake /\ u # "list" /\ u \in Purposes
  BY <1>1, UsersAssumption DEF Purposes
<1>3. CASE Spawn /\ call' = [call EXCEPT ![u] = "starting"]
  <2>1. /\ pending = {} /\ ClientInv' /\ ClientTypes'
        /\ \E r \in Requests : pending' = {r} /\ r.for = "initialize"
    BY <1>3, SpawnKeeps DEF ClientInv, TypeOK, ClientTypes
  <2>2. \A v \in Users : call[v] # "starting"
    BY <2>1 DEF WaitsInv, StartIsAwaited, Starting
  <2>3. listing # "starting"
    BY <2>1 DEF WaitsInv, StartIsAwaited, Starting
  <2>4. /\ call' \in [Users -> Stages] /\ \A v \in Users : call'[v] = "starting" <=> v = u
    BY <1>3, <2>2 DEF TypeOK, Stages
  <2>5. WaitsInv'
    BY <1>1, <2>1, <2>3, <2>4, UsersAssumption
    DEF WaitsInv, StartIsAwaited, Starting, Handshake, ListIsAwaited, CreatesAreAsked
  <2>6. CallTypes'
    BY <1>1, <2>4 DEF TypeOK, CallTypes
  <2> QED
    BY <2>1, <2>5, <2>6, TypesSplit
<1>4. CASE StartedRequest(u) /\ call' = [call EXCEPT ![u] = "creating"]
  <2>1. PICK r \in Requests : ClientInv' /\ ClientTypes' /\ pending' = pending \cup {r} /\ r.for = u
    BY <1>2, <1>4, StartedRequestKeeps
  <2>2. /\ call' \in [Users -> Stages] /\ call'[u] = "creating"
        /\ \A v \in Users : (call'[v] = "starting" <=> call[v] = "starting") /\ (v # u => call'[v] = call[v])
    BY <1>1, <1>4 DEF TypeOK, Stages
  <2>3. ListIsAwaited'
    BY <1>1, <1>2, <2>1 DEF WaitsInv, ListIsAwaited
  <2>4. CreatesAreAsked'
    BY <2>1, <2>2, UsersAssumption DEF WaitsInv, CreatesAreAsked
  <2>5. WaitsInv'
    BY <1>1, <1>2, <2>1, <2>2, <2>3, <2>4, WaitsKeep
  <2> QED
    BY <1>1, <2>1, <2>2, <2>5, TypesSplit DEF CallTypes
<1> QED
  BY <1>3, <1>4 DEF Create

(* A call moves on, and the client is left alone. *)
LEMMA CallsMove ==
    ASSUME AdapterInv, UNCHANGED <<client, listing>>, CallTypes',
           \A v \in Users : (call'[v] \in {"idle", "starting"} \/ call[v] = "starting") => call'[v] = call[v]
    PROVE  AdapterInv'
<1> USE DEF AdapterInv
<1>1. ListIsAwaited' /\ CreatesAreAsked' /\ pending' = pending
  BY UsersAssumption DEF client, WaitsInv, ListIsAwaited, CreatesAreAsked
<1>2. WaitsInv'
  BY <1>1, WaitsKeep
<1> QED
  BY <1>2, UnchangedClient, TypesSplit

LEMMA StopKeeps ==
    ASSUME AdapterInv, NEW u \in Users, Stop(u)
    PROVE  AdapterInv'
<1>1. u \in Stops /\ u \notin Creates /\ call[u] = "idle"
  BY UsersAssumption DEF Stop
<1>2. CASE claimed
  <2>1. call' = [call EXCEPT ![u] = EndOf(u)] /\ UNCHANGED <<client, listing, loading, isOpen, owned, claimed>>
    BY <1>2 DEF Stop
  <2>2. EndOf(u) \in {"done", "failed"}
    BY DEF EndOf
  <2>3. CallTypes'
    BY <2>1, <2>2 DEF AdapterInv, TypeOK, CallTypes, Stages
  <2>4. \A v \in Users : (call'[v] \in {"idle", "starting"} \/ call[v] = "starting") => call'[v] = call[v]
    BY <1>1, <2>1, <2>2 DEF AdapterInv, TypeOK
  <2> QED
    BY <2>1, <2>3, <2>4, CallsMove
<1>3. CASE ~claimed
  BY <1>1, <1>3, BeginListingKeeps DEF Stop
<1> QED
  BY <1>2, <1>3

LEMMA SendLoadKeeps ==
    ASSUME AdapterInv, SendLoad
    PROVE  AdapterInv'
<1> USE DEF AdapterInv
<1>1. UNCHANGED <<listing, isOpen, owned, claimed>>
  BY DEF SendLoad, service
<1>2. CASE child = Nothing
  <2>1. /\ loading' = "none" /\ UNCHANGED client
        /\ call' = [u \in Users |-> IF call[u] = "loading" THEN "failed" ELSE call[u]]
    BY <1>2 DEF SendLoad
  <2>2. CallTypes'
    BY <1>1, <2>1 DEF TypeOK, CallTypes, Stages
  <2> QED
    BY <1>1, <2>1, <2>2, CallsMove
<1>3. CASE child # Nothing
  <2>1. loading' = "sent" /\ StartedRequest("load") /\ call' = call
    BY <1>3 DEF SendLoad
  <2>2. PICK r \in Requests : ClientInv' /\ ClientTypes' /\ pending' = pending \cup {r} /\ r.for = "load"
    BY <2>1, StartedRequestKeeps DEF Purposes
  <2>3. ListIsAwaited' /\ CreatesAreAsked' /\ r.for \notin Handshake
    BY <1>1, <2>1, <2>2, UsersAssumption DEF WaitsInv, ListIsAwaited, CreatesAreAsked, Handshake
  <2>4. WaitsInv'
    BY <1>1, <2>1, <2>2, <2>3, WaitsKeep
  <2> QED
    BY <1>1, <2>1, <2>2, <2>4, TypesSplit DEF CallTypes
<1> QED
  BY <1>2, <1>3

-----------------------------------------------------------------------------
(* The answers. *)

(* The handshake's last answer: who awaited the start sends its request. *)
LEMMA StartedKeeps ==
    ASSUME AdapterInv, NEW p \in pending, p.for \in Handshake,
           NEW unread \in SUBSET answerable, Started(pending \ {p}, unread), child' = child,
           \/ caps' = child
           \/ p.for = "authenticate" /\ caps' = caps
    PROVE  /\ ClientInv' /\ pending' \subseteq Requests /\ answerable' \subseteq Requests
           /\ nextID' \in Nat \ {0}
           /\ WaitsInv' /\ listing' \in {"none", "starting", "sent"} /\ call' \in [Users -> Stages]
<1> USE DEF AdapterInv
<1> DEFINE others == pending \ {p}
<1>1. /\ child \in Processes /\ others \in SUBSET pending
      /\ \A q \in others : q.for \notin Handshake
  BY DEF ClientInv, PendingIsWithTheChild, TypeOK, Requests, WaitsInv, StartIsAwaited
<1>2. Starting
  BY DEF Starting
<1>3. \/ caps' = child
      \/ caps' = caps /\ \A q \in pending : q.for = "initialize" => q \in others
  OBVIOUS
<1>4. CASE listing = "starting"
  <2>1. listing' = "sent" /\ Send(child, "list", others, unread) /\ call' = call
    BY <1>4 DEF Started
  <2>2. "list" \in Purposes /\ "list" \notin Handshake
    BY DEF Purposes, Handshake
  <2>3. PICK r \in Requests :
           /\ ClientInv' /\ pending' \subseteq Requests /\ answerable' \subseteq Requests
           /\ nextID' \in Nat \ {0} /\ pending' = others \cup {r} /\ r.for = "list"
    BY <1>1, <1>3, <2>1, <2>2, ChildIsAsked
  <2>4. \A u \in Users : call'[u] # "starting"
    BY <1>4, <2>1 DEF WaitsInv, StartIsAwaited
  <2>5. StartIsAwaited'
    BY <1>1, <2>1, <2>2, <2>3, <2>4 DEF StartIsAwaited, Starting
  <2>6. ListIsAwaited'
    BY <1>4, <2>1, <2>3 DEF WaitsInv, ListIsAwaited
  <2>7. CreatesAreAsked'
    BY <2>1, <2>3, UsersAssumption DEF WaitsInv, CreatesAreAsked
  <2> QED
    BY <2>1, <2>3, <2>5, <2>6, <2>7 DEF WaitsInv, TypeOK
<1>5. CASE listing # "starting"
  <2> DEFINE w == CHOOSE v \in Users : call[v] = "starting"
  <2>1. /\ call' = [call EXCEPT ![w] = "creating"] /\ Send(child, w, others, unread)
        /\ listing' = listing
    BY <1>5 DEF Started
  <2>2. w \in Users /\ call[w] = "starting" /\ w \in Creates
    BY <1>2, <1>5 DEF WaitsInv, StartIsAwaited
  <2>3. PICK u \in Creates : u = w
    BY <2>2
  <2> HIDE DEF w
  <2>4. u \in Purposes /\ u \notin Handshake /\ u # "list" /\ u \in Users
    BY <2>2, <2>3, UsersAssumption DEF Purposes
  <2>5. PICK r \in Requests :
           /\ ClientInv' /\ pending' \subseteq Requests /\ answerable' \subseteq Requests
           /\ nextID' \in Nat \ {0} /\ pending' = others \cup {r} /\ r.for = u
    BY <1>1, <1>3, <2>1, <2>3, <2>4, ChildIsAsked
  <2>6. /\ call' \in [Users -> Stages] /\ call'[u] = "creating"
        /\ \A v \in Users : v # u => call'[v] = call[v]
    BY <2>1, <2>3, <2>4 DEF TypeOK, Stages
  <2>7. \A v \in Users : call'[v] # "starting"
    BY <2>2, <2>3, <2>6 DEF WaitsInv, StartIsAwaited
  <2>8. StartIsAwaited'
    BY <1>1, <1>5, <2>1, <2>4, <2>5, <2>7 DEF StartIsAwaited, Starting
  <2>9. ListIsAwaited'
    BY <2>1, <2>4, <2>5 DEF WaitsInv, ListIsAwaited
  <2>10. CreatesAreAsked'
    BY <2>5, <2>6, UsersAssumption DEF WaitsInv, CreatesAreAsked
  <2> QED
    BY <2>1, <2>5, <2>6, <2>8, <2>9, <2>10 DEF WaitsInv, TypeOK
<1> QED
  BY <1>4, <1>5

(* A request is answered that was no handshake's. *)
LEMMA AnsweredKeeps ==
    ASSUME AdapterInv, NEW p \in pending, p.for \notin Handshake,
           pending' = pending \ {p}, answerable' \subseteq answerable,
           UNCHANGED <<child, process, nextID, caps>>, torn' \in BOOLEAN,
           listing' = (IF p.for = "list" THEN "none" ELSE listing), CallTypes',
           \A v \in Users : (call'[v] \in {"idle", "starting"} \/ call[v] = "starting") => call'[v] = call[v]
    PROVE  AdapterInv'
<1> USE DEF AdapterInv
<1>1. ClientInv' /\ pending' \subseteq Requests /\ answerable' \subseteq Requests
  BY FewerKeep DEF Handshake
<1>2. ClientTypes'
  BY <1>1 DEF TypeOK, ClientTypes
<1>3. ListIsAwaited' /\ (listing' = "starting" <=> listing = "starting")
  BY DEF WaitsInv, ListIsAwaited
<1>4. CreatesAreAsked'
  BY UsersAssumption DEF WaitsInv, CreatesAreAsked
<1>5. WaitsInv'
  BY <1>3, <1>4, WaitsKeep
<1> QED
  BY <1>1, <1>2, <1>5, TypesSplit

LEMMA ResolveKeeps ==
    ASSUME AdapterInv, NEW p \in pending, NEW unread \in SUBSET answerable,
           Resolve(p, unread), torn' \in BOOLEAN
    PROVE  AdapterInv'
<1> USE DEF AdapterInv
<1> DEFINE others == pending \ {p}
<1>1. child' = child /\ process' = process /\ p.to = child /\ child \in Processes
  BY DEF Resolve, ClientInv, PendingIsWithTheChild, TypeOK, Requests
<1>2. ASSUME p.for \in Handshake, Started(others, unread), UNCHANGED <<loading, service>>,
             \/ caps' = child
             \/ p.for = "authenticate" /\ caps' = caps
      PROVE  AdapterInv'
  <2>1. /\ ClientInv' /\ pending' \subseteq Requests /\ answerable' \subseteq Requests
        /\ nextID' \in Nat \ {0}
        /\ WaitsInv' /\ listing' \in {"none", "starting", "sent"} /\ call' \in [Users -> Stages]
    BY <1>1, <1>2, StartedKeeps
  <2>2. ClientTypes'
    BY <1>1, <1>2, <2>1 DEF TypeOK, ClientTypes
  <2>3. CallTypes'
    BY <1>2, <2>1 DEF TypeOK, CallTypes, service
  <2> QED
    BY <2>1, <2>2, <2>3, TypesSplit
<1>3. CASE /\ p.for = "initialize" /\ caps' = p.to /\ Send(child, "authenticate", others, unread)
           /\ UNCHANGED <<call, listing>> /\ UNCHANGED <<loading, service>>
  <2>1. "authenticate" \in Purposes /\ others \in SUBSET pending
    BY DEF Purposes, Handshake
  <2>2. PICK r \in Requests :
           /\ ClientInv' /\ pending' \subseteq Requests /\ answerable' \subseteq Requests
           /\ nextID' \in Nat \ {0} /\ pending' = others \cup {r} /\ r.for = "authenticate"
    BY <1>1, <1>3, <2>1, ChildIsAsked
  <2>3. ClientTypes' /\ CallTypes'
    BY <1>1, <1>3, <2>2 DEF TypeOK, ClientTypes, CallTypes, service
  <2>4. /\ p.for \in Handshake /\ r.for \in Handshake /\ r.for # "list"
        /\ \A q \in others : q.for \notin Handshake
    BY <1>3, <2>2 DEF Handshake, WaitsInv, StartIsAwaited
  <2>5. StartIsAwaited'
    BY <1>3, <2>2, <2>4 DEF WaitsInv, StartIsAwaited, Starting
  <2>6. ListIsAwaited'
    BY <1>3, <2>2, <2>4 DEF WaitsInv, ListIsAwaited
  <2>7. CreatesAreAsked'
    BY <1>3, <2>2, <2>4, UsersAssumption DEF WaitsInv, CreatesAreAsked
  <2> QED
    BY <2>2, <2>3, <2>5, <2>6, <2>7, TypesSplit DEF WaitsInv
<1>4. \A u : EndOf(u) \in {"done", "failed"}
  BY DEF EndOf
<1>5. CASE /\ p.for = "list" /\ Listed /\ listing' = "none" /\ pending' = others
           /\ answerable' = unread /\ UNCHANGED <<nextID, caps>>
  <2>1. \/ /\ call' = [u \in Users |-> IF u \in Waiting("listing") THEN EndOf(u) ELSE call[u]]
           /\ owned' = TRUE /\ claimed' = TRUE /\ UNCHANGED <<loading, isOpen>>
        \/ /\ call' = [u \in Users |-> IF u \in Waiting("listing") THEN "loading" ELSE call[u]]
           /\ loading' \in {loading, "preparing"} /\ UNCHANGED <<isOpen, owned, claimed>>
    BY <1>5 DEF Listed, service
  <2>2. CallTypes'
    BY <1>4, <1>5, <2>1 DEF TypeOK, CallTypes, Stages
  <2>3. \A v \in Users : (call'[v] \in {"idle", "starting"} \/ call[v] = "starting") => call'[v] = call[v]
    BY <1>4, <2>1 DEF Waiting
  <2> QED
    BY <1>1, <1>5, <2>2, <2>3, AnsweredKeeps DEF Handshake
<1>6. CASE /\ p.for = "load" /\ Loaded /\ pending' = others /\ answerable' = unread
           /\ UNCHANGED <<nextID, caps, listing>>
  <2>1. /\ call' = [u \in Users |-> IF u \in Waiting("loading") THEN EndOf(u) ELSE call[u]]
        /\ owned' = TRUE /\ claimed' = TRUE /\ isOpen' = TRUE /\ loading' = "none"
    BY <1>6 DEF Loaded
  <2>2. CallTypes'
    BY <1>4, <1>6, <2>1 DEF TypeOK, CallTypes, Stages
  <2>3. \A v \in Users : (call'[v] \in {"idle", "starting"} \/ call[v] = "starting") => call'[v] = call[v]
    BY <1>4, <2>1 DEF Waiting
  <2> QED
    BY <1>1, <1>6, <2>2, <2>3, AnsweredKeeps DEF Handshake
<1>7. CASE /\ p.for \in Creates /\ call' = [call EXCEPT ![p.for] = "done"]
           /\ pending' = others /\ answerable' = unread
           /\ UNCHANGED <<nextID, caps, listing, loading, service>>
  <2>1. p.for \in Users /\ p.for \notin Handshake /\ p.for # "list" /\ call[p.for] # "starting"
    BY <1>7, UsersAssumption DEF WaitsInv, CreatesAreAsked
  <2>2. CallTypes'
    BY <1>7 DEF TypeOK, CallTypes, Stages, service
  <2>3. \A v \in Users : (call'[v] \in {"idle", "starting"} \/ call[v] = "starting") => call'[v] = call[v]
    BY <1>7, <2>1 DEF TypeOK
  <2> QED
    BY <1>1, <1>7, <2>1, <2>2, <2>3, AnsweredKeeps
<1> QED
  BY <1>1, <1>2, <1>3, <1>5, <1>6, <1>7 DEF Resolve, Handshake

LEMMA RejectKeeps ==
    ASSUME AdapterInv, NEW p \in pending, Reject(p), answerable' \subseteq answerable,
           UNCHANGED <<process, nextID, caps, service>>, torn' \in BOOLEAN
    PROVE  AdapterInv'
<1> USE DEF AdapterInv
<1>1. CASE p.for \in Handshake
  <2>1. /\ WaitsInv' /\ call' \in [Users -> Stages] /\ child' = Nothing /\ pending' = {}
        /\ listing' \in {"none", "starting", "sent"} /\ loading' \in {"none", "preparing", "sent"}
    BY <1>1, LostWaits DEF Reject
  <2>2. ClientInv' /\ ClientTypes' /\ CallTypes'
    BY <2>1, FewerKeep DEF TypeOK, ClientTypes, CallTypes, service
  <2> QED
    BY <2>1, <2>2, TypesSplit
<1>2. CASE p.for \notin Handshake
  <2>1. pending' = pending \ {p} /\ Failed({p}) /\ child' = child
    BY <1>2 DEF Reject
  <2>2. /\ WaitsInv' /\ call' \in [Users -> Stages]
        /\ listing' \in {"none", "starting", "sent"} /\ loading' \in {"none", "preparing", "sent"}
    BY <1>2, <2>1, RejectedWaits
  <2>3. ClientInv' /\ pending' \subseteq Requests /\ answerable' \subseteq Requests
    BY <1>2, <2>1, FewerKeep DEF Handshake
  <2>4. ClientTypes' /\ CallTypes'
    BY <2>1, <2>2, <2>3 DEF TypeOK, ClientTypes, CallTypes, service
  <2> QED
    BY <2>2, <2>3, <2>4, TypesSplit
<1> QED
  BY <1>1, <1>2

LEMMA AnswerKeeps ==
    ASSUME AdapterInv, NEW r \in answerable, Answer(r)
    PROVE  AdapterInv'
<1> USE DEF AdapterInv
<1>1. torn' = FALSE
  BY DEF Answer
<1>2. CASE /\ answerable' = answerable \ {r}
           /\ UNCHANGED <<child, process, nextID, pending, caps, listing, loading, call, service>>
  <2>1. ClientInv'
    BY <1>2, FewerKeep DEF ClientInv, IdsBelow, PendingIsWithTheChild, KnownOrAsked
  <2>2. ClientTypes' /\ CallTypes'
    BY <1>1, <1>2 DEF TypeOK, ClientTypes, CallTypes, service
  <2>3. WaitsInv'
    BY <1>2 DEF WaitsInv, StartIsAwaited, Starting, ListIsAwaited, CreatesAreAsked
  <2> QED
    BY <2>1, <2>2, <2>3, TypesSplit
<1>3. ASSUME NEW p \in pending, Resolve(p, answerable \ {r}) PROVE AdapterInv'
  <2>1. answerable \ {r} \in SUBSET answerable
    OBVIOUS
  <2> QED
    BY <1>1, <1>3, <2>1, ResolveKeeps
<1>4. ASSUME NEW p \in pending, Reject(p), answerable' = answerable \ {r},
             UNCHANGED <<process, nextID, caps, service>>
      PROVE  AdapterInv'
  BY <1>1, <1>4, RejectKeeps
<1> QED
  BY <1>2, <1>3, <1>4 DEF Answer

(* The end of a process, and its exit event. *)
LEMMA ProcessKeeps ==
    ASSUME AdapterInv, NEW c \in Processes, ProcessEnds(c) \/ ExitEvent(c)
    PROVE  AdapterInv'
<1> USE DEF AdapterInv
<1>1. CASE ProcessEnds(c)
  <2>1. /\ process' = [process EXCEPT ![c] = "ended"] /\ torn' \in BOOLEAN /\ answerable' \subseteq answerable
        /\ UNCHANGED <<child, nextID, pending, caps, listing, loading, call, service>>
    BY <1>1 DEF ProcessEnds, TypeOK
  <2>2. ClientInv'
    BY <2>1, FewerKeep DEF ClientInv, IdsBelow, PendingIsWithTheChild, KnownOrAsked
  <2>3. ClientTypes' /\ CallTypes'
    BY <2>1 DEF TypeOK, ClientTypes, CallTypes, service
  <2>4. WaitsInv'
    BY <2>1 DEF WaitsInv, StartIsAwaited, Starting, ListIsAwaited, CreatesAreAsked
  <2> QED
    BY <2>2, <2>3, <2>4, TypesSplit
<1>2. CASE ExitEvent(c)
  <2>1. /\ process' = [process EXCEPT ![c] = "reaped"]
        /\ UNCHANGED <<nextID, answerable, torn, caps, isOpen, owned>>
    BY <1>2 DEF ExitEvent
  <2>2. process' \in [Processes -> {"unborn", "running", "ended", "reaped"}]
    BY <2>1 DEF TypeOK
  <2>3. CASE UNCHANGED <<child, pending, call, listing, loading, claimed>>
    <3>1. ClientInv'
      BY <2>1, <2>3 DEF ClientInv, IdsBelow, PendingIsWithTheChild, KnownOrAsked
    <3>2. ClientTypes' /\ CallTypes'
      BY <2>1, <2>2, <2>3 DEF TypeOK, ClientTypes, CallTypes
    <3>3. WaitsInv'
      BY <2>3 DEF WaitsInv, StartIsAwaited, Starting, ListIsAwaited, CreatesAreAsked
    <3> QED
      BY <3>1, <3>2, <3>3, TypesSplit
  <2>4. CASE LoseChild /\ claimed' = FALSE
    <3>1. /\ WaitsInv' /\ call' \in [Users -> Stages] /\ child' = Nothing /\ pending' = {}
          /\ listing' \in {"none", "starting", "sent"} /\ loading' \in {"none", "preparing", "sent"}
      BY <2>4, LostWaits
    <3>2. ClientInv' /\ ClientTypes' /\ CallTypes'
      BY <2>1, <2>2, <2>4, <3>1, FewerKeep DEF TypeOK, ClientTypes, CallTypes
    <3> QED
      BY <3>1, <3>2, TypesSplit
  <2> QED
    BY <1>2, <2>3, <2>4 DEF ExitEvent, ForgetClaims
<1> QED
  BY <1>1, <1>2

-----------------------------------------------------------------------------
LEMMA InitAdapter ==
    ASSUME Init PROVE AdapterInv
<1>1. TypeOK
  <2>1. call \in [Users -> Stages] /\ process \in [Processes -> {"unborn", "running", "ended", "reaped"}]
    BY DEF Init, Stages
  <2>2. pending \subseteq Requests /\ answerable \subseteq Requests /\ nextID \in Nat \ {0}
    BY DEF Init
  <2> QED
    BY <2>1, <2>2 DEF Init, TypeOK
<1>2. ClientInv
  BY DEF Init, ClientInv, IdsBelow, PendingIsWithTheChild, KnownOrAsked
<1>3. WaitsInv
  BY DEF Init, WaitsInv, StartIsAwaited, Starting, ListIsAwaited, CreatesAreAsked
<1> QED
  BY <1>1, <1>2, <1>3 DEF AdapterInv

LEMMA NextAdapter ==
    ASSUME AdapterInv, [Next]_vars PROVE AdapterInv'
<1>1. ASSUME NEW u \in Users, Claim(u) PROVE AdapterInv'
  BY <1>1, BeginListingKeeps, UsersAssumption DEF Claim
<1>2. ASSUME NEW u \in Users, Stop(u) PROVE AdapterInv'
  BY <1>2, StopKeeps
<1>3. ASSUME NEW u \in Users, Create(u) PROVE AdapterInv'
  BY <1>3, CreateKeeps
<1>4. CASE SendLoad
  BY <1>4, SendLoadKeeps
<1>5. ASSUME NEW r \in answerable, Answer(r) PROVE AdapterInv'
  BY <1>5, AnswerKeeps
<1>6. ASSUME NEW p \in pending, Expire(p) PROVE AdapterInv'
  <2>1. Reject(p) /\ UNCHANGED <<process, nextID, answerable, torn, caps, service>>
    BY <1>6 DEF Expire
  <2> QED
    BY <2>1, RejectKeeps DEF AdapterInv, TypeOK
<1>7. ASSUME NEW c \in Processes, ProcessEnds(c) \/ ExitEvent(c) PROVE AdapterInv'
  BY <1>7, ProcessKeeps
<1>8. CASE UNCHANGED vars
  <2>1. /\ UNCHANGED <<client, listing>> /\ call' = call /\ CallTypes'
    BY <1>8 DEF vars, client, service, AdapterInv, TypeOK, CallTypes
  <2> QED
    BY <2>1, CallsMove
<1> QED
  BY <1>1, <1>2, <1>3, <1>4, <1>5, <1>6, <1>7, <1>8 DEF Next

(* The inductive invariant of the ACP client under its callers, for every  *)
(* number of claims, Stops and creations (acp-client.js, acp-service.js).  *)
THEOREM AdapterInvariant == Spec => []AdapterInv
<1>1. Init => AdapterInv
  BY InitAdapter
<1>2. AdapterInv /\ [Next]_vars => AdapterInv'
  BY NextAdapter
<1> QED
  BY <1>1, <1>2, PTL DEF Spec

(* Every state has its type, a request that is pending or answerable its   *)
(* purpose.                                                                *)
THEOREM AdapterTypeCorrect == Spec => []TypeOK
<1>1. AdapterInv => TypeOK
  BY DEF AdapterInv
<1> QED
  BY <1>1, AdapterInvariant, PTL

(* Whatever ends the child settles its requests with it, and what a killed *)
(* adapter still says is no answer to a request of its successor           *)
(* (acp-client.js, close, #handleExit and #consumeMessage).                *)
THEOREM PendingIsWithTheChildHolds == Spec => []PendingIsWithTheChild
<1>1. AdapterInv => PendingIsWithTheChild
  BY DEF AdapterInv, ClientInv
<1> QED
  BY <1>1, AdapterInvariant, PTL

(* After its handshake an adapter is taken for what itself said it can do  *)
(* (acp-client.js, #start).                                                *)
THEOREM ReadyChildIsKnownHolds == Spec => []ReadyChildIsKnown
<1>1. AdapterInv => ReadyChildIsKnown
  BY DEF AdapterInv, ClientInv, KnownOrAsked, ReadyChildIsKnown, Starting, Handshake
<1> QED
  BY <1>1, AdapterInvariant, PTL

(* Every handshake has one call, or the listing, that awaits it, and none  *)
(* waits for a handshake that is over: the shared listing and the calls    *)
(* that create Sessions never both take themselves for the starter         *)
(* (acp-client.js, start; acp-service.js, #refreshSessions).               *)
THEOREM StartIsAwaitedHolds == Spec => []StartIsAwaited
<1>1. AdapterInv => StartIsAwaited
  BY DEF AdapterInv, WaitsInv
<1> QED
  BY <1>1, AdapterInvariant, PTL

=============================================================================
