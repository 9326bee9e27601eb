--------------------------- MODULE ConversationProofs ---------------------------
(***************************************************************************)
(* What TLAPS proves of the way a conversation reaches the screen: of the  *)
(* agent process and the streams that fan its events out (EventStreams),   *)
(* of the reads those events cause in the app (LiveConversation), and of   *)
(* the pages the bridge answers with and the feed the app makes of them    *)
(* (ConversationView).  The host, the fan-out and the subscription have an *)
(* inductive invariant each; the host's needs no other, the fan-out's      *)
(* needs a child behind an available agent, the subscription's stands on   *)
(* its own timers.  The bridge's lists and the app's pages share one.      *)
(* Last, the readers of the journals (Journals): that they agree, and what *)
(* they compute of a journal of any length, in pages and chunks of any     *)
(* size, is shown by induction over sets of numbers and of sequences.      *)
(***************************************************************************)
EXTENDS EventStreams, LiveConversation, MCConversationView,
        SequenceTheorems, FiniteSetTheorems, WellFoundedInduction, TLAPS

-----------------------------------------------------------------------------
(* Only the child of the host runs: a process is spawned when the child    *)
(* does not, and the host lets go of no process that does.                 *)
OnlyChildRuns == \A p \in Procs : Running(p) => p = child

(* An agent that the registry calls available has a child to ask. *)
AvailableHasChild == registry = "available" => child # 0

HostTypes ==
    /\ registry \in {"configured", "available", "unavailable"}
    /\ proc \in [Procs -> {"unborn", "booting", "healthy", "stopping", "exited"}]
    /\ child \in 0..MaxProcs
    /\ watch \in [Procs -> {"start", "host"}]
    /\ starter \in Callers \cup {Nobody}

HostInv == HostTypes /\ OnlyChildRuns /\ AvailableHasChild

(* The fan-out is about to ask for a stream only while it has none. *)
AsksOnce ==
    /\ call[Fanout] \in {"due", "starting"} => upstream = NoStream
    /\ call[Fanout] # "subscribed"
    /\ starter = Fanout => call[Fanout] = "starting"

FanoutTypes ==
    /\ call \in [Callers -> {"idle", "due", "starting", "subscribed"}]
    /\ clients \subseteq Clients
    /\ upstream \in [to : 0..MaxProcs, open : BOOLEAN]
    /\ streams \in Nat
    /\ everStarted \in BOOLEAN /\ timer \in BOOLEAN /\ closed \in BOOLEAN

FanoutInv == FanoutTypes /\ AsksOnce /\ OneUpstream

AgentInv == HostInv /\ FanoutInv

LEMMA CallersAssumption ==
    /\ Fanout \in Callers /\ Fanout \notin Clients /\ Fanout \notin Directs
    /\ Nobody \notin Callers /\ Fanout # Nobody
BY ManagedAgentAssumption DEF Callers, Fanout, Nobody

-----------------------------------------------------------------------------
(* What the host does. *)

(* A step that starts no process, and keeps the child while it may run. *)
LEMMA HostMoves ==
    ASSUME HostInv, HostTypes', \A p \in Procs : Running(p)' => Running(p),
           child' = child \/ \A p \in Procs : ~Running(p)',
           registry' = "available" => child' # 0
    PROVE  HostInv'
BY DEF HostInv, OnlyChildRuns, AvailableHasChild

LEMMA AlreadyStartedHost ==
    ASSUME HostInv, NEW c \in Callers, AlreadyStarted(c)
    PROVE  HostInv' /\ child # 0 /\ starter' = starter /\ child' = child
<1>1. /\ child # 0 /\ UNCHANGED <<proc, child, watch, starter>> /\ registry' = "available"
  BY DEF AlreadyStarted, Running
<1>2. HostTypes' /\ \A p \in Procs : Running(p)' = Running(p)
  BY <1>1 DEF HostInv, HostTypes, Running
<1> QED
  BY <1>1, <1>2, HostMoves

LEMMA SpawnHost ==
    ASSUME HostInv, NEW c \in Callers, ~Running(child), Spawn(c)
    PROVE  HostInv' /\ starter' = c
<1>1. PICK p \in Procs :
         /\ proc[p] = "unborn" /\ proc' = [proc EXCEPT ![p] = "booting"]
         /\ child' = p /\ starter' = c /\ UNCHANGED <<registry, watch>>
  BY DEF Spawn
<1>2. p \in 1..MaxProcs /\ p # 0
  BY ManagedAgentAssumption DEF Procs
<1>3. HostTypes'
  BY <1>1, <1>2, ManagedAgentAssumption DEF HostInv, HostTypes
<1>4. \A q \in Procs : ~Running(q)
  BY DEF HostInv, OnlyChildRuns
<1>5. \A q \in Procs \ {p} : ~Running(q)'
  BY <1>1, <1>4 DEF Running, HostInv, HostTypes
<1> QED
  BY <1>1, <1>2, <1>3, <1>5 DEF HostInv, OnlyChildRuns, AvailableHasChild

(* The exit of a process. *)
LEMMA ExitHost ==
    ASSUME HostInv, NEW p \in Procs, Running(p), ExitEvent(p)
    PROVE  HostInv'
<1>1. p = child /\ proc' = [proc EXCEPT ![p] = "exited"] /\ watch' = watch
  BY DEF ExitEvent, HostInv, OnlyChildRuns
<1>2. \/ child' = 0 /\ registry' = "unavailable" /\ starter' = starter
      \/ registry' = "unavailable" /\ starter' = Nobody /\ child' = child
      \/ UNCHANGED <<registry, child, starter>>
  BY DEF ExitEvent
<1>3. \A q \in Procs : ~Running(q)'
  BY <1>1 DEF Running, HostInv, HostTypes, OnlyChildRuns
<1>4. HostTypes'
  BY <1>1, <1>2, ManagedAgentAssumption DEF HostInv, HostTypes
<1>5. registry' = "available" => child' # 0
  BY <1>2 DEF HostInv, AvailableHasChild
<1> QED
  BY <1>3, <1>4, <1>5, HostMoves

-----------------------------------------------------------------------------
(* What the fan-out does. *)

(* The stream and the timer are left alone, the fan-out's own call is left *)
(* alone, ends, or is due because there is no stream.                      *)
LEMMA QuietFanout ==
    ASSUME FanoutInv, FanoutTypes', UNCHANGED <<upstream, streams, closed>>,
           timer' => timer \/ ~closed,
           \/ call'[Fanout] = call[Fanout] /\ (starter' = Fanout => starter = Fanout)
           \/ call'[Fanout] = "idle" /\ starter' # Fanout
           \/ /\ call'[Fanout] \in {"due", "starting"} /\ upstream = NoStream
              /\ starter' = Fanout => call'[Fanout] = "starting"
    PROVE  FanoutInv'
BY DEF FanoutInv, AsksOnce, OneUpstream

(* A caller that finds the agent available. *)
LEMMA ReadyFanout ==
    ASSUME FanoutInv, NEW c \in Callers, child \in 0..MaxProcs, child # 0, UNCHANGED closed,
           c = Fanout => call[Fanout] \in {"due", "starting"} /\ starter' # Fanout,
           starter' = Fanout => starter = Fanout,
           Ready(c)
    PROVE  FanoutInv'
<1> USE CallersAssumption DEF FanoutInv
<1>1. CASE c = Fanout /\ ~closed
  <2>1. /\ upstream' = [to |-> child, open |-> FALSE] /\ streams' = streams + 1
        /\ call' = [call EXCEPT ![Fanout] = "idle"]
        /\ UNCHANGED <<clients, everStarted, timer>>
    BY <1>1 DEF Ready, FanoutIsReady, Asks
  <2>2. upstream = NoStream /\ upstream' # NoStream
    BY <1>1, <2>1 DEF AsksOnce, NoStream
  <2>3. FanoutTypes'
    BY <2>1 DEF FanoutTypes
  <2>4. AsksOnce' /\ OneUpstream'
    BY <1>1, <2>1, <2>2 DEF FanoutTypes, AsksOnce, OneUpstream
  <2> QED
    BY <2>3, <2>4
<1>2. CASE c = Fanout /\ closed
  <2>1. call' = [call EXCEPT ![Fanout] = "idle"] /\ UNCHANGED fanoutVars
    BY <1>2 DEF Ready, FanoutIsReady, GivesUp
  <2>2. FanoutTypes' /\ call'[Fanout] = "idle"
    BY <2>1 DEF FanoutTypes, fanoutVars
  <2> QED
    BY <1>2, <2>1, <2>2, QuietFanout DEF fanoutVars
<1>3. CASE c # Fanout /\ c \in Clients /\ ~closed
  <2>1. /\ clients' = clients \cup {c} /\ everStarted' = TRUE
        /\ call' = [call EXCEPT ![c] = "subscribed",
                                ![Fanout] = Ensured(@, upstream, timer, TRUE)]
        /\ UNCHANGED <<upstream, streams, timer>>
    BY <1>3 DEF Ready, Subscribes
  <2>2. call[Fanout] \in {"idle", "due", "starting", "subscribed"}
    BY DEF FanoutTypes
  <2>3. /\ call'[Fanout] = Ensured(call[Fanout], upstream, timer, TRUE)
        /\ call' \in [Callers -> {"idle", "due", "starting", "subscribed"}]
    BY <1>3, <2>1, <2>2 DEF FanoutTypes, Ensured
  <2>4. FanoutTypes'
    BY <1>3, <2>1, <2>3 DEF FanoutTypes
  <2>5. \/ call'[Fanout] = call[Fanout]
        \/ call'[Fanout] = "due" /\ call[Fanout] = "idle" /\ upstream = NoStream
    BY <2>3 DEF Ensured
  <2> QED
    BY <2>1, <2>4, <2>5, QuietFanout DEF AsksOnce
<1>4. CASE c # Fanout /\ ~(c \in Clients /\ ~closed)
  <2>1. call' = [call EXCEPT ![c] = "idle"] /\ UNCHANGED fanoutVars
    BY <1>4 DEF Ready, Returns
  <2>2. FanoutTypes' /\ call'[Fanout] = call[Fanout]
    BY <1>4, <2>1 DEF FanoutTypes, fanoutVars
  <2> QED
    BY <2>1, <2>2, QuietFanout DEF fanoutVars
<1> QED
  BY <1>1, <1>2, <1>3, <1>4

(* A caller whose start failed. *)
LEMMA NotReadyFanout ==
    ASSUME FanoutInv, NEW c \in Callers, UNCHANGED closed, starter' = Nobody, NotReady(c)
    PROVE  FanoutInv'
<1> USE CallersAssumption DEF FanoutInv
<1>1. CASE c = Fanout
  <2>1. /\ timer' = ~closed /\ call' = [call EXCEPT ![Fanout] = "idle"]
        /\ UNCHANGED <<clients, everStarted, upstream, streams>>
    BY <1>1 DEF NotReady, BacksOff
  <2>2. FanoutTypes' /\ call'[Fanout] = "idle"
    BY <2>1 DEF FanoutTypes
  <2> QED
    BY <2>1, <2>2, QuietFanout
<1>2. CASE c # Fanout
  <2>1. call' = [call EXCEPT ![c] = "idle"] /\ UNCHANGED fanoutVars
    BY <1>2 DEF NotReady, Returns
  <2>2. FanoutTypes' /\ call'[Fanout] = call[Fanout]
    BY <1>2, <2>1 DEF FanoutTypes, fanoutVars
  <2> QED
    BY <2>1, <2>2, QuietFanout DEF fanoutVars
<1> QED
  BY <1>1, <1>2

(* The stream ends: there is none, and the timer is armed. *)
LEMMA EndedFanout ==
    ASSUME FanoutInv, UpstreamEnded
    PROVE  FanoutInv'
<1>1. /\ upstream # NoStream /\ upstream' = NoStream /\ streams' = streams - 1 /\ timer' = TRUE
      /\ UNCHANGED <<call, clients, everStarted, closed, starter>>
  BY DEF UpstreamEnded, hostVars
<1>2. streams = 1 /\ ~closed
  BY <1>1 DEF FanoutInv, OneUpstream
<1>3. upstream' \in [to : 0..MaxProcs, open : BOOLEAN]
  BY <1>1, ManagedAgentAssumption DEF NoStream
<1> QED
  BY <1>1, <1>2, <1>3 DEF FanoutInv, FanoutTypes, AsksOnce, OneUpstream

-----------------------------------------------------------------------------
(* Every step of the daemon and the agent keeps the invariant. *)
LEMMA NextAgent ==
    ASSUME AgentInv, [Next]_vars
    PROVE  AgentInv'
<1> USE DEF AgentInv
<1>a. /\ child \in 0..MaxProcs /\ starter \in Callers \cup {Nobody}
      /\ call \in [Callers -> {"idle", "due", "starting", "subscribed"}]
  BY DEF HostInv, HostTypes, FanoutInv, FanoutTypes
<1>b. ASSUME HostInv, UNCHANGED <<registry, child, watch, starter>>, HostTypes',
             \A p \in Procs : Running(p)' => Running(p)
      PROVE  HostInv'
  BY <1>b, HostMoves DEF HostInv, AvailableHasChild
<1>c. UNCHANGED hostVars => HostInv'
  <2> SUFFICES ASSUME UNCHANGED hostVars PROVE HostInv'
    OBVIOUS
  <2>1. HostTypes' /\ \A p \in Procs : Running(p)' = Running(p)
    BY DEF hostVars, HostInv, HostTypes, Running
  <2> QED
    BY <1>b, <2>1 DEF hostVars
<1>1. ASSUME NEW c \in Callers, Begin(c) PROVE AgentInv'
  <2>1. /\ call[c] = (IF c = Fanout THEN "due" ELSE "idle") /\ closed' = closed
    BY <1>1 DEF Begin
  <2>2. starter = Fanout => c # Fanout
    BY <2>1 DEF FanoutInv, AsksOnce
  <2>3. CASE registry = "available" /\ UNCHANGED hostVars /\ Ready(c)
    <3>1. child # 0 /\ starter' = starter
      BY <2>3 DEF HostInv, AvailableHasChild, hostVars
    <3> QED
      BY <1>a, <1>c, <2>1, <2>2, <2>3, <3>1, ReadyFanout
  <2>4. CASE AlreadyStarted(c)
    <3>1. HostInv' /\ child # 0 /\ starter' = starter
      BY <2>4, AlreadyStartedHost
    <3>2. Ready(c)
      BY <2>4 DEF AlreadyStarted
    <3> QED
      BY <1>a, <2>1, <2>2, <3>1, <3>2, ReadyFanout
  <2>5. CASE ~Running(child) /\ Spawn(c)
    <3>1. HostInv' /\ starter' = c
      BY <2>5, SpawnHost
    <3>2. call' = [call EXCEPT ![c] = "starting"] /\ UNCHANGED fanoutVars
      BY <2>5 DEF Spawn
    <3>3. FanoutTypes' /\ (c # Fanout => call'[Fanout] = call[Fanout]) /\ call'[c] = "starting"
      BY <1>a, <2>1, <3>2, CallersAssumption DEF FanoutInv, FanoutTypes, fanoutVars
    <3>4. c = Fanout => upstream = NoStream
      BY <2>1 DEF FanoutInv, AsksOnce
    <3> QED
      BY <2>1, <3>1, <3>2, <3>3, <3>4, QuietFanout DEF fanoutVars
  <2> QED
    BY <1>1, <2>3, <2>4, <2>5 DEF Begin, Start
<1>2. CASE StartSucceeds
  <2>1. /\ starter \in Callers /\ child # 0 /\ proc[child] = "healthy" /\ child \in Procs
        /\ watch' = [watch EXCEPT ![child] = "host"]
        /\ registry' = "available" /\ starter' = Nobody /\ UNCHANGED <<proc, child, closed>>
        /\ Ready(starter)
    BY <1>2, <1>a DEF StartSucceeds, Serves, Procs
  <2>2. HostTypes' /\ \A p \in Procs : Running(p)' = Running(p)
    BY <2>1 DEF HostInv, HostTypes, Running
  <2>3. HostInv'
    BY <2>1, <2>2, HostMoves
  <2>4. starter = Fanout => call[Fanout] = "starting"
    BY DEF FanoutInv, AsksOnce
  <2> QED
    BY <1>a, <2>1, <2>3, <2>4, ReadyFanout, CallersAssumption
<1>3. CASE StartTimesOut
  <2>1. /\ starter \in Callers /\ proc[child] = "booting" /\ child < MaxProcs
        /\ proc' = [proc EXCEPT ![child] = "stopping"] /\ registry' = "unavailable"
        /\ starter' = Nobody /\ UNCHANGED <<child, watch, closed>> /\ NotReady(starter)
    BY <1>3, <1>a DEF StartTimesOut
  <2>2. HostTypes' /\ \A p \in Procs : Running(p)' => Running(p)
    BY <2>1 DEF HostInv, HostTypes, Running
  <2> QED
    BY <2>1, <2>2, HostMoves, NotReadyFanout
<1>4. ASSUME NEW p \in Procs, Crashes(p) \/ Stops(p) PROVE AgentInv'
  <2>1. Running(p) /\ ExitEvent(p) /\ closed' = closed
    BY <1>4, ManagedAgentAssumption DEF Crashes, Stops, ExitEvent, Running, Procs
  <2>2. CASE starter # Nobody /\ starter' = Nobody /\ NotReady(starter)
    BY <1>a, <2>1, <2>2, ExitHost, NotReadyFanout
  <2>3. CASE UNCHANGED <<starter, call, fanoutVars>>
    <3>1. FanoutTypes'
      BY <2>1, <2>3 DEF FanoutInv, FanoutTypes, fanoutVars
    <3> QED
      BY <2>1, <2>3, <3>1, ExitHost, QuietFanout DEF fanoutVars
  <2> QED
    BY <2>1, <2>2, <2>3 DEF ExitEvent
<1>5. ASSUME NEW p \in Procs, Boots(p) PROVE AgentInv'
  <2>1. /\ proc[p] = "booting" /\ proc' = [proc EXCEPT ![p] = "healthy"]
        /\ UNCHANGED <<registry, child, watch, starter, call, fanoutVars, closed>>
    BY <1>5 DEF Boots
  <2>2. HostTypes' /\ \A q \in Procs : Running(q)' => Running(q)
    BY <2>1 DEF HostInv, HostTypes, Running
  <2>3. FanoutTypes'
    BY <2>1 DEF FanoutInv, FanoutTypes, fanoutVars
  <2> QED
    BY <1>b, <2>1, <2>2, <2>3, QuietFanout DEF fanoutVars
<1>6. CASE Accepted
  <2>1. /\ upstream # NoStream /\ upstream' = [upstream EXCEPT !.open = TRUE]
        /\ UNCHANGED <<hostVars, call, clients, everStarted, streams, timer, closed>>
    BY <1>6 DEF Accepted
  <2>2. /\ upstream' # NoStream /\ upstream' \in [to : 0..MaxProcs, open : BOOLEAN]
    BY <2>1 DEF FanoutInv, FanoutTypes, NoStream
  <2>3. FanoutInv'
    BY <2>1, <2>2 DEF FanoutInv, FanoutTypes, AsksOnce, OneUpstream, hostVars
  <2> QED
    BY <1>c, <2>1, <2>3
<1>7. CASE AgentEnds \/ AgentIsGone
  <2>1. UpstreamEnded
    BY <1>7 DEF AgentEnds, AgentIsGone
  <2>2. UNCHANGED hostVars
    BY <2>1 DEF UpstreamEnded
  <2> QED
    BY <1>c, <2>1, <2>2, EndedFanout
<1>8. CASE TimerFires
  <2>1. /\ timer' = FALSE /\ UNCHANGED <<hostVars, clients, everStarted, upstream, streams, closed>>
        /\ call' = [call EXCEPT ![Fanout] = Ensured(@, upstream, FALSE, everStarted)]
    BY <1>8 DEF TimerFires
  <2>2. /\ call'[Fanout] = Ensured(call[Fanout], upstream, FALSE, everStarted)
        /\ call[Fanout] \in {"idle", "due", "starting", "subscribed"}
    BY <1>a, <2>1, CallersAssumption
  <2>3. FanoutTypes'
    BY <1>a, <2>1, <2>2 DEF FanoutInv, FanoutTypes, Ensured
  <2>4. \/ call'[Fanout] = call[Fanout]
        \/ call'[Fanout] = "due" /\ call[Fanout] = "idle" /\ upstream = NoStream
    BY <2>2 DEF Ensured
  <2>5. FanoutInv'
    BY <2>1, <2>3, <2>4, QuietFanout DEF hostVars, FanoutInv, AsksOnce
  <2> QED
    BY <1>c, <2>1, <2>5
<1>9. ASSUME NEW c \in Clients, Leaves(c) PROVE AgentInv'
  <2>1. /\ clients' = clients \ {c} /\ call' = [call EXCEPT ![c] = "idle"]
        /\ UNCHANGED <<hostVars, everStarted, upstream, streams, timer, closed>>
    BY <1>9 DEF Leaves
  <2>2. FanoutTypes' /\ call'[Fanout] = call[Fanout]
    BY <1>a, <2>1, CallersAssumption DEF FanoutInv, FanoutTypes
  <2> QED
    BY <1>c, <2>1, <2>2, QuietFanout DEF hostVars
<1>10. CASE Close
  <2>1. /\ closed' = TRUE /\ timer' = FALSE /\ upstream' = NoStream /\ clients' = {}
        /\ streams' = (IF upstream = NoStream THEN streams ELSE streams - 1)
        /\ call' = [c \in Callers |-> IF call[c] = "subscribed" THEN "idle" ELSE call[c]]
        /\ UNCHANGED <<hostVars, everStarted>>
    BY <1>10 DEF Close
  <2>2. streams' = 0 /\ upstream' \in [to : 0..MaxProcs, open : BOOLEAN]
    BY <2>1, ManagedAgentAssumption DEF FanoutInv, OneUpstream, NoStream
  <2>a. call' \in [Callers -> {"idle", "due", "starting", "subscribed"}]
    BY <1>a, <2>1
  <2>b. call'[Fanout] = call[Fanout]
    BY <1>a, <2>1, CallersAssumption DEF FanoutInv, AsksOnce
  <2>c. clients' \subseteq Clients /\ streams' \in Nat /\ everStarted' \in BOOLEAN
    BY <2>1, <2>2 DEF FanoutInv, FanoutTypes
  <2>3. call'[Fanout] = call[Fanout] /\ FanoutTypes'
    BY <2>a, <2>b, <2>c, <2>1, <2>2 DEF FanoutTypes
  <2>4. AsksOnce' /\ OneUpstream'
    BY <2>1, <2>2, <2>3 DEF FanoutInv, AsksOnce, OneUpstream, hostVars
  <2> QED
    BY <1>c, <2>1, <2>3, <2>4 DEF FanoutInv
<1>11. CASE UNCHANGED vars
  <2>1. FanoutTypes'
    BY <1>11 DEF vars, fanoutVars, FanoutInv, FanoutTypes
  <2> QED
    BY <1>11, <1>c, <2>1, QuietFanout DEF vars, hostVars, fanoutVars
<1> QED
  BY <1>1, <1>2, <1>3, <1>4, <1>5, <1>6, <1>7, <1>8, <1>9, <1>10, <1>11 DEF Next

LEMMA InitAgent ==
    ASSUME Init PROVE AgentInv
<1>1. HostInv
  BY ManagedAgentAssumption
  DEF Init, HostInv, HostTypes, OnlyChildRuns, AvailableHasChild, Running, Procs
<1>2. FanoutInv
  <2>1. NoStream \in [to : 0..MaxProcs, open : BOOLEAN]
    BY ManagedAgentAssumption DEF NoStream
  <2>2. call \in [Callers -> {"idle", "due", "starting", "subscribed"}] /\ call[Fanout] = "idle"
    BY CallersAssumption DEF Init
  <2>3. FanoutTypes
    BY <2>1, <2>2 DEF Init, FanoutTypes
  <2>4. AsksOnce /\ OneUpstream
    BY <2>2, CallersAssumption DEF Init, AsksOnce, OneUpstream
  <2> QED
    BY <2>3, <2>4 DEF FanoutInv
<1> QED
  BY <1>1, <1>2 DEF AgentInv

(* What the invariant is for. *)
LEMMA AgentIsRight ==
    ASSUME AgentInv PROVE TypeOK /\ OneAgentProcess /\ OneUpstream
BY DEF AgentInv, HostInv, HostTypes, FanoutInv, FanoutTypes, OnlyChildRuns, OneAgentProcess, TypeOK

(* The daemon and the agent, whatever their callers do: the invariant of   *)
(* opencode-host.js and managed-event-fanout.js, for every number of       *)
(* clients and of processes.                                               *)
THEOREM AgentInvariant == Spec => []AgentInv
<1>1. Init => AgentInv
  BY InitAgent
<1>2. AgentInv /\ [Next]_vars => AgentInv'
  BY NextAgent
<1> QED
  BY <1>1, <1>2, PTL DEF Spec

-----------------------------------------------------------------------------
(* The app's subscription. *)

(* With the profile of the start, there is one connection at most, and no  *)
(* timer is set while there is one; nor are two timers set at a time.      *)
OneConn ==
    restarts = 0 =>
        /\ \A k, l \in Conns : conn[k] # "none" /\ conn[l] # "none" => k = l
        /\ rtimer \/ ctimer => \A k \in Conns : conn[k] = "none"
        /\ ~(rtimer /\ ctimer)

SubscriptionTypes ==
    /\ desktop \in BOOLEAN /\ rtimer \in BOOLEAN /\ ctimer \in BOOLEAN /\ done \in BOOLEAN
    /\ conn \in [Conns -> {"none", "fetching", "asked", "open", "ending"}]
    /\ current \in Conns \cup {NoConn}
    /\ restarts \in 0..MaxRestarts

SubscriptionInv == SubscriptionTypes /\ OneConn

(* What the subscription does to the daemon is a step of the daemon, or    *)
(* none.                                                                   *)
LEMMA StreamsStep ==
    ASSUME StreamsNext PROVE [Next]_vars
<1>1. ASSUME NEW k \in Conns, Arrives(k) PROVE Next
  BY <1>1 DEF Arrives, Next, Conns, Callers
<1>2. ASSUME NEW k \in Conns, Noticed(k) PROVE Next
  BY <1>2 DEF Noticed, Next, Conns
<1>3. ASSUME NEW k \in Conns,
             \/ ReconnectFires(k) \/ ConnectFires(k) \/ Opens(k) \/ Refused(k) \/ Breaks(k)
             \/ Dropped(k) \/ Stalls(k) \/ Displaced(k) \/ Ends(k)
      PROVE  UNCHANGED vars
  BY <1>3 DEF ReconnectFires, ConnectFires, Connect, Opens, Refused, Breaks, Dropped, Stalls,
              Displaced, Ends
<1>4. Restart \/ Unsubscribe => UNCHANGED vars
  BY DEF Restart, Unsubscribe, AbortCurrent
<1>5. ASSUME DaemonStep PROVE Next
  <2>1. \A c \in Directs \cup {Fanout} : Begin(c) => Next
    BY DEF Next, Callers
  <2> QED
    BY <1>5, <2>1 DEF DaemonStep, Next
<1> QED
  BY <1>1, <1>2, <1>3, <1>4, <1>5 DEF StreamsNext

(* A step that opens no connection and sets no timer. *)
LEMMA QuietSubscription ==
    ASSUME SubscriptionInv, SubscriptionTypes', UNCHANGED <<rtimer, ctimer, restarts>>,
           \A k \in Conns : conn[k] = "none" => conn'[k] = "none"
    PROVE  SubscriptionInv'
BY DEF SubscriptionInv, OneConn

LEMMA NextSubscription ==
    ASSUME SubscriptionInv, [StreamsNext]_allVars
    PROVE  SubscriptionInv'
<1> USE DEF SubscriptionInv
<1>1. ASSUME NEW k \in Conns, ReconnectFires(k) \/ ConnectFires(k) PROVE SubscriptionInv'
  <2>1. /\ conn[k] = "none" /\ conn' = [conn EXCEPT ![k] = "fetching"] /\ current' = k
        /\ UNCHANGED <<desktop, done, restarts>>
        /\ \/ rtimer /\ rtimer' = FALSE /\ ctimer' = ctimer
           \/ ctimer /\ ctimer' = FALSE /\ rtimer' = rtimer
    BY <1>1 DEF ReconnectFires, ConnectFires, Connect
  <2>2. SubscriptionTypes'
    BY <2>1 DEF SubscriptionTypes
  <2>3. OneConn'
    BY <2>1 DEF SubscriptionTypes, OneConn
  <2> QED
    BY <2>2, <2>3
<1>2. ASSUME NEW k \in Conns, NEW to \in {"asked", "open", "ending"}, conn[k] # "none",
             conn' = [conn EXCEPT ![k] = to],
             UNCHANGED <<desktop, current, rtimer, ctimer, done, restarts>>
      PROVE  SubscriptionInv'
  <2>1. SubscriptionTypes' /\ \A l \in Conns : conn[l] = "none" => conn'[l] = "none"
    BY <1>2 DEF SubscriptionTypes
  <2> QED
    BY <1>2, <2>1, QuietSubscription
<1>3. ASSUME NEW k \in Conns,
             \/ Arrives(k) \/ Opens(k) \/ Refused(k) \/ Breaks(k) \/ Dropped(k) \/ Stalls(k)
             \/ Displaced(k)
      PROVE  SubscriptionInv'
  BY <1>2, <1>3 DEF Arrives, Opens, Refused, Breaks, Dropped, Stalls, Displaced, Moves
<1>4. ASSUME NEW k \in Conns, Ends(k) PROVE SubscriptionInv'
  <2>1. /\ conn[k] = "ending" /\ conn' = [conn EXCEPT ![k] = "none"]
        /\ current' \in {NoConn, current}
        /\ rtimer' \in BOOLEAN /\ UNCHANGED <<desktop, ctimer, done, restarts>>
    BY <1>4 DEF Ends, SubscriptionTypes
  <2>2. SubscriptionTypes'
    BY <2>1 DEF SubscriptionTypes
  <2>3. OneConn'
    BY <2>1 DEF SubscriptionTypes, OneConn
  <2> QED
    BY <2>2, <2>3
<1>5. CASE Restart
  <2>1. /\ restarts < MaxRestarts /\ restarts' = restarts + 1 /\ ctimer' = TRUE /\ rtimer' = FALSE
        /\ conn' = [k \in Conns |->
                       IF k = current /\ conn[k] # "none" THEN "ending" ELSE conn[k]]
        /\ current' = NoConn /\ UNCHANGED <<desktop, done>>
    BY <1>5 DEF Restart, AbortCurrent
  <2>a. restarts' \in 0..MaxRestarts /\ restarts' # 0
    BY <2>1, EventStreamsAssumption DEF SubscriptionTypes
  <2>b. conn' \in [Conns -> {"none", "fetching", "asked", "open", "ending"}]
    BY <2>1 DEF SubscriptionTypes
  <2>2. SubscriptionTypes' /\ restarts' # 0
    BY <2>1, <2>a, <2>b DEF SubscriptionTypes
  <2> QED
    BY <2>2 DEF OneConn
<1>6. CASE Unsubscribe
  <2>1. /\ done' = TRUE /\ ctimer' = FALSE /\ rtimer' = FALSE
        /\ conn' = [k \in Conns |->
                       IF k = current /\ conn[k] # "none" THEN "ending" ELSE conn[k]]
        /\ current' = NoConn /\ UNCHANGED <<desktop, restarts>>
    BY <1>6 DEF Unsubscribe, AbortCurrent
  <2>2. SubscriptionTypes' /\ OneConn'
    BY <2>1 DEF SubscriptionTypes, OneConn
  <2> QED
    BY <2>2
<1>7. CASE UNCHANGED subscription
  BY <1>7 DEF subscription, SubscriptionTypes, OneConn
<1>8. UNCHANGED allVars => UNCHANGED subscription
  BY DEF allVars
<1>9. DaemonStep \/ (\E k \in Conns : Noticed(k)) => UNCHANGED subscription
  BY DEF DaemonStep, Noticed
<1> QED
  BY <1>1, <1>3, <1>4, <1>5, <1>6, <1>7, <1>8, <1>9 DEF StreamsNext

(* The whole of it: the daemon, the agent and the subscription. *)
StreamsInv == AgentInv /\ SubscriptionInv

(* The invariant of the composition, for every number of connections, of   *)
(* processes and of changes of the profile.                                *)
THEOREM StreamsInvariant == StreamsSpec => []StreamsInv
<1>1. StreamsInit => StreamsInv
  <2> SUFFICES ASSUME StreamsInit PROVE StreamsInv
    OBVIOUS
  <2>1. AgentInv
    BY InitAgent DEF StreamsInit
  <2>2. SubscriptionInv
    <3>1. restarts \in 0..MaxRestarts /\ rtimer \in BOOLEAN /\ ctimer \in BOOLEAN
      BY EventStreamsAssumption DEF StreamsInit
    <3>2. SubscriptionTypes
      BY <3>1 DEF StreamsInit, SubscriptionTypes
    <3>3. OneConn
      BY DEF StreamsInit, OneConn
    <3> QED
      BY <3>2, <3>3 DEF SubscriptionInv
  <2> QED
    BY <2>1, <2>2 DEF StreamsInv
<1>2. StreamsInv /\ [StreamsNext]_allVars => StreamsInv'
  <2> SUFFICES ASSUME StreamsInv, [StreamsNext]_allVars PROVE StreamsInv'
    OBVIOUS
  <2>1. [Next]_vars
    BY StreamsStep DEF allVars
  <2> QED
    BY <2>1, NextAgent, NextSubscription DEF StreamsInv
<1> QED
  BY <1>1, <1>2, PTL DEF StreamsSpec

(* The invariant gives the properties that the run checks. *)
LEMMA StreamsAreRight ==
    ASSUME StreamsInv PROVE StreamsTypeOK /\ OneAgentProcess /\ OneListener
<1>1. TypeOK /\ OneAgentProcess /\ OneUpstream
  BY AgentIsRight DEF StreamsInv
<1>2. StreamsTypeOK
  BY <1>1 DEF StreamsInv, SubscriptionInv, SubscriptionTypes, StreamsTypeOK
<1>3. ASSUME restarts = 0
      PROVE  /\ Cardinality({k \in Conns : conn[k] # "none"}) <= 1
             /\ rtimer => \A k \in Conns : conn[k] = "none"
  <2> DEFINE live == {k \in Conns : conn[k] # "none"}
  <2>1. \A k, l \in live : k = l
    BY <1>3 DEF StreamsInv, SubscriptionInv, OneConn
  <2>2. live = {} \/ \E k \in live : live = {k}
    BY <2>1
  <2>3. Cardinality(live) <= 1
    <3> HIDE DEF live
    <3>1. ASSUME NEW k \in live, live = {k} PROVE Cardinality(live) <= 1
      BY <3>1, FS_Singleton
    <3> QED
      BY <2>2, <3>1, FS_EmptySet
  <2> QED
    BY <1>3, <2>3 DEF StreamsInv, SubscriptionInv, OneConn
<1> QED
  BY <1>1, <1>2, <1>3 DEF OneListener

(* However requests, starts, crashes and refusals interleave, the host     *)
(* never runs two processes of the agent (opencode-host.js, start).        *)
THEOREM OneAgentProcessHolds == StreamsSpec => []OneAgentProcess
BY StreamsInvariant, StreamsAreRight, PTL

(* One upstream of the fan-out, and, until the profile changes, one        *)
(* connection of the subscription: an event reaches the app once           *)
(* (managed-event-fanout.js, event-transport.ts, opencode-events.ts).      *)
THEOREM OneListenerHolds == StreamsSpec => []OneListener
BY StreamsInvariant, StreamsAreRight, PTL

-----------------------------------------------------------------------------
(* Versions are only compared, and never run ahead of the daemon's; only   *)
(* one read of each kind is under way, so that its answer is the newest.   *)
AnswersInOrder ==
    /\ shown <= said /\ answer <= said /\ told <= said
    /\ pill <= seen /\ seen <= status

LiveInv == LiveTypeOK /\ AnswersInOrder /\ HeardIsOnItsWay

LEMMA LiveInvInit ==
    ASSUME LiveInit
    PROVE  LiveInv
<1>1. 0 \in 0..MaxSaid /\ 0 \in 0..MaxStatus /\ 0 \in 0..MaxLinks
  BY LiveAssumption
<1>2. LiveTypeOK
  BY <1>1 DEF LiveInit, LiveTypeOK
<1> QED
  BY <1>2 DEF LiveInit, LiveInv, AnswersInOrder, HeardIsOnItsWay

(* A kind of event sets timers, the first of which reads the newest page.  *)
LEMMA EventsSetTimers ==
    ASSUME NEW kinds \in SUBSET (Kinds \cup {"connected"}), kinds # {}
    PROVE  /\ UNION {Throttled(kind) : kind \in kinds} \subseteq TimerNames
           /\ "message" \in UNION {Throttled(kind) : kind \in kinds}
<1>1. \A kind \in kinds : Throttled(kind) \subseteq TimerNames /\ "message" \in Throttled(kind)
  BY DEF Throttled, Kinds, TimerNames
<1> QED
  BY <1>1

LEMMA LiveInvDaemon ==
    ASSUME LiveInv, Talks \/ TalksUnheard \/ BeginsOrEnds
    PROVE  LiveInv'
<1> USE LiveAssumption DEF LiveInv, LiveTypeOK, AnswersInOrder, HeardIsOnItsWay, Kinds, readers
<1>1. CASE Talks
  BY <1>1 DEF Talks, Tell
<1>2. CASE TalksUnheard
  BY <1>2 DEF TalksUnheard, stream
<1>3. CASE BeginsOrEnds
  BY <1>3 DEF BeginsOrEnds, Tell
<1> QED
  BY <1>1, <1>2, <1>3

LEMMA LiveInvHears ==
    ASSUME LiveInv, NEW kinds \in SUBSET (Kinds \cup {"connected"}), kinds # {}, Hear(kinds)
    PROVE  HeardIsOnItsWay' /\ AnswersInOrder' /\ timers' \subseteq TimerNames /\ told' \in 0..MaxSaid
BY EventsSetTimers, LiveAssumption
   DEF Hear, IsTold, LiveInv, LiveTypeOK, AnswersInOrder, HeardIsOnItsWay, readers, daemon

LEMMA LiveInvStream ==
    ASSUME LiveInv, Connected \/ EventsRead \/ Disconnected
    PROVE  LiveInv'
<1>1. CASE Connected
  <2>1. Hear({"connected"}) /\ linked' = TRUE /\ links' \in 0..MaxLinks /\ UNCHANGED sent
    BY <1>1, LiveAssumption DEF Connected, LiveInv, LiveTypeOK
  <2>2. {"connected"} # {} /\ {"connected"} \in SUBSET (Kinds \cup {"connected"})
    OBVIOUS
  <2>3. HeardIsOnItsWay' /\ AnswersInOrder' /\ timers' \subseteq TimerNames /\ told' \in 0..MaxSaid
    BY <2>1, <2>2, LiveInvHears
  <2> QED
    BY <2>1, <2>3 DEF Hear, LiveInv, LiveTypeOK, readers, daemon
<1>2. CASE EventsRead
  <2>1. sent # {} /\ sent \in SUBSET (Kinds \cup {"connected"}) /\ Hear(sent)
    BY <1>2 DEF EventsRead, LiveInv, LiveTypeOK
  <2> QED
    BY <1>2, <2>1, LiveInvHears DEF EventsRead, Hear, LiveInv, LiveTypeOK, readers, daemon
<1>3. CASE Disconnected
  BY <1>3, LiveAssumption
     DEF Disconnected, LiveInv, LiveTypeOK, AnswersInOrder, HeardIsOnItsWay, Kinds, readers, daemon
<1> QED
  BY <1>1, <1>2, <1>3

LEMMA LiveInvReads ==
    ASSUME LiveInv,
           \/ TailAnswered \/ TailLands \/ TailFails
           \/ StateAnswered \/ StateLands \/ StateFails \/ ReconcileEnds
    PROVE  LiveInv'
<1> USE LiveAssumption
    DEF LiveInv, LiveTypeOK, AnswersInOrder, HeardIsOnItsWay, noRead, daemon, stream
<1>1. CASE TailAnswered
  BY <1>1 DEF TailAnswered
<1>2. CASE TailLands
  <2>1. shown' \in {answer, shown} /\ shown' >= answer /\ shown' >= shown
    BY <1>2 DEF TailLands
  <2>2. tailRead' \in {"idle", "asked"} /\ pending' = FALSE /\ (pending => tailRead' = "asked")
    BY <1>2 DEF TailLands, DrainGoesOn
  <2>3. UNCHANGED <<polling, said, status, linked, links, sent, visible, told, timers, answer, recon, seen, pill>>
    BY <1>2 DEF TailLands
  <2>4. tailRead = "answered"
    BY <1>2 DEF TailLands
  <2>5. LiveTypeOK'
    BY <2>1, <2>2, <2>3
  <2>6. AnswersInOrder'
    BY <2>1, <2>3
  <2>7. HeardIsOnItsWay'
    BY <2>1, <2>2, <2>3, <2>4
  <2> QED
    BY <2>5, <2>6, <2>7
<1>3. CASE TailFails
  BY <1>3 DEF TailFails, DrainGoesOn
<1>4. CASE StateAnswered
  BY <1>4 DEF StateAnswered
<1>5. CASE StateLands
  BY <1>5 DEF StateLands, Refresh
<1>6. CASE StateFails \/ ReconcileEnds
  BY <1>6 DEF StateFails, ReconcileEnds
<1> QED
  BY <1>1, <1>2, <1>3, <1>4, <1>5, <1>6

LEMMA LiveInvTimers ==
    ASSUME LiveInv,
           \/ MessageFires \/ IndexFires \/ SettleFires \/ ForegroundFires
           \/ Hides \/ Shows \/ Polls
    PROVE  LiveInv'
<1> USE LiveAssumption
    DEF LiveInv, LiveTypeOK, AnswersInOrder, HeardIsOnItsWay, noRead, daemon, stream, readers
<1>1. CASE MessageFires
  BY <1>1 DEF MessageFires, Refresh
<1>2. CASE IndexFires
  BY <1>2 DEF IndexFires, Reconcile
<1>3. CASE SettleFires
  BY <1>3 DEF SettleFires, Refresh, Reconcile
<1>4. CASE ForegroundFires
  BY <1>4 DEF ForegroundFires, Refresh, Reconcile
<1>5. CASE Hides
  BY <1>5 DEF Hides
<1>6. CASE Shows
  <2>1. /\ visible' = TRUE
        /\ \/ timers' = timers /\ told' = told
           \/ timers' = timers \cup {"foreground"} /\ told' \in {told, said}
        /\ UNCHANGED <<polling, said, status, linked, links, sent, pending, tailRead, answer, recon,
                       seen, shown, pill>>
    BY <1>6 DEF Shows, IsTold
  <2>2. LiveTypeOK'
    BY <2>1 DEF TimerNames
  <2>3. AnswersInOrder' /\ HeardIsOnItsWay'
    BY <2>1
  <2> QED
    BY <2>2, <2>3
<1>7. CASE Polls
  BY <1>7 DEF Polls, Reconcile
<1> QED
  BY <1>1, <1>2, <1>3, <1>4, <1>5, <1>6, <1>7

(* The inductive invariant of an open conversation. *)
THEOREM LiveInvariant == LiveSpec => []LiveInv
<1>1. LiveInv /\ [LiveNext]_liveVars => LiveInv'
  <2> SUFFICES ASSUME LiveInv, [LiveNext]_liveVars PROVE LiveInv'
    OBVIOUS
  <2>1. CASE UNCHANGED liveVars
    BY <2>1 DEF liveVars, daemon, stream, readers, LiveInv, LiveTypeOK, AnswersInOrder, HeardIsOnItsWay
  <2> QED
    BY <2>1, LiveInvDaemon, LiveInvStream, LiveInvReads, LiveInvTimers DEF LiveNext
<1> QED
  BY <1>1, LiveInvInit, PTL DEF LiveSpec

(* Every reachable state of an open conversation is typed. *)
THEOREM LiveTypesHold == LiveSpec => []LiveTypeOK
BY LiveInvariant, PTL DEF LiveInv

(* What the app was told of without a poll is shown or is on its way: no   *)
(* burst of events, and no read under way, swallows it (the pending mark   *)
(* of createCoalescedTailRefresh()).                                       *)
THEOREM HeardIsOnItsWayHolds == LiveSpec => []HeardIsOnItsWay
BY LiveInvariant, PTL DEF LiveInv

(* No answer of a read or of a reconciliation takes back what is shown,    *)
(* with or without the poll and whichever of them fail.                    *)
THEOREM NothingGoesBackHolds == LiveSpec => NothingGoesBack
<1>1. LiveInv /\ [LiveNext]_liveVars => [shown' >= shown /\ pill' >= pill]_liveVars
  <2> SUFFICES ASSUME LiveInv, LiveNext PROVE shown' >= shown /\ pill' >= pill
    OBVIOUS
  <2> USE LiveAssumption DEF LiveInv, LiveTypeOK, AnswersInOrder, noRead, daemon, stream, readers
  <2>1. CASE TailLands
    BY <2>1 DEF TailLands
  <2>2. CASE StateLands
    BY <2>2 DEF StateLands, Refresh
  <2>3. CASE Talks \/ TalksUnheard \/ BeginsOrEnds \/ Connected \/ EventsRead \/ Disconnected
    BY <2>3 DEF Talks, TalksUnheard, BeginsOrEnds, Connected, EventsRead, Disconnected, Tell, Hear
  <2>4. CASE TailAnswered \/ TailFails \/ StateAnswered \/ StateFails \/ ReconcileEnds
    BY <2>4 DEF TailAnswered, TailFails, StateAnswered, StateFails, ReconcileEnds
  <2>5. CASE MessageFires \/ IndexFires \/ SettleFires \/ ForegroundFires \/ Hides \/ Shows \/ Polls
    BY <2>5 DEF MessageFires, IndexFires, SettleFires, ForegroundFires, Hides, Shows, Polls
  <2> QED
    BY <2>1, <2>2, <2>3, <2>4, <2>5 DEF LiveNext
<1> QED
  BY <1>1, LiveInvariant, PTL DEF LiveSpec, NothingGoesBack

-----------------------------------------------------------------------------
(* Ranked by a total order, the elements of a finite set are numbered from *)
(* 1 to their number.                                                      *)
TotalOrder(K, R) ==
    /\ \A i \in K : <<i, i>> \in R
    /\ \A i, j \in K : <<i, j>> \in R \/ <<j, i>> \in R
    /\ \A i, j \in K : <<i, j>> \in R /\ <<j, i>> \in R => i = j
    /\ \A i, j, l \in K : <<i, j>> \in R /\ <<j, l>> \in R => <<i, l>> \in R

RankIn(K, R, i) == Cardinality({j \in K : <<j, i>> \in R})

LEMMA Ranks ==
    ASSUME NEW K, IsFiniteSet(K), NEW R, TotalOrder(K, R), NEW k \in 1..Cardinality(K)
    PROVE  \E i \in K : RankIn(K, R, i) = k
<1> DEFINE Down(i) == {j \in K : <<j, i>> \in R}
           rank == [i \in K |-> Cardinality(Down(i))]
           n == Cardinality(K)
<1>1. n \in Nat
  BY FS_CardinalityType
<1>2. ASSUME NEW i \in K PROVE IsFiniteSet(Down(i)) /\ Cardinality(Down(i)) \in 1..n
  <2>1. Down(i) \in SUBSET K /\ Down(i) # {}
    BY DEF TotalOrder
  <2>2. IsFiniteSet(Down(i)) /\ Cardinality(Down(i)) <= n
    BY <2>1, FS_Subset
  <2>3. Cardinality(Down(i)) \in Nat /\ Cardinality(Down(i)) # 0
    BY <2>1, <2>2, FS_CardinalityType, FS_EmptySet
  <2> QED
    BY <1>1, <2>2, <2>3
<1>3. ASSUME NEW i \in K, NEW j \in K, i # j, <<i, j>> \in R
      PROVE  Cardinality(Down(i)) # Cardinality(Down(j))
  <2>1. Down(i) \in SUBSET Down(j) /\ j \in Down(j) /\ j \notin Down(i)
    BY <1>3 DEF TotalOrder
  <2> QED
    BY <1>2, <2>1, FS_Subset
<1>4. rank \in Injection(K, 1..n)
  <2>1. rank \in [K -> 1..n]
    BY <1>2
  <2>2. ASSUME NEW i \in K, NEW j \in K, rank[i] = rank[j] PROVE i = j
    <3>1. Cardinality(Down(i)) = Cardinality(Down(j))
      BY <2>2
    <3>2. <<i, j>> \in R \/ <<j, i>> \in R
      BY DEF TotalOrder
    <3> HIDE DEF Down, rank
    <3> QED
      BY <1>3, <3>1, <3>2
  <2> HIDE DEF rank
  <2> QED
    BY <2>1, <2>2 DEF Injection, IsInjective
<1>5. IsFiniteSet(1..n) /\ Cardinality(1..n) = n
  BY <1>1, FS_Interval
<1>6. rank \in Surjection(K, 1..n)
  <2> HIDE DEF rank
  <2> QED
    BY <1>4, <1>5, FS_Injection
<1>7. \E i \in K : rank[i] = k
  <2> HIDE DEF rank
  <2> QED
    BY <1>6 DEF Surjection
<1> QED
  BY <1>7 DEF RankIn

(* A reading of a sequence shows each of the places it takes once.         *)
Takes(t, n, s, K) ==
    /\ n \in Nat /\ K \subseteq DOMAIN s
    /\ \E p \in [1..n -> K] :
         /\ \A k, l \in 1..n : p[k] = p[l] => k = l
         /\ t = [k \in 1..n |-> s[p[k]]]

LEMMA Interval ==
    ASSUME NEW n \in Nat
    PROVE  IsFiniteSet(1..n) /\ Cardinality(1..n) = n
BY FS_Interval

LEMMA PlacesFinite ==
    ASSUME NEW S, NEW s \in Seq(S), NEW K \in SUBSET DOMAIN s
    PROVE  /\ IsFiniteSet(K) /\ Cardinality(K) \in Nat /\ DOMAIN s = 1..Len(s) /\ Len(s) \in Nat
           /\ IsFiniteSet(DOMAIN s) /\ Cardinality(DOMAIN s) = Len(s)
<1>1. Len(s) \in Nat /\ DOMAIN s = 1..Len(s)
  OBVIOUS
<1>2. IsFiniteSet(DOMAIN s) /\ Cardinality(DOMAIN s) = Len(s)
  BY <1>1, Interval
<1>3. IsFiniteSet(K)
  BY <1>2, FS_Subset
<1> QED
  BY <1>1, <1>2, <1>3, FS_CardinalityType

(* Pick takes the places it is told to keep, ByTime all of them. *)
LEMMA PickTakes ==
    ASSUME NEW S, NEW s \in Seq(S), NEW keep \in SUBSET DOMAIN s
    PROVE  Takes(Pick(s, keep), Cardinality(keep), s, keep)
<1> DEFINE R == {e \in keep \X keep : e[1] <= e[2]}
<1>1. TotalOrder(keep, R)
  BY PlacesFinite DEF TotalOrder
<1> DEFINE rank(i) == Cardinality({j \in keep : j <= i})
           place(k) == CHOOSE i \in keep : rank(i) = k
           n == Cardinality(keep)
           p == [k \in 1..n |-> place(k)]
<1>2. \A i \in keep : rank(i) = RankIn(keep, R, i)
  <2>1. \A i \in keep : {j \in keep : <<j, i>> \in R} = {j \in keep : j <= i}
    OBVIOUS
  <2> HIDE DEF R
  <2> QED
    BY <2>1 DEF RankIn
<1>3. Pick(s, keep) = [k \in 1..n |-> s[place(k)]]
  BY DEF Pick
<1> HIDE DEF R, rank
<1>4. ASSUME NEW k \in 1..n PROVE place(k) \in keep /\ RankIn(keep, R, place(k)) = k
  <2>1. \E i \in keep : RankIn(keep, R, i) = k
    BY <1>1, Ranks, PlacesFinite
  <2> QED
    BY <1>2, <2>1
<1> HIDE DEF place
<1>5. p \in [1..n -> keep] /\ \A k \in 1..n : p[k] = place(k)
  BY <1>4
<1>6. Pick(s, keep) = [k \in 1..n |-> s[p[k]]]
  BY <1>3
<1> HIDE DEF p, n
<1>7. \A k, l \in 1..n : p[k] = p[l] => k = l
  BY <1>4, <1>5
<1>8. n \in Nat /\ keep \subseteq DOMAIN s
  BY PlacesFinite DEF n
<1>9. Takes(Pick(s, keep), n, s, keep)
  BY <1>5, <1>6, <1>7, <1>8 DEF Takes
<1> QED
  BY <1>9 DEF n

LEMMA ByTimeTakes ==
    ASSUME NEW S, \A m \in S : At(m) \in Nat, NEW s \in Seq(S)
    PROVE  Takes(ByTime(s), Len(s), s, DOMAIN s)
<1> DEFINE D == DOMAIN s
           R == {e \in D \X D : At(s[e[1]]) < At(s[e[2]])
                                \/ (At(s[e[1]]) = At(s[e[2]]) /\ e[1] <= e[2])}
<1>0. D = 1..Len(s) /\ Len(s) \in Nat /\ \A i \in D : At(s[i]) \in Nat
  OBVIOUS
<1>1. TotalOrder(D, R)
  <2> DEFINE at == [i \in D |-> At(s[i])]
  <2>1. \A i \in D : at[i] \in Nat /\ i \in Nat
    BY <1>0
  <2>2. R = {e \in D \X D : at[e[1]] < at[e[2]] \/ (at[e[1]] = at[e[2]] /\ e[1] <= e[2])}
    OBVIOUS
  <2> HIDE DEF D, R, at
  <2>3. \A i, j \in D : <<i, j>> \in R <=> at[i] < at[j] \/ (at[i] = at[j] /\ i <= j)
    BY <2>2
  <2>4. \A i \in D : <<i, i>> \in R
    BY <2>1, <2>3
  <2>7. \A i, j \in D : <<i, j>> \in R \/ <<j, i>> \in R
    <3>1. ASSUME NEW i \in D, NEW j \in D PROVE <<i, j>> \in R \/ <<j, i>> \in R
      <4>1. at[i] < at[j] \/ at[j] < at[i] \/ at[i] = at[j]
        BY <2>1
      <4>2. i <= j \/ j <= i
        BY <2>1
      <4> QED
        BY <2>3, <4>1, <4>2
    <3> QED
      BY <3>1
  <2>5. \A i, j \in D : <<i, j>> \in R /\ <<j, i>> \in R => i = j
    BY <2>1, <2>3
  <2>6. \A i, j, l \in D : <<i, j>> \in R /\ <<j, l>> \in R => <<i, l>> \in R
    BY <2>1, <2>3
  <2> QED
    BY <2>4, <2>5, <2>6, <2>7 DEF TotalOrder
<1> DEFINE rank(i) == Cardinality({j \in D : At(s[j]) < At(s[i])
                                             \/ (At(s[j]) = At(s[i]) /\ j <= i)})
           place(k) == CHOOSE i \in D : rank(i) = k
           n == Len(s)
           p == [k \in 1..n |-> place(k)]
<1>2. \A i \in D : rank(i) = RankIn(D, R, i)
  <2>1. \A i \in D : {j \in D : <<j, i>> \in R}
                        = {j \in D : At(s[j]) < At(s[i]) \/ (At(s[j]) = At(s[i]) /\ j <= i)}
    OBVIOUS
  <2> HIDE DEF R
  <2> QED
    BY <2>1 DEF RankIn
<1>3. ByTime(s) = [k \in 1..n |-> s[place(k)]]
  <2>1. ByTime(s) = [k \in D |-> s[place(k)]]
    BY DEF ByTime
  <2> HIDE DEF place, D
  <2> QED
    BY <1>0, <2>1
<1>4. IsFiniteSet(D) /\ Cardinality(D) = n
  BY <1>0, Interval
<1> HIDE DEF R, rank, D
<1>5. ASSUME NEW k \in 1..n PROVE place(k) \in D /\ RankIn(D, R, place(k)) = k
  <2>1. \E i \in D : RankIn(D, R, i) = k
    BY <1>1, <1>4, Ranks
  <2> QED
    BY <1>2, <2>1
<1> HIDE DEF place
<1>6. p \in [1..n -> D] /\ \A k \in 1..n : p[k] = place(k)
  BY <1>5
<1>7. ByTime(s) = [k \in 1..n |-> s[p[k]]]
  BY <1>3
<1> HIDE DEF p, n
<1>8. \A k, l \in 1..n : p[k] = p[l] => k = l
  BY <1>5, <1>6
<1>9. n \in Nat /\ D \subseteq DOMAIN s
  BY <1>0 DEF n, D
<1>10. Takes(ByTime(s), n, s, D)
  BY <1>6, <1>7, <1>8, <1>9 DEF Takes
<1> QED
  BY <1>10 DEF n, D

LEMMA TakenIsSound ==
    ASSUME NEW S, NEW s \in Seq(S), NEW K, NEW n, NEW t, Takes(t, n, s, K)
    PROVE  /\ t \in Seq(S) /\ Len(t) = n
           /\ \A k \in DOMAIN t : \E i \in K : t[k] = s[i]
           /\ EachIdOnce(s) => EachIdOnce(t)
           /\ Ids(t) \subseteq {s[i].id : i \in K}
<1> PICK p \in [1..n -> K] :
             /\ \A k, l \in 1..n : p[k] = p[l] => k = l
             /\ t = [k \in 1..n |-> s[p[k]]]
  BY DEF Takes
<1>1. n \in Nat /\ \A k \in 1..n : p[k] \in K /\ p[k] \in DOMAIN s /\ s[p[k]] \in S
  BY DEF Takes
<1>2. t \in Seq(S) /\ Len(t) = n /\ DOMAIN t = 1..n
  BY <1>1
<1>3. \A k \in DOMAIN t : t[k] = s[p[k]]
  BY <1>2
<1> QED
  BY <1>1, <1>2, <1>3 DEF EachIdOnce, Ids

LEMMA PickSound ==
    ASSUME NEW S, NEW s \in Seq(S), NEW keep \in SUBSET DOMAIN s
    PROVE  /\ Pick(s, keep) \in Seq(S)
           /\ \A k \in DOMAIN Pick(s, keep) : \E i \in keep : Pick(s, keep)[k] = s[i]
           /\ EachIdOnce(s) => EachIdOnce(Pick(s, keep))
           /\ Ids(Pick(s, keep)) \subseteq {s[i].id : i \in keep}
           /\ Ids(Pick(s, keep)) \subseteq Ids(s)
<1>1. Cardinality(keep) \in Nat
  BY PlacesFinite
<1>2. {s[i].id : i \in keep} \subseteq Ids(s)
  BY DEF Ids
<1> DEFINE t == Pick(s, keep)
           n == Cardinality(keep)
<1>3. Takes(t, n, s, keep) /\ n \in Nat
  BY <1>1, PickTakes
<1> HIDE DEF t, n
<1>4. /\ t \in Seq(S) /\ \A k \in DOMAIN t : \E i \in keep : t[k] = s[i]
      /\ EachIdOnce(s) => EachIdOnce(t)
      /\ Ids(t) \subseteq {s[i].id : i \in keep}
  BY <1>3, TakenIsSound
<1> QED
  BY <1>2, <1>4 DEF t

LEMMA AllTakenIsSound ==
    ASSUME NEW S, NEW s \in Seq(S), NEW t, Takes(t, Len(s), s, DOMAIN s)
    PROVE  /\ t \in Seq(S) /\ Len(t) = Len(s)
           /\ EachIdOnce(s) => EachIdOnce(t)
           /\ Ids(t) \subseteq Ids(s)
BY TakenIsSound DEF Ids

LEMMA ByTimeSound ==
    ASSUME NEW S, \A m \in S : At(m) \in Nat, NEW s \in Seq(S)
    PROVE  /\ ByTime(s) \in Seq(S) /\ Len(ByTime(s)) = Len(s)
           /\ EachIdOnce(s) => EachIdOnce(ByTime(s))
           /\ Ids(ByTime(s)) \subseteq Ids(s)
<1>1. Takes(ByTime(s), Len(s), s, DOMAIN s)
  BY ByTimeTakes
<1> QED
  BY <1>1, AllTakenIsSound

LEMMA ConcatSound ==
    ASSUME NEW S, NEW s \in Seq(S), NEW t \in Seq(S)
    PROVE  /\ s \o t \in Seq(S)
           /\ Ids(s \o t) = Ids(s) \cup Ids(t)
           /\ EachIdOnce(s) /\ EachIdOnce(t) /\ Ids(s) \cap Ids(t) = {} => EachIdOnce(s \o t)
<1> DEFINE u == s \o t
<1>1. /\ u \in Seq(S) /\ DOMAIN u = 1..(Len(s) + Len(t))
      /\ \A i \in DOMAIN u : u[i] = IF i <= Len(s) THEN s[i] ELSE t[i - Len(s)]
  BY ConcatProperties
<1>2. /\ DOMAIN s = 1..Len(s) /\ DOMAIN t = 1..Len(t) /\ Len(s) \in Nat /\ Len(t) \in Nat
  OBVIOUS
<1>3. \A i \in DOMAIN s : i \in DOMAIN u /\ u[i] = s[i]
  BY <1>1, <1>2
<1>4. \A j \in DOMAIN t : Len(s) + j \in DOMAIN u /\ u[Len(s) + j] = t[j]
  BY <1>1, <1>2
<1> HIDE DEF u
<1>5. Ids(u) = Ids(s) \cup Ids(t)
  <2>1. Ids(s) \subseteq Ids(u)
    BY <1>3 DEF Ids
  <2>2. Ids(t) \subseteq Ids(u)
    BY <1>4 DEF Ids
  <2>3. ASSUME NEW i \in DOMAIN u PROVE u[i].id \in Ids(s) \cup Ids(t)
    <3>1. i \in DOMAIN s \/ i - Len(s) \in DOMAIN t
      BY <1>1, <1>2
    <3> QED
      BY <1>1, <1>2, <3>1 DEF Ids
  <2> QED
    BY <2>1, <2>2, <2>3 DEF Ids
<1>6. ASSUME EachIdOnce(s), EachIdOnce(t), Ids(s) \cap Ids(t) = {} PROVE EachIdOnce(u)
  <2>1. ASSUME NEW i \in DOMAIN u, NEW j \in DOMAIN u, u[i].id = u[j].id PROVE i = j
    <3>1. CASE i <= Len(s) /\ j <= Len(s)
      BY <1>1, <1>2, <1>6, <2>1, <3>1 DEF EachIdOnce
    <3>2. CASE i > Len(s) /\ j > Len(s)
      <4>1. i - Len(s) \in DOMAIN t /\ j - Len(s) \in DOMAIN t
        BY <1>1, <1>2, <3>2
      <4>2. u[i] = t[i - Len(s)] /\ u[j] = t[j - Len(s)]
        BY <1>1, <1>2, <3>2
      <4>3. i - Len(s) = j - Len(s)
        BY <1>6, <2>1, <4>1, <4>2 DEF EachIdOnce
      <4> QED
        BY <1>1, <1>2, <4>3
    <3>3. ASSUME NEW k \in DOMAIN u, NEW l \in DOMAIN u, k <= Len(s), l > Len(s), u[k].id = u[l].id
          PROVE  FALSE
      <4>1. k \in DOMAIN s /\ l - Len(s) \in DOMAIN t
        BY <1>1, <1>2, <3>3
      <4>2. u[k] = s[k] /\ u[l] = t[l - Len(s)]
        BY <1>1, <1>2, <3>3
      <4>3. u[k].id \in Ids(s) /\ u[l].id \in Ids(t)
        BY <4>1, <4>2 DEF Ids
      <4> QED
        BY <1>6, <3>3, <4>3
    <3> QED
      BY <1>1, <1>2, <2>1, <3>1, <3>2, <3>3
  <2> QED
    BY <2>1 DEF EachIdOnce
<1> QED
  BY <1>1, <1>5, <1>6 DEF u

LEMMA AppendSound ==
    ASSUME NEW S, NEW s \in Seq(S), NEW m \in S
    PROVE  /\ Append(s, m) \in Seq(S)
           /\ Ids(Append(s, m)) = Ids(s) \cup {m.id}
           /\ EachIdOnce(s) /\ m.id \notin Ids(s) => EachIdOnce(Append(s, m))
<1>1. Append(s, m) = s \o <<m>> /\ <<m>> \in Seq(S)
  BY AppendIsConcat
<1>2. Ids(<<m>>) = {m.id} /\ EachIdOnce(<<m>>)
  <2>1. DOMAIN <<m>> = {1} /\ <<m>>[1] = m
    OBVIOUS
  <2> QED
    BY <2>1 DEF Ids, EachIdOnce
<1> DEFINE u == <<m>>
<1> HIDE DEF u
<1>3. u \in Seq(S) /\ Append(s, m) = s \o u /\ Ids(u) = {m.id} /\ EachIdOnce(u)
  BY <1>1, <1>2 DEF u
<1>4. /\ s \o u \in Seq(S) /\ Ids(s \o u) = Ids(s) \cup {m.id}
      /\ EachIdOnce(s) /\ Ids(s) \cap {m.id} = {} => EachIdOnce(s \o u)
  BY <1>3, ConcatSound
<1> QED
  BY <1>3, <1>4

(* No two messages of a merge of journal and stream have one id. *)
LEMMA MergeExternalHistorySound ==
    ASSUME NEW S, \A m \in S : At(m) \in Nat,
           NEW persisted \in Seq(S), NEW cached \in Seq(S),
           EachIdOnce(persisted), EachIdOnce(cached)
    PROVE  /\ MergeExternalHistory(persisted, cached) \in Seq(S)
           /\ EachIdOnce(MergeExternalHistory(persisted, cached))
           /\ Ids(MergeExternalHistory(persisted, cached)) \subseteq Ids(persisted) \cup Ids(cached)
<1> DEFINE unknown == {i \in DOMAIN cached : cached[i].id \notin Ids(persisted)}
           same(i) == Cardinality({k \in DOMAIN persisted :
                                     Signature(persisted[k]) = Signature(cached[i])})
           rank(i) == Cardinality({j \in unknown :
                                     j <= i /\ Signature(cached[j]) = Signature(cached[i])})
           new == {i \in unknown : rank(i) > same(i)}
           added == Pick(cached, new)
<1>1. MergeExternalHistory(persisted, cached) = ByTime(persisted \o added)
  BY DEF MergeExternalHistory
<1>2. new \in SUBSET DOMAIN cached /\ new \subseteq unknown
  OBVIOUS
<1>3. /\ added \in Seq(S) /\ EachIdOnce(added)
      /\ Ids(added) \subseteq {cached[i].id : i \in new} /\ Ids(added) \subseteq Ids(cached)
  <2> HIDE DEF new
  <2> QED
    BY <1>2, PickSound
<1>4. Ids(persisted) \cap Ids(added) = {}
  <2> HIDE DEF new, added
  <2> QED
    BY <1>2, <1>3
<1> HIDE DEF added
<1>5. /\ persisted \o added \in Seq(S) /\ EachIdOnce(persisted \o added)
      /\ Ids(persisted \o added) = Ids(persisted) \cup Ids(added)
  BY <1>3, <1>4, ConcatSound
<1> DEFINE all == persisted \o added
           result == ByTime(all)
<1>6. MergeExternalHistory(persisted, cached) = result
  BY <1>1
<1> HIDE DEF all
<1>7. result \in Seq(S) /\ EachIdOnce(result) /\ Ids(result) \subseteq Ids(all)
  BY <1>5, ByTimeSound DEF all
<1> HIDE DEF result
<1> QED
  BY <1>3, <1>5, <1>6, <1>7 DEF all

LEMMA HealSound ==
    ASSUME NEW S, NEW s \in Seq(S)
    PROVE  /\ HealPoisonedSnapshot(s) \in Seq(S)
           /\ EachIdOnce(s) => EachIdOnce(HealPoisonedSnapshot(s))
           /\ Ids(HealPoisonedSnapshot(s)) \subseteq Ids(s)
<1>1. {i \in DOMAIN s : ~DuplicateOfPrevious(s, i)} \in SUBSET DOMAIN s
  OBVIOUS
<1> QED
  BY <1>1, PickSound DEF HealPoisonedSnapshot

-----------------------------------------------------------------------------
(* The walk of two transcripts.  The library's induction needs an operator *)
(* as a parameter; a set of numbers will do.                               *)
LEMMA Induction ==
    ASSUME NEW T, 0 \in T, \A n \in Nat : n \in T => n + 1 \in T
    PROVE  Nat \subseteq T
<1> DEFINE missing == Nat \ T
           less == OpToRel(<, Nat)
<1>1. SUFFICES ASSUME missing # {} PROVE FALSE
  OBVIOUS
<1>2. PICK x \in missing : \A y \in missing : <<y, x>> \notin less
  <2>1. missing \subseteq Nat /\ IsWellFoundedOn(less, Nat)
    BY NatLessThanWellFounded
  <2> HIDE DEF missing, less
  <2> QED
    BY <1>1, <2>1, WFMin
<1>3. x \in Nat /\ x # 0
  OBVIOUS
<1>4. x - 1 \in Nat /\ x - 1 \notin T
  BY <1>3
<1>5. <<x - 1, x>> \in less
  BY <1>3, <1>4 DEF OpToRel
<1> QED
  BY <1>2, <1>4, <1>5

WalkStep(w, p, r, at) ==
    LET common == Common(p, r)
        i == at[1]
        j == at[2]
    IN IF i > Len(p) THEN SubSeq(r, j, Len(r))
       ELSE IF j > Len(r) THEN SubSeq(p, i, Len(p))
       ELSE IF Signature(p[i]) = Signature(r[j]) THEN <<p[i]>> \o w[<<i + 1, j + 1>>]
       ELSE IF common[<<i + 1, j>>] >= common[<<i, j + 1>>]
            THEN <<p[i]>> \o w[<<i + 1, j>>]
       ELSE <<r[j]>> \o w[<<i, j + 1>>]

IsWalk(w, p, r) == w = [at \in Places(p, r) |-> WalkStep(w, p, r, at)]

(* How much of the two is left at a place. *)
Left(p, r, at) == (Len(p) + 1 - at[1]) + (Len(r) + 1 - at[2])

LEMMA WalkIsChosen ==
    ASSUME NEW p, NEW r
    PROVE  Walk(p, r) = CHOOSE w : IsWalk(w, p, r)
BY DEF Walk, WalkStep, IsWalk

LEMMA PlacesAre ==
    ASSUME NEW S, NEW p \in Seq(S), NEW r \in Seq(S), NEW at \in Places(p, r)
    PROVE  /\ at[1] \in 1..(Len(p) + 1) /\ at[2] \in 1..(Len(r) + 1)
           /\ Len(p) \in Nat /\ Len(r) \in Nat
           /\ Left(p, r, at) \in 0..(Len(p) + Len(r))
           /\ at[1] <= Len(p) => <<at[1] + 1, at[2]>> \in Places(p, r)
                                 /\ Left(p, r, <<at[1] + 1, at[2]>>) < Left(p, r, at)
           /\ at[2] <= Len(r) => <<at[1], at[2] + 1>> \in Places(p, r)
                                 /\ Left(p, r, <<at[1], at[2] + 1>>) < Left(p, r, at)
           /\ at[1] <= Len(p) /\ at[2] <= Len(r)
                => <<at[1] + 1, at[2] + 1>> \in Places(p, r)
                   /\ Left(p, r, <<at[1] + 1, at[2] + 1>>) < Left(p, r, at)
<1>1. /\ at[1] \in 1..(Len(p) + 1) /\ at[2] \in 1..(Len(r) + 1)
      /\ Len(p) \in Nat /\ Len(r) \in Nat
  BY DEF Places
<1>2. Left(p, r, at) \in 0..(Len(p) + Len(r))
  BY <1>1 DEF Left
<1>3. ASSUME at[1] <= Len(p)
      PROVE  /\ <<at[1] + 1, at[2]>> \in Places(p, r)
             /\ Left(p, r, <<at[1] + 1, at[2]>>) < Left(p, r, at)
  BY <1>1, <1>3 DEF Places, Left
<1>4. ASSUME at[2] <= Len(r)
      PROVE  /\ <<at[1], at[2] + 1>> \in Places(p, r)
             /\ Left(p, r, <<at[1], at[2] + 1>>) < Left(p, r, at)
  BY <1>1, <1>4 DEF Places, Left
<1>5. ASSUME at[1] <= Len(p), at[2] <= Len(r)
      PROVE  /\ <<at[1] + 1, at[2] + 1>> \in Places(p, r)
             /\ Left(p, r, <<at[1] + 1, at[2] + 1>>) < Left(p, r, at)
  <2>1. <<at[1] + 1, at[2] + 1>> \in Places(p, r)
    BY <1>1, <1>5 DEF Places
  <2>2. Left(p, r, <<at[1] + 1, at[2] + 1>>) < Left(p, r, at)
    <3> DEFINE b == <<at[1] + 1, at[2] + 1>>
    <3>1. b[1] = at[1] + 1 /\ b[2] = at[2] + 1
      OBVIOUS
    <3> HIDE DEF b
    <3>2. /\ Left(p, r, b) = (Len(p) + 1 - (at[1] + 1)) + (Len(r) + 1 - (at[2] + 1))
          /\ Left(p, r, at) = (Len(p) + 1 - at[1]) + (Len(r) + 1 - at[2])
      BY <3>1 DEF Left
    <3>3. at[1] \in Int /\ at[2] \in Int /\ Len(p) \in Int /\ Len(r) \in Int
      BY <1>1
    <3>4. Left(p, r, b) < Left(p, r, at)
      <4>1. \A x, y, m, n \in Int : (m + 1 - (x + 1)) + (n + 1 - (y + 1)) < (m + 1 - x) + (n + 1 - y)
        OBVIOUS
      <4> QED
        BY <3>2, <3>3, <4>1
    <3> QED
      BY <3>4 DEF b
  <2> QED
    BY <2>1, <2>2
<1> QED
  BY <1>1, <1>2, <1>3, <1>4, <1>5

(* A step of the walk looks at places where less is left. *)
LEMMA StepIsLocal ==
    ASSUME NEW S, NEW p \in Seq(S), NEW r \in Seq(S), NEW at \in Places(p, r), NEW g, NEW h,
           \A b \in Places(p, r) : Left(p, r, b) < Left(p, r, at) => g[b] = h[b]
    PROVE  WalkStep(g, p, r, at) = WalkStep(h, p, r, at)
<1> DEFINE i == at[1]
           j == at[2]
<1>1. CASE i > Len(p) \/ j > Len(r)
  BY <1>1 DEF WalkStep
<1>2. CASE i <= Len(p) /\ j <= Len(r)
  <2>1. /\ g[<<i + 1, j>>] = h[<<i + 1, j>>]
        /\ g[<<i, j + 1>>] = h[<<i, j + 1>>]
        /\ g[<<i + 1, j + 1>>] = h[<<i + 1, j + 1>>]
    BY <1>2, PlacesAre
  <2> QED
    BY <2>1 DEF WalkStep
<1>3. i \in Nat /\ j \in Nat /\ Len(p) \in Nat /\ Len(r) \in Nat
  BY DEF Places
<1> QED
  BY <1>1, <1>2, <1>3

LEMMA StepIs ==
    ASSUME NEW S, NEW p \in Seq(S), NEW r \in Seq(S), NEW at \in Places(p, r), NEW w
    PROVE  /\ at[1] > Len(p) => WalkStep(w, p, r, at) = SubSeq(r, at[2], Len(r))
           /\ at[1] <= Len(p) /\ at[2] > Len(r) => WalkStep(w, p, r, at) = SubSeq(p, at[1], Len(p))
           /\ at[1] <= Len(p) /\ at[2] <= Len(r)
                => WalkStep(w, p, r, at) \in {<<p[at[1]]>> \o w[<<at[1] + 1, at[2] + 1>>],
                                             <<p[at[1]]>> \o w[<<at[1] + 1, at[2]>>],
                                             <<r[at[2]]>> \o w[<<at[1], at[2] + 1>>]}
<1> DEFINE i == at[1]
           j == at[2]
<1>1. i \in Nat /\ j \in Nat /\ Len(p) \in Nat /\ Len(r) \in Nat
  BY DEF Places
<1>2. (i <= Len(p) <=> ~(i > Len(p))) /\ (j <= Len(r) <=> ~(j > Len(r)))
  BY <1>1
<1> HIDE DEF i, j
<1> QED
  BY <1>2, Zenon DEF WalkStep, i, j

LEMMA WalkExists ==
    ASSUME NEW S, NEW p \in Seq(S), NEW r \in Seq(S)
    PROVE  IsWalk(Walk(p, r), p, r)
<1> DEFINE Upto(g, n) == \A at \in Places(p, r) :
                           Left(p, r, at) < n => g[at] = WalkStep(g, p, r, at)
           T == {n \in Nat : \E g : Upto(g, n)}
<1>0. \A at \in Places(p, r) : Left(p, r, at) \in Nat /\ Left(p, r, at) < Len(p) + Len(r) + 1
  <2>1. ASSUME NEW at \in Places(p, r)
        PROVE  Left(p, r, at) \in 0..(Len(p) + Len(r)) /\ Len(p) \in Nat /\ Len(r) \in Nat
    BY PlacesAre
  <2> QED
    BY <2>1
<1>1. 0 \in T
  <2>1. Upto(<<>>, 0)
    BY <1>0
  <2> QED
    BY <2>1
<1>2. ASSUME NEW n \in Nat, n \in T PROVE n + 1 \in T
  <2>1. PICK g : Upto(g, n)
    BY <1>2
  <2> DEFINE h == [at \in Places(p, r) |-> WalkStep(g, p, r, at)]
  <2>2. \A at \in Places(p, r) : h[at] = WalkStep(g, p, r, at)
    OBVIOUS
  <2> HIDE DEF h
  <2>3. ASSUME NEW at \in Places(p, r), Left(p, r, at) < n + 1
        PROVE  h[at] = WalkStep(h, p, r, at)
    <3>1. ASSUME NEW b \in Places(p, r), Left(p, r, b) < Left(p, r, at)
          PROVE  g[b] = h[b]
      <4>1. Left(p, r, b) < n
        BY <1>0, <2>3, <3>1
      <4> QED
        BY <2>1, <2>2, <4>1
    <3>2. WalkStep(g, p, r, at) = WalkStep(h, p, r, at)
      BY <3>1, StepIsLocal
    <3> QED
      BY <2>2, <3>2
  <2>4. Upto(h, n + 1)
    BY <2>3
  <2> QED
    BY <2>4
<1>3. Len(p) + Len(r) + 1 \in T
  <2>1. Len(p) + Len(r) + 1 \in Nat
    OBVIOUS
  <2> HIDE DEF T
  <2> QED
    BY <1>1, <1>2, <2>1, Induction
<1>4. PICK g : Upto(g, Len(p) + Len(r) + 1)
  BY <1>3
<1>5. \A at \in Places(p, r) : g[at] = WalkStep(g, p, r, at)
  BY <1>0, <1>4
<1> DEFINE h == [at \in Places(p, r) |-> g[at]]
<1>6. \A at \in Places(p, r) : h[at] = g[at]
  OBVIOUS
<1>7. \A at \in Places(p, r) : WalkStep(h, p, r, at) = g[at]
  <2> HIDE DEF h
  <2> QED
    BY <1>5, <1>6, StepIsLocal
<1>8. IsWalk(h, p, r)
  BY <1>7 DEF IsWalk
<1> HIDE DEF h
<1>9. IsWalk(CHOOSE w : IsWalk(w, p, r), p, r)
  BY <1>8, Zenon
<1> QED
  BY <1>9, WalkIsChosen, Zenon

IdsFrom(s, i) == {s[k].id : k \in i..Len(s)}

LEMMA PartSound ==
    ASSUME NEW S, NEW s \in Seq(S), NEW m \in 1..(Len(s) + 1), NEW n \in 0..Len(s)
    PROVE  /\ SubSeq(s, m, n) \in Seq(S)
           /\ EachIdOnce(s) => EachIdOnce(SubSeq(s, m, n))
           /\ Ids(SubSeq(s, m, n)) \subseteq {s[k].id : k \in m..n}
<1> DEFINE u == SubSeq(s, m, n)
<1>1. m \in Nat /\ n \in Nat /\ DOMAIN s = 1..Len(s) /\ \A k \in m..n : k \in DOMAIN s /\ s[k] \in S
  OBVIOUS
<1>2. /\ u \in Seq(S)
      /\ Len(u) = IF m <= n THEN n - m + 1 ELSE 0
      /\ \A k \in 1..(n - m + 1) : u[k] = s[m + k - 1]
  BY <1>1, SubSeqProperties
<1> HIDE DEF u
<1>3. \A k \in DOMAIN u : u[k] = s[m + k - 1] /\ m + k - 1 \in m..n /\ m + k - 1 \in DOMAIN s
  <2>1. DOMAIN u = 1..Len(u)
    BY <1>2
  <2> QED
    BY <1>1, <1>2, <2>1
<1>4. Ids(u) \subseteq {s[k].id : k \in m..n}
  BY <1>3 DEF Ids
<1>5. ASSUME EachIdOnce(s) PROVE EachIdOnce(u)
  <2>1. ASSUME NEW k \in DOMAIN u, NEW l \in DOMAIN u, u[k].id = u[l].id PROVE k = l
    <3>1. m + k - 1 = m + l - 1
      BY <1>3, <1>5, <2>1 DEF EachIdOnce
    <3>2. k \in Nat /\ l \in Nat
      BY <1>2
    <3> QED
      BY <1>1, <3>1, <3>2
  <2> QED
    BY <2>1 DEF EachIdOnce
<1> QED
  BY <1>2, <1>4, <1>5 DEF u

LEMMA PrefixedSound ==
    ASSUME NEW S, NEW m \in S, NEW s \in Seq(S), EachIdOnce(s), m.id \notin Ids(s)
    PROVE  /\ <<m>> \o s \in Seq(S) /\ EachIdOnce(<<m>> \o s)
           /\ Ids(<<m>> \o s) = {m.id} \cup Ids(s)
<1> DEFINE u == <<m>>
<1>1. u \in Seq(S) /\ DOMAIN u = {1} /\ u[1] = m
  OBVIOUS
<1> HIDE DEF u
<1>2. Ids(u) = {m.id} /\ EachIdOnce(u)
  BY <1>1 DEF Ids, EachIdOnce
<1>3. Ids(u) \cap Ids(s) = {}
  BY <1>2
<1>4. u \o s \in Seq(S) /\ EachIdOnce(u \o s) /\ Ids(u \o s) = Ids(u) \cup Ids(s)
  BY <1>1, <1>2, <1>3, ConcatSound
<1> QED
  BY <1>2, <1>4 DEF u

(* What the walk makes of two transcripts without a common id has no id twice. *)
LEMMA WalkSound ==
    ASSUME NEW S, NEW p \in Seq(S), NEW r \in Seq(S),
           EachIdOnce(p), EachIdOnce(r), Ids(p) \cap Ids(r) = {},
           NEW at \in Places(p, r)
    PROVE  /\ Walk(p, r)[at] \in Seq(S) /\ EachIdOnce(Walk(p, r)[at])
           /\ Ids(Walk(p, r)[at]) \subseteq IdsFrom(p, at[1]) \cup IdsFrom(r, at[2])
<1> DEFINE w == Walk(p, r)
           Sound(b) == /\ w[b] \in Seq(S) /\ EachIdOnce(w[b])
                       /\ Ids(w[b]) \subseteq IdsFrom(p, b[1]) \cup IdsFrom(r, b[2])
           T == {n \in Nat : \A b \in Places(p, r) : Left(p, r, b) < n => Sound(b)}
<1>1. \A b \in Places(p, r) : w[b] = WalkStep(w, p, r, b)
  <2>1. IsWalk(w, p, r)
    BY WalkExists
  <2> HIDE DEF w
  <2> QED
    BY <2>1 DEF IsWalk
<1> HIDE DEF w
<1>0. \A b \in Places(p, r) : Left(p, r, b) \in Nat /\ Left(p, r, b) < Len(p) + Len(r) + 1
  <2>1. ASSUME NEW b \in Places(p, r)
        PROVE  Left(p, r, b) \in 0..(Len(p) + Len(r)) /\ Len(p) \in Nat /\ Len(r) \in Nat
    BY PlacesAre
  <2> QED
    BY <2>1
<1>2. 0 \in T
  BY <1>0
<1>3. ASSUME NEW n \in Nat, n \in T PROVE n + 1 \in T
  <2> SUFFICES ASSUME NEW b \in Places(p, r), Left(p, r, b) < n + 1 PROVE Sound(b)
    <3> HIDE DEF Sound
    <3> QED
      OBVIOUS
  <2> DEFINE i == b[1]
             j == b[2]
  <2>1. i \in 1..(Len(p) + 1) /\ j \in 1..(Len(r) + 1) /\ Len(p) \in Nat /\ Len(r) \in Nat
    BY PlacesAre
  <2>2. ASSUME NEW c \in Places(p, r), Left(p, r, c) < Left(p, r, b) PROVE Sound(c)
    <3>1. Left(p, r, c) < n
      BY <1>0, <2>2
    <3> QED
      BY <1>3, <3>1
  <2>7. w[b] = WalkStep(w, p, r, b)
    BY <1>1
  <2>8. /\ i > Len(p) => w[b] = SubSeq(r, j, Len(r))
        /\ i <= Len(p) /\ j > Len(r) => w[b] = SubSeq(p, i, Len(p))
        /\ i <= Len(p) /\ j <= Len(r) => \/ w[b] = <<p[i]>> \o w[<<i + 1, j + 1>>]
                                         \/ w[b] = <<p[i]>> \o w[<<i + 1, j>>]
                                         \/ w[b] = <<r[j]>> \o w[<<i, j + 1>>]
    <3> DEFINE step == WalkStep(w, p, r, b)
    <3>1. /\ b[1] > Len(p) => step = SubSeq(r, b[2], Len(r))
          /\ b[1] <= Len(p) /\ b[2] > Len(r) => step = SubSeq(p, b[1], Len(p))
          /\ b[1] <= Len(p) /\ b[2] <= Len(r)
                => step \in {<<p[b[1]]>> \o w[<<b[1] + 1, b[2] + 1>>],
                             <<p[b[1]]>> \o w[<<b[1] + 1, b[2]>>],
                             <<r[b[2]]>> \o w[<<b[1], b[2] + 1>>]}
      BY StepIs, Zenon
    <3>2. step = w[b]
      BY <2>7
    <3> HIDE DEF step
    <3> QED
      BY <3>1, <3>2, Zenon
  <2>3. CASE i > Len(p)
    <3>1. w[b] = SubSeq(r, j, Len(r))
      BY <2>3, <2>8
    <3>2. j \in 1..(Len(r) + 1) /\ Len(r) \in 0..Len(r)
      BY <2>1
    <3>3. /\ w[b] \in Seq(S) /\ EachIdOnce(w[b])
          /\ Ids(w[b]) \subseteq {r[k].id : k \in j..Len(r)}
      BY <3>1, <3>2, PartSound
    <3> QED
      BY <3>3 DEF IdsFrom
  <2>4. CASE i <= Len(p) /\ j > Len(r)
    <3>1. w[b] = SubSeq(p, i, Len(p))
      BY <2>4, <2>8
    <3>2. i \in 1..(Len(p) + 1) /\ Len(p) \in 0..Len(p)
      BY <2>1
    <3>3. /\ w[b] \in Seq(S) /\ EachIdOnce(w[b])
          /\ Ids(w[b]) \subseteq {p[k].id : k \in i..Len(p)}
      BY <3>1, <3>2, PartSound
    <3> QED
      BY <3>3 DEF IdsFrom
  <2>5. CASE i <= Len(p) /\ j <= Len(r)
    <3>1. /\ i \in DOMAIN p /\ j \in DOMAIN r /\ p[i] \in S /\ r[j] \in S
          /\ p[i].id \in Ids(p) /\ r[j].id \in Ids(r)
      BY <2>1, <2>5 DEF Ids
    <3>2. p[i].id \notin IdsFrom(p, i + 1) /\ r[j].id \notin IdsFrom(r, j + 1)
      <4>1. \A k \in (i + 1)..Len(p) : k \in DOMAIN p /\ k # i
        BY <2>1, <2>5
      <4>2. \A k \in (j + 1)..Len(r) : k \in DOMAIN r /\ k # j
        BY <2>1, <2>5
      <4> QED
        BY <3>1, <4>1, <4>2 DEF EachIdOnce, IdsFrom
    <3>3. /\ IdsFrom(p, i) = {p[i].id} \cup IdsFrom(p, i + 1)
          /\ IdsFrom(r, j) = {r[j].id} \cup IdsFrom(r, j + 1)
      <4>1. i..Len(p) = {i} \cup (i + 1)..Len(p) /\ j..Len(r) = {j} \cup (j + 1)..Len(r)
        BY <2>1, <2>5
      <4> QED
        BY <4>1 DEF IdsFrom
    <3>4. IdsFrom(p, i) \subseteq Ids(p) /\ IdsFrom(r, j) \subseteq Ids(r)
      BY <2>1 DEF IdsFrom, Ids
    <3>5. Sound(<<i + 1, j>>) /\ Sound(<<i, j + 1>>) /\ Sound(<<i + 1, j + 1>>)
      BY <2>2, <2>5, PlacesAre
    <3>6. \/ w[b] = <<p[i]>> \o w[<<i + 1, j + 1>>]
          \/ w[b] = <<p[i]>> \o w[<<i + 1, j>>]
          \/ w[b] = <<r[j]>> \o w[<<i, j + 1>>]
      BY <2>5, <2>8
    <3>7. CASE w[b] = <<p[i]>> \o w[<<i + 1, j + 1>>]
      <4> DEFINE c == <<i + 1, j + 1>>
      <4>1. c[1] = i + 1 /\ c[2] = j + 1
        OBVIOUS
      <4>2. Sound(c) /\ w[b] = <<p[i]>> \o w[c]
        BY <3>5, <3>7
      <4> HIDE DEF c
      <4>3. p[i].id \notin Ids(w[c])
        BY <3>1, <3>2, <3>3, <3>4, <4>1, <4>2
      <4> QED
        BY <3>1, <3>3, <4>1, <4>2, <4>3, PrefixedSound
    <3>8. CASE w[b] = <<p[i]>> \o w[<<i + 1, j>>]
      <4> DEFINE c == <<i + 1, j>>
      <4>1. c[1] = i + 1 /\ c[2] = j
        OBVIOUS
      <4>2. Sound(c) /\ w[b] = <<p[i]>> \o w[c]
        BY <3>5, <3>8
      <4> HIDE DEF c
      <4>3. p[i].id \notin Ids(w[c])
        BY <3>1, <3>2, <3>4, <4>1, <4>2
      <4> QED
        BY <3>1, <3>3, <4>1, <4>2, <4>3, PrefixedSound
    <3>9. CASE w[b] = <<r[j]>> \o w[<<i, j + 1>>]
      <4> DEFINE c == <<i, j + 1>>
      <4>1. c[1] = i /\ c[2] = j + 1
        OBVIOUS
      <4>2. Sound(c) /\ w[b] = <<r[j]>> \o w[c]
        BY <3>5, <3>9
      <4> HIDE DEF c
      <4>3. r[j].id \notin Ids(w[c])
        BY <3>1, <3>2, <3>4, <4>1, <4>2
      <4> QED
        BY <3>1, <3>3, <4>1, <4>2, <4>3, PrefixedSound
    <3> QED
      BY <3>6, <3>7, <3>8, <3>9
  <2> QED
    BY <2>1, <2>3, <2>4, <2>5
<1>4. Len(p) + Len(r) + 1 \in T
  <2>1. Len(p) + Len(r) + 1 \in Nat
    OBVIOUS
  <2> HIDE DEF T
  <2> QED
    BY <1>2, <1>3, <2>1, Induction
<1>5. Sound(at)
  BY <1>0, <1>4
<1> QED
  BY <1>5 DEF w

LEMMA MergeReplaySound ==
    ASSUME NEW S, NEW before \in Seq(S), NEW replayed \in Seq(S),
           EachIdOnce(before), EachIdOnce(replayed), Ids(before) \cap Ids(replayed) = {}
    PROVE  /\ MergeReplay(before, replayed) \in Seq(S)
           /\ EachIdOnce(MergeReplay(before, replayed))
           /\ Ids(MergeReplay(before, replayed)) \subseteq Ids(before) \cup Ids(replayed)
<1> DEFINE p == HealPoisonedSnapshot(before)
           r == HealPoisonedSnapshot(replayed)
           at == <<1, 1>>
           u == Walk(p, r)[at]
<1>1. /\ p \in Seq(S) /\ EachIdOnce(p) /\ Ids(p) \subseteq Ids(before)
      /\ r \in Seq(S) /\ EachIdOnce(r) /\ Ids(r) \subseteq Ids(replayed)
  BY HealSound
<1>2. MergeReplay(before, replayed) = HealPoisonedSnapshot(u)
  BY DEF MergeReplay
<1> HIDE DEF p, r
<1>3. at \in Places(p, r) /\ at[1] = 1 /\ at[2] = 1
  BY <1>1 DEF Places
<1>4. Ids(p) \cap Ids(r) = {}
  BY <1>1
<1> HIDE DEF at
<1>5. u \in Seq(S) /\ EachIdOnce(u) /\ Ids(u) \subseteq IdsFrom(p, at[1]) \cup IdsFrom(r, at[2])
  BY <1>1, <1>3, <1>4, WalkSound
<1>6. IdsFrom(p, 1) \subseteq Ids(p) /\ IdsFrom(r, 1) \subseteq Ids(r)
  BY <1>1 DEF IdsFrom, Ids
<1> HIDE DEF u
<1>7. /\ HealPoisonedSnapshot(u) \in Seq(S) /\ EachIdOnce(HealPoisonedSnapshot(u))
      /\ Ids(HealPoisonedSnapshot(u)) \subseteq Ids(u)
  BY <1>5, HealSound
<1> QED
  BY <1>1, <1>2, <1>3, <1>5, <1>6, <1>7

-----------------------------------------------------------------------------
(* What the app makes of pages. *)

(* A message may take the id of another. *)
Renamable(S) ==
    \A m, l \in S : [m EXCEPT !.id = l.id] \in S /\ [m EXCEPT !.id = l.id].id = l.id

LEMMA OneIsSome ==
    ASSUME NEW W, Cardinality(W) = 1
    PROVE  W # {}
<1>1. Cardinality({}) = 0
  BY FS_EmptySet
<1> QED
  BY <1>1

LEMMA StabilizeBySound ==
    ASSUME NEW S, Renamable(S), NEW previous \in Seq(S), NEW next \in Seq(S), NEW had, NEW has,
           EachIdOnce(previous), EachIdOnce(next)
    PROVE  /\ StabilizeBy(previous, next, had, has) \in Seq(S)
           /\ EachIdOnce(StabilizeBy(previous, next, had, has))
<1> DEFINE gone == {i \in DOMAIN previous : previous[i].id \notin Ids(next) /\ had[i] # <<>>}
           new == {i \in DOMAIN next : next[i].id \notin Ids(previous) /\ has[i] # <<>>}
           was(i) == {j \in gone : had[j] = has[i]}
           alone(i) == {j \in new : has[j] = has[i]} = {i}
           takes(i) == i \in new /\ alone(i) /\ Cardinality(was(i)) = 1
           from(i) == CHOOSE j \in was(i) : TRUE
           u == [i \in DOMAIN next |->
                   IF takes(i) THEN [next[i] EXCEPT !.id = previous[from(i)].id] ELSE next[i]]
<1>1. StabilizeBy(previous, next, had, has) = u
  BY DEF StabilizeBy
<1>2. ASSUME NEW i \in DOMAIN next, takes(i)
      PROVE  from(i) \in DOMAIN previous /\ previous[from(i)].id \notin Ids(next) /\ had[from(i)] = has[i]
  <2>1. was(i) # {}
    <3>1. Cardinality(was(i)) = 1
      BY <1>2
    <3> HIDE DEF was
    <3> QED
      BY <3>1, OneIsSome
  <2>2. from(i) \in was(i)
    <3> HIDE DEF was
    <3> QED
      BY <2>1
  <2> HIDE DEF from
  <2> QED
    BY <2>2
<1>3. ASSUME NEW i \in DOMAIN next, NEW j \in DOMAIN next, takes(i), takes(j), has[i] = has[j]
      PROVE  i = j
  BY <1>3
<1> HIDE DEF takes, from
<1>4. /\ DOMAIN next = 1..Len(next) /\ Len(next) \in Nat
      /\ \A i \in DOMAIN next : next[i] \in S
      /\ \A i \in DOMAIN previous : previous[i] \in S
  OBVIOUS
<1>5. ASSUME NEW i \in DOMAIN next
      PROVE  /\ u[i] \in S
             /\ u[i].id = IF takes(i) THEN previous[from(i)].id ELSE next[i].id
  BY <1>2, <1>4 DEF Renamable
<1>6. DOMAIN u = DOMAIN next
  OBVIOUS
<1> HIDE DEF u
<1>7. ASSUME NEW i \in DOMAIN next, NEW j \in DOMAIN next, u[i].id = u[j].id PROVE i = j
  <2>1. CASE takes(i) /\ takes(j)
    <3>1. from(i) = from(j)
      BY <1>2, <1>5, <1>7, <2>1 DEF EachIdOnce
    <3> QED
      BY <1>2, <1>3, <2>1, <3>1
  <2>2. CASE ~takes(i) /\ ~takes(j)
    BY <1>5, <1>7, <2>2 DEF EachIdOnce
  <2>3. ASSUME NEW k \in DOMAIN next, NEW l \in DOMAIN next, takes(k), ~takes(l) PROVE u[k].id # u[l].id
    BY <1>2, <1>5, <2>3 DEF Ids
  <2> QED
    BY <1>7, <2>1, <2>2, <2>3
<1>8. EachIdOnce(u)
  BY <1>6, <1>7 DEF EachIdOnce
<1>9. u \in Seq(S)
  <2>1. u = [i \in 1..Len(next) |-> u[i]]
    BY <1>4, <1>6 DEF u
  <2> QED
    BY <1>4, <1>5, <2>1
<1> QED
  BY <1>1, <1>8, <1>9

LEMMA OthersSound ==
    ASSUME NEW S, NEW page \in Seq(S), NEW existing \in Seq(S), EachIdOnce(page)
    PROVE  /\ Others(page, existing) \in Seq(S) /\ EachIdOnce(Others(page, existing))
           /\ Ids(Others(page, existing)) \cap Ids(existing) = {}
<1> DEFINE keep == {i \in DOMAIN page : page[i].id \notin Ids(existing)}
<1>1. keep \in SUBSET DOMAIN page /\ \A i \in keep : page[i].id \notin Ids(existing)
  OBVIOUS
<1>2. Others(page, existing) = Pick(page, keep)
  BY DEF Others
<1> HIDE DEF keep
<1>3. /\ Pick(page, keep) \in Seq(S) /\ EachIdOnce(Pick(page, keep))
      /\ Ids(Pick(page, keep)) \subseteq {page[i].id : i \in keep}
  BY <1>1, PickSound
<1> QED
  BY <1>1, <1>2, <1>3

LEMMA PrependOlderSound ==
    ASSUME NEW S, NEW existing \in Seq(S), NEW page \in Seq(S), EachIdOnce(existing), EachIdOnce(page)
    PROVE  /\ PrependOlder(existing, page) \in Seq(S) /\ EachIdOnce(PrependOlder(existing, page))
           /\ \E front \in 0..Len(PrependOlder(existing, page)) : \A i \in DOMAIN existing :
                /\ i + front \in DOMAIN PrependOlder(existing, page)
                /\ PrependOlder(existing, page)[i + front] = existing[i]
<1> DEFINE o == Others(page, existing)
           u == o \o existing
<1>1. o \in Seq(S) /\ EachIdOnce(o) /\ Ids(o) \cap Ids(existing) = {}
  BY OthersSound
<1> HIDE DEF o
<1>2. u \in Seq(S) /\ EachIdOnce(u)
  BY <1>1, ConcatSound
<1>3. Len(u) = Len(o) + Len(existing) /\ Len(o) \in Nat /\ Len(existing) \in Nat
  BY <1>1
<1>4. \A i \in DOMAIN existing : i + Len(o) \in DOMAIN u /\ u[i + Len(o)] = existing[i]
  <2>1. \A k \in 1..(Len(o) + Len(existing)) : u[k] = IF k <= Len(o) THEN o[k] ELSE existing[k - Len(o)]
    BY <1>1, ConcatProperties
  <2>2. DOMAIN u = 1..(Len(o) + Len(existing)) /\ DOMAIN existing = 1..Len(existing)
    BY <1>1, <1>2, <1>3
  <2> HIDE DEF u
  <2> QED
    BY <1>3, <2>1, <2>2
<1>5. PrependOlder(existing, page) = u
  BY DEF PrependOlder, o
<1> HIDE DEF u
<1>6. Len(o) \in 0..Len(u)
  BY <1>3
<1>7. \E front \in 0..Len(u) : \A i \in DOMAIN existing :
        i + front \in DOMAIN u /\ u[i + front] = existing[i]
  BY <1>4, <1>6
<1> QED
  BY <1>2, <1>5, <1>7

(* A message of the feed keeps its place and its id when a newest page is  *)
(* merged into it, and a reply of one turn does not get shorter: what is   *)
(* shown of one reply has one text.                                        *)
Grew(is, was) ==
    /\ is.id = was.id
    /\ (was.role = "assistant" /\ is.role = "assistant"
        /\ is.turn = was.turn /\ is.from = was.from) => was.n <= is.n

OneTextEach(S) == \A m, l \in S : m.turn = l.turn /\ m.n > 0 /\ l.n > 0 => m.text = l.text

LEMMA MergeLatestSound ==
    ASSUME NEW S, \A m \in S : m.n \in Nat, OneTextEach(S),
           NEW existing \in Seq(S), NEW latest \in Seq(S), EachIdOnce(existing), EachIdOnce(latest)
    PROVE  /\ MergeLatest(existing, latest) \in Seq(S) /\ EachIdOnce(MergeLatest(existing, latest))
           /\ \A i \in DOMAIN existing : /\ i \in DOMAIN MergeLatest(existing, latest)
                                         /\ Grew(MergeLatest(existing, latest)[i], existing[i])
<1> DEFINE incoming(m) == latest[CHOOSE i \in DOMAIN latest : latest[i].id = m.id]
           kept(m) == m.id \notin Ids(latest) \/ Regresses(m, incoming(m))
           known == [i \in DOMAIN existing |->
                       IF kept(existing[i]) THEN existing[i] ELSE incoming(existing[i])]
           o == Others(latest, existing)
<1>1. MergeLatest(existing, latest) = known \o o
  BY DEF MergeLatest
<1>2. /\ DOMAIN existing = 1..Len(existing) /\ Len(existing) \in Nat
      /\ \A i \in DOMAIN existing : existing[i] \in S
      /\ \A i \in DOMAIN latest : latest[i] \in S
  OBVIOUS
<1>3. ASSUME NEW m \in S, m.id \in Ids(latest) PROVE incoming(m) \in S /\ incoming(m).id = m.id
  <2>1. \E i \in DOMAIN latest : latest[i].id = m.id
    BY <1>3 DEF Ids
  <2> QED
    BY <1>2, <2>1
<1> HIDE DEF incoming
<1>4. ASSUME NEW i \in DOMAIN existing PROVE known[i] \in S /\ Grew(known[i], existing[i])
  <2>1. CASE kept(existing[i])
    BY <1>2, <2>1 DEF Grew
  <2>2. CASE ~kept(existing[i])
    <3>1. known[i] = incoming(existing[i]) /\ existing[i] \in S
      BY <1>2, <2>2
    <3>2. existing[i].id \in Ids(latest) /\ ~Regresses(existing[i], incoming(existing[i]))
      BY <2>2
    <3>3. incoming(existing[i]) \in S /\ incoming(existing[i]).id = existing[i].id
      BY <1>3, <3>1, <3>2
    <3> HIDE DEF known
    <3>4. \A m, l \in S : m.id = l.id /\ ~Regresses(m, l) => Grew(l, m)
      BY DEF OneTextEach, Grew, Regresses
    <3> QED
      BY <3>1, <3>2, <3>3, <3>4
  <2> QED
    BY <2>1, <2>2
<1>5. DOMAIN known = DOMAIN existing /\ known = [i \in 1..Len(existing) |-> known[i]]
  BY <1>2
<1> HIDE DEF known
<1>6. known \in Seq(S) /\ Len(known) = Len(existing)
  BY <1>2, <1>4, <1>5
<1>7. EachIdOnce(known) /\ Ids(known) = Ids(existing)
  <2>1. \A i \in DOMAIN existing : known[i].id = existing[i].id
    BY <1>4 DEF Grew
  <2>2. EachIdOnce(known)
    BY <1>5, <2>1 DEF EachIdOnce
  <2>3. {known[i].id : i \in DOMAIN existing} = {existing[i].id : i \in DOMAIN existing}
    BY <2>1
  <2> QED
    BY <1>5, <2>2, <2>3 DEF Ids
<1>8. o \in Seq(S) /\ EachIdOnce(o) /\ Ids(o) \cap Ids(existing) = {}
  BY OthersSound
<1> HIDE DEF o
<1>9. known \o o \in Seq(S) /\ EachIdOnce(known \o o)
  BY <1>6, <1>7, <1>8, ConcatSound
<1>10. \A i \in DOMAIN existing : i \in DOMAIN (known \o o) /\ (known \o o)[i] = known[i]
  BY <1>2, <1>6, <1>8
<1> QED
  BY <1>1, <1>4, <1>9, <1>10

-----------------------------------------------------------------------------
(* The invariant of the bridge: whatever a list holds was said, and no     *)
(* list has an id twice.  A journal numbers its messages, what is not      *)
(* flushed goes on from there; the ids the bridge holds, in memory and in  *)
(* the snapshot it restarts from, are of the turns there were, of the      *)
(* journal or of a replay there was, so the next of each kind is new.      *)
Roles == {"user", "assistant"}
MessageIds == ({"live"} \X Nat \X (Roles \cup {"late"}))
              \cup ({"journal"} \X Nat) \cup ({"replay"} \X Nat \X Nat)
Messages == [id : MessageIds, role : Roles, turn : Nat, text : Texts \cup Answers \cup {NoText},
             from : Nat, n : Nat, failed : {"no", "live", "journal"}]
Sayings == {m \in Messages : Said(m)}

(* What comes late is the end of a whole reply. *)
Turns == {turn \in [text : Texts, says : Answers, n : 0..Chunks, held : 0..Chunks,
                    end : {"running", "done", "late", "failed", "torn", "lost"}] :
            turn.held > 0 => turn.n = Chunks}
TurnTypes == turns \in Seq(Turns)

(* Ids of the stream: of the prompt and the reply of every turn, and of    *)
(* what came late of those of which nothing can come any more.             *)
Over(turn) == turn.held = 0 /\ turn.end # "running"
LiveIds(s) ==
    {Live(t, role) : t \in 1..Len(s), role \in Roles}
    \cup {Live(t, "late") : t \in {u \in 1..Len(s) : Over(s[u])}}

KnownIds(live, written, replays) ==
    live
    \cup {Journalled(k) : k \in 1..written}
    \cup {<<"replay", l, k>> : l \in 0..(replays - 1), k \in Nat}

JournalInv ==
    /\ journal \in Seq(Sayings) /\ backlog \in Seq(Sayings)
    /\ \A k \in DOMAIN journal : journal[k].id = Journalled(k)
    /\ \A k \in DOMAIN backlog : backlog[k].id = Journalled(Len(journal) + k)

MemInv ==
    /\ mem \in Seq(Sayings) /\ EachIdOnce(mem)
    /\ loads \in Nat /\ Ids(mem) \subseteq KnownIds(LiveIds(turns), Len(journal), loads)

SnapshotInv ==
    /\ snapshot \in Seq(Sayings) /\ EachIdOnce(snapshot)
    /\ Ids(snapshot) \subseteq KnownIds(LiveIds(turns), Len(journal), loads)

BridgeInv == TurnTypes /\ JournalInv /\ MemInv /\ SnapshotInv

LEMMA SayingsAre ==
    \A m \in Sayings :
        /\ At(m) \in Nat /\ m.n \in Nat /\ m.turn \in Nat /\ m.id \in MessageIds /\ m \in Messages
        /\ Said(m)
        /\ \A l \in Sayings : m.turn = l.turn /\ m.n > 0 /\ l.n > 0 => m.text = l.text
<1> SUFFICES ASSUME NEW m \in Sayings
    PROVE  /\ At(m) \in Nat /\ m.n \in Nat /\ m.turn \in Nat /\ m.id \in MessageIds /\ m \in Messages
           /\ Said(m)
           /\ \A l \in Sayings : m.turn = l.turn /\ m.n > 0 /\ l.n > 0 => m.text = l.text
  OBVIOUS
<1>1. m \in Messages /\ Said(m)
  BY DEF Sayings
<1>2. m.n \in Nat /\ m.turn \in Nat /\ m.id \in MessageIds
  BY <1>1 DEF Messages
<1>3. At(m) \in Nat
  BY <1>2 DEF At
<1>4. \A l \in Sayings : Said(l)
  BY DEF Sayings
<1>5. \A l \in Sayings : m.turn = l.turn /\ m.n > 0 /\ l.n > 0 => m.text = l.text
  BY <1>1, <1>4 DEF Said
<1> QED
  BY <1>1, <1>2, <1>3, <1>5

LEMMA SayingsRename ==
    ASSUME NEW m \in Sayings, NEW id \in MessageIds
    PROVE  [m EXCEPT !.id = id] \in Sayings /\ [m EXCEPT !.id = id].id = id
BY DEF Sayings, Messages, Said

LEMMA IdsDiffer ==
    /\ \A t, u, role, other : Live(t, role) = Live(u, other) <=> t = u /\ role = other
    /\ \A k, l : Journalled(k) = Journalled(l) <=> k = l
    /\ \A l, k, x, y : <<"replay", l, k>> = <<"replay", x, y>> <=> l = x /\ k = y
    /\ \A t, role, k, l : /\ Live(t, role) # Journalled(k) /\ Live(t, role) # <<"replay", l, k>>
                          /\ Journalled(t) # <<"replay", l, k>>
BY DEF Live, Journalled

LEMMA JournalSound ==
    ASSUME JournalInv
    PROVE  /\ EachIdOnce(journal) /\ Ids(journal) \subseteq KnownIds(LiveIds(turns), Len(journal), loads)
           /\ Ids(journal) = {Journalled(k) : k \in 1..Len(journal)}
<1>1. DOMAIN journal = 1..Len(journal)
  BY DEF JournalInv
<1>2. EachIdOnce(journal)
  BY IdsDiffer DEF JournalInv, EachIdOnce
<1>3. Ids(journal) = {Journalled(k) : k \in 1..Len(journal)}
  BY <1>1 DEF JournalInv, Ids
<1> QED
  BY <1>2, <1>3 DEF KnownIds

LEMMA ReplayedSound ==
    ASSUME BridgeInv
    PROVE  /\ Replayed \in Seq(Sayings) /\ EachIdOnce(Replayed)
           /\ Ids(Replayed) \cap (Ids(mem) \cup Ids(journal)) = {}
           /\ Ids(Replayed) \subseteq KnownIds(LiveIds(turns), Len(journal), loads + 1)
<1>1. loads \in Nat /\ DOMAIN journal = 1..Len(journal) /\ Len(journal) \in Nat
  BY DEF BridgeInv, MemInv, JournalInv
<1>2. ASSUME NEW k \in DOMAIN journal
      PROVE  Replayed[k] \in Sayings /\ Replayed[k].id = <<"replay", loads, k>>
  <2>1. journal[k] \in Sayings
    BY DEF BridgeInv, JournalInv
  <2>2. <<"replay", loads, k>> \in MessageIds
    BY <1>1 DEF MessageIds
  <2>3. Replayed[k] = [journal[k] EXCEPT !.id = <<"replay", loads, k>>]
    BY DEF Replayed
  <2> QED
    BY <2>1, <2>2, <2>3, SayingsRename
<1>3. Replayed = [k \in 1..Len(journal) |-> Replayed[k]] /\ DOMAIN Replayed = DOMAIN journal
  BY <1>1 DEF Replayed
<1>4. Replayed \in Seq(Sayings)
  BY <1>1, <1>2, <1>3
<1>5. EachIdOnce(Replayed)
  <2>1. ASSUME NEW k \in DOMAIN journal, NEW l \in DOMAIN journal, Replayed[k].id = Replayed[l].id
        PROVE  k = l
    <3>1. <<"replay", loads, k>> = <<"replay", loads, l>>
      BY <1>2, <2>1
    <3> QED
      BY <3>1
  <2> QED
    BY <1>3, <2>1 DEF EachIdOnce
<1>6. \A id \in Ids(Replayed) : \E k \in 1..Len(journal) : id = <<"replay", loads, k>>
  BY <1>1, <1>2, <1>3 DEF Ids
<1>7. Ids(Replayed) \subseteq KnownIds(LiveIds(turns), Len(journal), loads + 1)
  BY <1>1, <1>6 DEF KnownIds
<1>8. \A k \in 1..Len(journal) : <<"replay", loads, k>> \notin KnownIds(LiveIds(turns), Len(journal), loads)
  <2>1. \A k \in 1..Len(journal) : <<"replay", loads, k>> \notin LiveIds(turns)
    BY IdsDiffer DEF LiveIds
  <2> QED
    BY <1>1, <2>1, IdsDiffer DEF KnownIds
<1>9. Ids(mem) \cup Ids(journal) \subseteq KnownIds(LiveIds(turns), Len(journal), loads)
  BY JournalSound DEF BridgeInv, MemInv
<1> QED
  BY <1>4, <1>5, <1>6, <1>7, <1>8, <1>9

LEMMA KnownGrows ==
    ASSUME NEW live, NEW more, NEW k \in Nat, NEW l \in Nat, NEW longer \in Nat, NEW later \in Nat,
           live \subseteq more, k <= longer, l <= later
    PROVE  KnownIds(live, k, l) \subseteq KnownIds(more, longer, later)
<1>1. 1..k \subseteq 1..longer /\ 0..(l - 1) \subseteq 0..(later - 1)
  OBVIOUS
<1> QED
  BY <1>1 DEF KnownIds

(* What a load or a read leaves the bridge with. *)
LEMMA LoadedSound ==
    ASSUME BridgeInv
    PROVE  /\ LoadedMessages \in Seq(Sayings) /\ EachIdOnce(LoadedMessages)
           /\ Ids(LoadedMessages) \subseteq KnownIds(LiveIds(turns), Len(journal), loads + 1)
           /\ harness = "omp" => Ids(LoadedMessages) \subseteq KnownIds(LiveIds(turns), Len(journal), loads)
<1>1. /\ journal \in Seq(Sayings) /\ EachIdOnce(journal) /\ Ids(journal) \subseteq KnownIds(LiveIds(turns), Len(journal), loads)
      /\ mem \in Seq(Sayings) /\ EachIdOnce(mem) /\ Ids(mem) \subseteq KnownIds(LiveIds(turns), Len(journal), loads)
      /\ KnownIds(LiveIds(turns), Len(journal), loads) \subseteq KnownIds(LiveIds(turns), Len(journal), loads + 1)
  <2>1. Len(turns) \in Nat /\ Len(journal) \in Nat /\ loads \in Nat
    BY DEF BridgeInv, TurnTypes, JournalInv, MemInv
  <2>2. loads + 1 \in Nat /\ loads <= loads + 1
    BY <2>1
  <2>3. KnownIds(LiveIds(turns), Len(journal), loads) \subseteq KnownIds(LiveIds(turns), Len(journal), loads + 1)
    BY <2>1, <2>2, KnownGrows
  <2> QED
    BY <2>3, JournalSound DEF BridgeInv, JournalInv, MemInv
<1>2. CASE harness = "omp"
  BY <1>1, <1>2 DEF LoadedMessages
<1>3. CASE harness = "claude"
  <2>1. LoadedMessages = MergeReplay(mem, Replayed)
    BY <1>3 DEF LoadedMessages
  <2>2. Ids(mem) \cap Ids(Replayed) = {}
    BY ReplayedSound
  <2> QED
    BY <1>1, <1>3, <2>1, <2>2, ReplayedSound, MergeReplaySound
<1>4. CASE harness # "omp" /\ harness # "claude"
  <2> DEFINE merged == MergeExternalHistory(journal, mem)
  <2>1. LoadedMessages = MergeReplay(merged, Replayed)
    BY <1>4 DEF LoadedMessages
  <2>2. /\ merged \in Seq(Sayings) /\ EachIdOnce(merged)
        /\ Ids(merged) \subseteq Ids(journal) \cup Ids(mem)
    BY <1>1, SayingsAre, MergeExternalHistorySound
  <2> HIDE DEF merged
  <2>3. Ids(merged) \cap Ids(Replayed) = {}
    BY <2>2, ReplayedSound
  <2> QED
    BY <1>1, <1>4, <2>1, <2>2, <2>3, ReplayedSound, MergeReplaySound
<1> QED
  BY <1>2, <1>3, <1>4

LEMMA PiMessagesSound ==
    ASSUME BridgeInv, NEW superseded
    PROVE  /\ PiMessages(superseded) \in Seq(Sayings) /\ EachIdOnce(PiMessages(superseded))
           /\ Ids(PiMessages(superseded)) \subseteq KnownIds(LiveIds(turns), Len(journal), loads)
<1> DEFINE cached == Pick(mem, {i \in DOMAIN mem : mem[i].id \notin superseded})
           ofFailures == FailedTurnMessages(cached, transient \ superseded)
<1>1. /\ journal \in Seq(Sayings) /\ EachIdOnce(journal)
      /\ Ids(journal) \subseteq KnownIds(LiveIds(turns), Len(journal), loads)
      /\ mem \in Seq(Sayings) /\ EachIdOnce(mem)
      /\ Ids(mem) \subseteq KnownIds(LiveIds(turns), Len(journal), loads)
  BY JournalSound DEF BridgeInv, JournalInv, MemInv
<1>2. cached \in Seq(Sayings) /\ EachIdOnce(cached) /\ Ids(cached) \subseteq Ids(mem)
  BY <1>1, PickSound
<1>3. PiMessages(superseded) \in {MergeExternalHistory(journal, cached),
                                  MergeExternalHistory(journal, ofFailures), journal}
  BY DEF PiMessages
<1> HIDE DEF cached
<1>4. ofFailures \in Seq(Sayings) /\ EachIdOnce(ofFailures) /\ Ids(ofFailures) \subseteq Ids(cached)
  BY <1>2, PickSound DEF FailedTurnMessages
<1> HIDE DEF ofFailures
<1>5. /\ MergeExternalHistory(journal, cached) \in Seq(Sayings)
      /\ EachIdOnce(MergeExternalHistory(journal, cached))
      /\ Ids(MergeExternalHistory(journal, cached)) \subseteq Ids(journal) \cup Ids(cached)
  BY <1>1, <1>2, SayingsAre, MergeExternalHistorySound
<1>6. /\ MergeExternalHistory(journal, ofFailures) \in Seq(Sayings)
      /\ EachIdOnce(MergeExternalHistory(journal, ofFailures))
      /\ Ids(MergeExternalHistory(journal, ofFailures)) \subseteq Ids(journal) \cup Ids(ofFailures)
  BY <1>1, <1>4, SayingsAre, MergeExternalHistorySound
<1> QED
  BY <1>1, <1>2, <1>3, <1>4, <1>5, <1>6

LEMMA RefreshedSound ==
    ASSUME BridgeInv
    PROVE  /\ Refreshed.mem \in Seq(Sayings) /\ EachIdOnce(Refreshed.mem)
           /\ Refreshed.loads \in Nat /\ loads <= Refreshed.loads
           /\ Ids(Refreshed.mem) \subseteq KnownIds(LiveIds(turns), Len(journal), Refreshed.loads)
<1>1. /\ journal \in Seq(Sayings) /\ EachIdOnce(journal)
      /\ Ids(journal) \subseteq KnownIds(LiveIds(turns), Len(journal), loads)
      /\ mem \in Seq(Sayings) /\ EachIdOnce(mem) /\ loads \in Nat
      /\ Ids(mem) \subseteq KnownIds(LiveIds(turns), Len(journal), loads)
  BY JournalSound DEF BridgeInv, JournalInv, MemInv
<1>2. CASE harness = "pi"
  <2> DEFINE superseded == {id \in transient : PersistedFailure(id)}
  <2>1. Refreshed.mem = PiMessages(superseded) /\ Refreshed.loads = loads
    BY <1>2 DEF Refreshed
  <2> HIDE DEF superseded
  <2> QED
    BY <1>1, <2>1, PiMessagesSound
<1>3. CASE harness # "pi" /\ owned
  <2>1. Refreshed.mem = mem /\ Refreshed.loads = loads
    BY <1>3 DEF Refreshed
  <2> QED
    BY <1>1, <2>1
<1>4. CASE harness = "claude" /\ ~owned
  <2>1. Refreshed.mem = LoadedMessages /\ Refreshed.loads = loads + 1
    BY <1>4 DEF Refreshed
  <2> QED
    BY <1>1, <2>1, LoadedSound
<1>5. CASE harness = "omp" /\ ~owned
  <2>1. Refreshed.mem = journal /\ Refreshed.loads = loads
    BY <1>5 DEF Refreshed
  <2> QED
    BY <1>1, <2>1
<1>6. CASE harness \notin {"pi", "claude", "omp"} /\ ~owned
  <2>1. Refreshed.mem = MergeExternalHistory(journal, mem) /\ Refreshed.loads = loads
    BY <1>6 DEF Refreshed
  <2>2. /\ MergeExternalHistory(journal, mem) \in Seq(Sayings)
        /\ EachIdOnce(MergeExternalHistory(journal, mem))
        /\ Ids(MergeExternalHistory(journal, mem)) \subseteq Ids(journal) \cup Ids(mem)
    BY <1>1, SayingsAre, MergeExternalHistorySound
  <2> QED
    BY <1>1, <2>1, <2>2
<1> QED
  BY <1>2, <1>3, <1>4, <1>5, <1>6

-----------------------------------------------------------------------------
(* What the bridge and the harness do. *)

(* What was said stays said. *)
Broken == {"failed", "torn", "lost"}
TurnsKept ==
    /\ Len(turns) <= Len(turns')
    /\ \A t \in 1..Len(turns) :
         /\ turns'[t].text = turns[t].text /\ turns'[t].says = turns[t].says /\ turns[t].n <= turns'[t].n
         /\ turns[t].end \in Broken => turns'[t].end \in Broken
         /\ Over(turns[t]) => Over(turns'[t])

Onward == TurnsKept /\ Len(journal) <= Len(journal')

LEMMA SayingsKept ==
    ASSUME TurnTypes, TurnTypes', TurnsKept
    PROVE  Sayings \subseteq Sayings' /\ Seq(Sayings) \subseteq Seq(Sayings')
<1>1. DOMAIN turns = 1..Len(turns) /\ Len(turns) \in Nat
      /\ DOMAIN turns' = 1..Len(turns') /\ Len(turns') \in Nat
  BY DEF TurnTypes
<1>2. \A t \in 1..Len(turns) : t \in 1..Len(turns') /\ turns[t].n \in Nat /\ turns'[t].n \in Nat
  <2>1. \A t \in 1..Len(turns) : t \in 1..Len(turns')
    BY <1>1 DEF TurnsKept
  <2>2. \A t \in 1..Len(turns) : turns[t] \in Turns
    BY DEF TurnTypes
  <2>3. \A t \in 1..Len(turns') : turns'[t] \in Turns
    BY DEF TurnTypes
  <2>4. \A turn \in Turns : turn.n \in Nat
    BY DEF Turns
  <2> QED
    BY <2>1, <2>2, <2>3, <2>4
<1>3. ASSUME NEW m \in Messages, Said(m) PROVE Said(m)'
  <2>1. m.turn \in 1..Len(turns) /\ m.n \in Nat /\ m.from \in Nat
    <3>1. m.n \in Nat /\ m.from \in Nat
      BY <1>3 DEF Messages
    <3> QED
      BY <1>1, <1>3, <3>1 DEF Said
  <2>2. m.role = "user" => m.text = turns'[m.turn].text
    BY <1>3, <2>1 DEF Said, TurnsKept
  <2>3. m.role = "assistant" => m.from + m.n <= turns'[m.turn].n
    <3>1. m.role = "assistant" => m.from + m.n <= turns[m.turn].n
      BY <1>3 DEF Said
    <3>2. turns[m.turn].n <= turns'[m.turn].n
      BY <2>1 DEF TurnsKept
    <3>3. turns[m.turn].n \in Nat /\ turns'[m.turn].n \in Nat
      BY <1>2, <2>1
    <3>4. \A a, b, c, d \in Nat : a + b <= c /\ c <= d => a + b <= d
      OBVIOUS
    <3> QED
      BY <2>1, <3>1, <3>2, <3>3, <3>4
  <2>4. m.failed # "no" => turns'[m.turn].end \in Broken
    BY <1>3, <2>1 DEF Said, TurnsKept, Broken
  <2>5. m.n > 0 => m.text = turns'[m.turn].says
    BY <1>3, <2>1 DEF Said, TurnsKept
  <2> QED
    BY <1>1, <1>2, <2>1, <2>2, <2>3, <2>4, <2>5 DEF Said, Broken
<1>4. Sayings \subseteq Sayings'
  BY <1>3 DEF Sayings
<1> QED
  BY <1>4

(* A list of the bridge's in a later state. *)
LEMMA ListKept ==
    ASSUME TurnTypes, TurnTypes', Onward, NEW s \in Seq(Sayings)
    PROVE  s \in Seq(Sayings')
BY SayingsKept DEF Onward

LEMMA IdsKept ==
    ASSUME BridgeInv, TurnTypes', JournalInv', Onward, loads' \in Nat, loads <= loads'
    PROVE  KnownIds(LiveIds(turns), Len(journal), loads) \subseteq KnownIds(LiveIds(turns'), Len(journal'), loads')
<1>1. /\ Len(turns) \in Nat /\ Len(turns') \in Nat /\ Len(turns) <= Len(turns')
      /\ Len(journal) \in Nat /\ Len(journal') \in Nat /\ Len(journal) <= Len(journal')
      /\ loads \in Nat
  BY DEF BridgeInv, TurnTypes, JournalInv, MemInv, Onward, TurnsKept
<1>2. /\ 1..Len(turns) \subseteq 1..Len(turns')
      /\ \A t \in 1..Len(turns) : Over(turns[t]) => Over(turns'[t])
  <2>1. 1..Len(turns) \subseteq 1..Len(turns')
    BY <1>1
  <2>2. \A t \in 1..Len(turns) : Over(turns[t]) => Over(turns'[t])
    BY Zenon DEF Onward, TurnsKept
  <2> QED
    BY <2>1, <2>2
<1>3. LiveIds(turns) \subseteq LiveIds(turns')
  BY <1>2 DEF LiveIds
<1> QED
  BY <1>1, <1>3, KnownGrows

(* The snapshot is left alone while turns, journal and loads go on. *)
LEMMA SnapshotStays ==
    ASSUME BridgeInv, TurnTypes', JournalInv', Onward, loads' \in Nat, loads <= loads', snapshot' = snapshot
    PROVE  SnapshotInv'
<1>1. snapshot' \in Seq(Sayings') /\ EachIdOnce(snapshot')
  BY SayingsKept DEF BridgeInv, SnapshotInv, Onward
<1>2. Ids(snapshot') \subseteq KnownIds(LiveIds(turns'), Len(journal'), loads')
  BY IdsKept DEF BridgeInv, SnapshotInv
<1> QED
  BY <1>1, <1>2 DEF SnapshotInv

LEMMA SaySound ==
    ASSUME NEW S, mem \in Seq(S), EachIdOnce(mem), NEW n, NEW failed,
           Reply(Live(Len(turns), "assistant"), Len(turns), turns[Len(turns)].says, n, failed) \in S,
           Say(n, failed)
    PROVE  /\ mem' \in Seq(S) /\ EachIdOnce(mem')
           /\ Ids(mem') \subseteq Ids(mem) \cup {Live(Len(turns), "assistant")}
<1> DEFINE id == Live(Len(turns), "assistant")
           r == Reply(id, Len(turns), turns[Len(turns)].says, n, failed)
           u == [i \in DOMAIN mem |-> IF mem[i].id = id THEN r ELSE mem[i]]
<1>1. r \in S /\ r.id = id
  <2> HIDE DEF id
  <2>1. r.id = id
    BY DEF Reply, Piece
  <2> QED
    BY <2>1 DEF id
<1>2. mem' = IF id \in Ids(mem) THEN u ELSE Append(mem, r)
  BY DEF Say, Last
<1> HIDE DEF r, id
<1>3. DOMAIN mem = 1..Len(mem) /\ Len(mem) \in Nat /\ \A i \in DOMAIN mem : mem[i] \in S
  OBVIOUS
<1>4. \A i \in DOMAIN mem : u[i] \in S /\ u[i].id = mem[i].id
  BY <1>1, <1>3
<1>5. u = [i \in 1..Len(mem) |-> u[i]] /\ DOMAIN u = DOMAIN mem
  BY <1>3
<1> HIDE DEF u
<1>6. u \in Seq(S)
  BY <1>3, <1>4, <1>5
<1>7. EachIdOnce(u)
  BY <1>4, <1>5 DEF EachIdOnce
<1>8. Ids(u) = Ids(mem)
  <2>1. {u[i].id : i \in DOMAIN mem} = {mem[i].id : i \in DOMAIN mem}
    BY <1>4
  <2> QED
    BY <1>5, <2>1 DEF Ids
<1>9. CASE id \in Ids(mem)
  BY <1>2, <1>6, <1>7, <1>8, <1>9
<1>10. CASE id \notin Ids(mem)
  <2>1. /\ Append(mem, r) \in Seq(S) /\ EachIdOnce(Append(mem, r))
        /\ Ids(Append(mem, r)) = Ids(mem) \cup {id}
    BY <1>1, <1>10, AppendSound
  <2> QED
    BY <1>2, <1>10, <2>1 DEF id
<1> QED
  BY <1>9, <1>10 DEF id

(* The harness writes what it held back, all of it or the first part. *)
LEMMA WrittenSound ==
    ASSUME NEW S, journal \in Seq(S), NEW records \in Seq(S),
           \A k \in DOMAIN journal : journal[k].id = Journalled(k),
           \A k \in DOMAIN records : records[k].id = Journalled(Len(journal) + k)
    PROVE  /\ journal \o records \in Seq(S) /\ Len(journal) <= Len(journal \o records)
           /\ \A k \in DOMAIN (journal \o records) : (journal \o records)[k].id = Journalled(k)
<1> DEFINE u == journal \o records
<1>1. u \in Seq(S) /\ Len(u) = Len(journal) + Len(records) /\ Len(journal) \in Nat /\ Len(records) \in Nat
  OBVIOUS
<1>2. \A k \in 1..(Len(journal) + Len(records)) :
        u[k] = IF k <= Len(journal) THEN journal[k] ELSE records[k - Len(journal)]
  BY ConcatProperties
<1>3. DOMAIN u = 1..(Len(journal) + Len(records))
  BY <1>1
<1> HIDE DEF u
<1>4. ASSUME NEW k \in DOMAIN u PROVE u[k].id = Journalled(k)
  <2>1. CASE k <= Len(journal)
    BY <1>1, <1>2, <1>3, <2>1
  <2>2. CASE ~(k <= Len(journal))
    <3>1. k - Len(journal) \in DOMAIN records /\ Len(journal) + (k - Len(journal)) = k
      BY <1>1, <1>3, <2>2
    <3>2. u[k] = records[k - Len(journal)]
      BY <1>2, <1>3, <2>2
    <3> QED
      BY <3>1, <3>2
  <2> QED
    BY <2>1, <2>2
<1>5. Len(journal) <= Len(u)
  BY <1>1
<1> QED
  BY <1>1, <1>4, <1>5 DEF u

(* The facts about the lists that every action starts from. *)
LEMMA BridgeListsAre ==
    ASSUME BridgeInv
    PROVE  /\ journal \in Seq(Sayings) /\ backlog \in Seq(Sayings) /\ mem \in Seq(Sayings)
           /\ EachIdOnce(journal) /\ EachIdOnce(mem)
           /\ Len(turns) \in Nat /\ Len(journal) \in Nat /\ Len(backlog) \in Nat /\ loads \in Nat
           /\ DOMAIN turns = 1..Len(turns)
           /\ Ids(journal) \subseteq KnownIds(LiveIds(turns), Len(journal), loads)
           /\ Ids(mem) \subseteq KnownIds(LiveIds(turns), Len(journal), loads)
           /\ KnownIds(LiveIds(turns), Len(journal), loads) \subseteq KnownIds(LiveIds(turns), Len(journal), loads + 1)
<1>1. Len(turns) \in Nat /\ Len(journal) \in Nat /\ loads \in Nat /\ loads + 1 \in Nat /\ loads <= loads + 1
  BY DEF BridgeInv, TurnTypes, JournalInv, MemInv
<1>2. KnownIds(LiveIds(turns), Len(journal), loads) \subseteq KnownIds(LiveIds(turns), Len(journal), loads + 1)
  BY <1>1, KnownGrows
<1> QED
  BY <1>1, <1>2, JournalSound DEF BridgeInv, TurnTypes, JournalInv, MemInv

LEMMA TurnsAre ==
    ASSUME TurnTypes
    PROVE  /\ \A t \in 1..Len(turns) : turns[t] \in Turns
           /\ \A t \in 1..Len(turns) : turns[t].n \in Nat /\ turns[t].text \in Texts
                                     /\ turns[t].says \in Answers /\ turns[t].n <= Chunks
<1>1. \A t \in 1..Len(turns) : turns[t] \in Turns
  BY DEF TurnTypes
<1>2. \A turn \in Turns : turn.n \in Nat /\ turn.text \in Texts /\ turn.says \in Answers /\ turn.n <= Chunks
  BY ReadingAssumption DEF Turns
<1> QED
  BY <1>1, <1>2

(* A turn of which more has been said, or that has ended. *)
Rewritten(x, turn, n, held, end) ==
    x \in Turns /\ x.text = turn.text /\ x.says = turn.says /\ x.n = n /\ x.held = held /\ x.end = end

LEMMA TurnRewritten ==
    ASSUME NEW turn \in Turns, NEW n \in 0..Chunks, NEW held \in 0..Chunks, held > 0 => n = Chunks,
           NEW end \in {"running", "done", "late", "failed", "torn", "lost"}
    PROVE  Rewritten([turn EXCEPT !.n = n, !.held = held, !.end = end], turn, n, held, end)
<1> DEFINE x == [turn EXCEPT !.n = n, !.held = held, !.end = end]
<1>1. turn \in [text : Texts, says : Answers, n : 0..Chunks, held : 0..Chunks,
                end : {"running", "done", "late", "failed", "torn", "lost"}]
  BY DEF Turns
<1>2. turn.text \in Texts /\ turn.says \in Answers
  BY <1>1
<1>3. x = [text |-> turn.text, says |-> turn.says, n |-> n, held |-> held, end |-> end]
  <2>1. DOMAIN turn = {"text", "says", "n", "held", "end"} /\ turn = [f \in DOMAIN turn |-> turn[f]]
    BY <1>1
  <2>2. DOMAIN x = {"text", "says", "n", "held", "end"} /\ x = [f \in DOMAIN x |-> x[f]]
    BY <2>1
  <2>3. x.text = turn.text /\ x.says = turn.says /\ x.n = n /\ x.held = held /\ x.end = end
    BY <2>1
  <2> HIDE DEF x
  <2> QED
    BY <2>2, <2>3
<1> HIDE DEF x
<1>4. /\ x.text = turn.text /\ x.says = turn.says /\ x.n = n /\ x.held = held /\ x.end = end
      /\ x \in [text : Texts, says : Answers, n : 0..Chunks, held : 0..Chunks,
                end : {"running", "done", "late", "failed", "torn", "lost"}]
  BY <1>2, <1>3
<1>5. x \in Turns
  BY <1>4 DEF Turns
<1> QED
  BY <1>4, <1>5 DEF x, Rewritten

LEMMA SaidThen ==
    ASSUME TurnTypes', NEW m \in Messages, m.turn \in 1..Len(turns'),
           m.role = "user" => m.text = turns'[m.turn].text,
           m.role = "assistant" => m.from + m.n <= turns'[m.turn].n,
           m.n > 0 => m.text = turns'[m.turn].says,
           m.failed # "no" => turns'[m.turn].end \in Broken
    PROVE  m \in Sayings'
<1>1. DOMAIN turns' = 1..Len(turns')
  BY DEF TurnTypes
<1>2. Said(m)'
  BY <1>1 DEF Said, Broken
<1> QED
  BY <1>2 DEF Sayings

LEMMA RenamedThen ==
    ASSUME NEW m \in Sayings', NEW id \in MessageIds
    PROVE  [m EXCEPT !.id = id] \in Sayings' /\ [m EXCEPT !.id = id].id = id
BY DEF Sayings, Messages, Said

LEMMA LiveIdsAre ==
    ASSUME NEW t \in Nat
    PROVE  /\ Live(t, "user") \in MessageIds /\ Live(t, "assistant") \in MessageIds
           /\ Live(t, "late") \in MessageIds
BY DEF Live, MessageIds, Roles

LEMMA TurnIdsAre ==
    ASSUME NEW t \in Nat, NEW s, NEW written, NEW replays
    PROVE  /\ t \in 1..Len(s) => /\ Live(t, "user") \in KnownIds(LiveIds(s), written, replays)
                                /\ Live(t, "assistant") \in KnownIds(LiveIds(s), written, replays)
           /\ t \in 1..Len(s) /\ Over(s[t]) => Live(t, "late") \in KnownIds(LiveIds(s), written, replays)
           /\ ~(t \in 1..Len(s)) => Live(t, "user") \notin KnownIds(LiveIds(s), written, replays)
           /\ ~Over(s[t]) => Live(t, "late") \notin KnownIds(LiveIds(s), written, replays)
<1>1. /\ t \in 1..Len(s) => Live(t, "user") \in LiveIds(s) /\ Live(t, "assistant") \in LiveIds(s)
      /\ t \in 1..Len(s) /\ Over(s[t]) => Live(t, "late") \in LiveIds(s)
  BY DEF LiveIds, Roles
<1>2. \A role : Live(t, role) \in KnownIds(LiveIds(s), written, replays) => Live(t, role) \in LiveIds(s)
  BY IdsDiffer DEF KnownIds
<1>3. Live(t, "user") \in LiveIds(s) => t \in 1..Len(s)
  BY IdsDiffer DEF LiveIds
<1>4. Live(t, "late") \in LiveIds(s) => Over(s[t])
  BY IdsDiffer DEF LiveIds, Roles
<1> QED
  BY <1>1, <1>2, <1>3, <1>4 DEF KnownIds

LEMMA JournalIdsAre ==
    ASSUME NEW k \in Nat
    PROVE  Journalled(k) \in MessageIds
BY DEF Journalled, MessageIds

LEMMA InJournalSound ==
    ASSUME backlog \in Seq(Sayings'), Len(journal) \in Nat,
           \A k \in DOMAIN backlog : backlog[k].id = Journalled(Len(journal) + k),
           NEW m \in Sayings'
    PROVE  /\ InJournal(backlog, m) \in Seq(Sayings')
           /\ \A k \in DOMAIN InJournal(backlog, m) :
                InJournal(backlog, m)[k].id = Journalled(Len(journal) + k)
<1> DEFINE id == Journalled(Len(journal) + Len(backlog) + 1)
           new == [m EXCEPT !.id = id]
<1>1. InJournal(backlog, m) = Append(backlog, new)
  BY DEF InJournal
<1>2. id \in MessageIds
  BY JournalIdsAre
<1>3. new \in Sayings' /\ new.id = id
  BY <1>2, RenamedThen
<1> HIDE DEF new
<1>4. Append(backlog, new) \in Seq(Sayings')
  BY <1>3
<1>5. ASSUME NEW k \in DOMAIN Append(backlog, new)
      PROVE  Append(backlog, new)[k].id = Journalled(Len(journal) + k)
  <2>1. CASE k \in DOMAIN backlog
    BY <2>1
  <2>2. CASE k = Len(backlog) + 1
    <3>1. Append(backlog, new)[k] = new
      BY <2>2
    <3>2. Len(journal) + k = Len(journal) + Len(backlog) + 1
      BY <2>2
    <3> QED
      BY <1>3, <3>1, <3>2
  <2> QED
    BY <2>1, <2>2
<1> QED
  BY <1>1, <1>4, <1>5

LEMMA UserIs ==
    ASSUME NEW id \in MessageIds, NEW t \in Nat, NEW text \in Texts
    PROVE  /\ User(id, t, text) \in Messages /\ User(id, t, text).id = id
           /\ User(id, t, text).turn = t /\ User(id, t, text).text = text /\ User(id, t, text).n = 0
           /\ User(id, t, text).role = "user" /\ User(id, t, text).failed = "no"
BY DEF User, Messages, Roles

IsPiece(m, id, t, says, from, n, failed) ==
    /\ m \in Messages /\ m.id = id /\ m.turn = t /\ m.from = from /\ m.n = n
    /\ n > 0 => m.text = says
    /\ m.role = "assistant" /\ m.failed = failed

LEMMA PieceIs ==
    ASSUME NEW id \in MessageIds, NEW t \in Nat, NEW says \in Answers, NEW from \in Nat, NEW n \in Nat,
           NEW failed \in {"no", "live", "journal"}
    PROVE  IsPiece(Piece(id, t, says, from, n, failed), id, t, says, from, n, failed)
BY DEF Piece, IsPiece, Messages, Roles

LEMMA PromptKeeps ==
    ASSUME BridgeInv, NEW text \in Texts, NEW says \in Answers, Prompt(text, says)
    PROVE  BridgeInv' /\ Onward
<1> DEFINE t == Len(turns) + 1
           prompt == User(Live(t, "user"), t, text)
           turn == [text |-> text, says |-> says, n |-> 0, held |-> 0, end |-> "running"]
           held == IF owned THEN mem ELSE LoadedMessages
<1>1. /\ turns' = Append(turns, turn) /\ mem' = Append(held, prompt) /\ backlog' = InJournal(backlog, prompt)
      /\ loads' = IF owned \/ harness = "omp" THEN loads ELSE loads + 1
      /\ journal' = journal /\ snapshot' = snapshot
  BY DEF Prompt
<1>2. turn \in Turns
  BY ReadingAssumption DEF Turns
<1>3. turn.text = text
  OBVIOUS
<1> HIDE DEF turn
<1>4. TurnTypes' /\ Onward /\ t \in 1..Len(turns') /\ turns'[t].text = text /\ Len(turns') = t
  <2>1. TurnTypes'
    BY <1>1, <1>2 DEF BridgeInv, TurnTypes
  <2>2. Len(turns') = Len(turns) + 1 /\ \A u \in 1..Len(turns) : turns'[u] = turns[u]
    BY <1>1 DEF BridgeInv, TurnTypes
  <2>3. turns'[t] = turn
    BY <1>1 DEF BridgeInv, TurnTypes
  <2>4. \A u \in 1..Len(turns) : turns[u].n \in Nat
    BY TurnsAre DEF BridgeInv
  <2>5. TurnsKept
    <3>1. Len(turns) <= Len(turns')
      BY <2>2, BridgeListsAre
    <3> QED
      BY <2>2, <2>4, <3>1 DEF TurnsKept
  <2>6. Onward
    BY <1>1, <2>5, BridgeListsAre DEF Onward
  <2> QED
    BY <1>3, <2>1, <2>2, <2>3, <2>6, BridgeListsAre
<1>5. t \in Nat /\ Live(t, "user") \in MessageIds
  <2>1. t \in Nat
    BY BridgeListsAre
  <2> QED
    BY <2>1, LiveIdsAre
<1>6. /\ prompt \in Messages /\ prompt.id = Live(t, "user") /\ prompt.turn = t /\ prompt.text = text
      /\ prompt.role = "user" /\ prompt.failed = "no" /\ prompt.n = 0
  BY <1>5, UserIs
<1> HIDE DEF prompt
<1>7. prompt \in Sayings'
  BY <1>4, <1>6, SaidThen
<1>8. Sayings \subseteq Sayings' /\ Seq(Sayings) \subseteq Seq(Sayings')
  BY <1>4, SayingsKept DEF Onward, BridgeInv
<1>9. JournalInv'
  <2>1. /\ backlog \in Seq(Sayings') /\ journal \in Seq(Sayings') /\ Len(journal) \in Nat
        /\ \A k \in DOMAIN journal : journal[k].id = Journalled(k)
        /\ \A k \in DOMAIN backlog : backlog[k].id = Journalled(Len(journal) + k)
    BY <1>8, BridgeListsAre DEF JournalInv, BridgeInv
  <2>2. /\ backlog' \in Seq(Sayings')
        /\ \A k \in DOMAIN backlog' : backlog'[k].id = Journalled(Len(journal) + k)
    BY <1>1, <1>7, <2>1, InJournalSound
  <2> QED
    BY <1>1, <2>1, <2>2 DEF JournalInv
<1>10. MemInv' /\ SnapshotInv'
  <2>1. /\ held \in Seq(Sayings) /\ EachIdOnce(held) /\ loads' \in Nat /\ loads <= loads'
        /\ Ids(held) \subseteq KnownIds(LiveIds(turns), Len(journal), loads')
    <3>1. CASE owned
      BY <1>1, <3>1, BridgeListsAre
    <3>2. CASE ~owned
      <4>1. held = LoadedMessages /\ loads' = IF harness = "omp" THEN loads ELSE loads + 1
        BY <1>1, <3>2
      <4> QED
        BY <4>1, BridgeListsAre, LoadedSound
    <3> QED
      BY <3>1, <3>2
  <2> HIDE DEF held
  <2>2. Live(t, "user") \notin Ids(held)
    <3>1. ~(t \in 1..Len(turns))
      BY BridgeListsAre
    <3>2. Live(t, "user") \notin KnownIds(LiveIds(turns), Len(journal), loads')
      BY <1>5, <3>1, TurnIdsAre
    <3> QED
      BY <2>1, <3>2
  <2>3. /\ mem' \in Seq(Sayings') /\ EachIdOnce(mem') /\ Ids(mem') = Ids(held) \cup {Live(t, "user")}
    BY <1>1, <1>6, <1>7, <1>8, <2>1, <2>2, AppendSound
  <2>4. KnownIds(LiveIds(turns), Len(journal), loads') \subseteq KnownIds(LiveIds(turns'), Len(journal), loads')
    <3>1. LiveIds(turns) \subseteq LiveIds(turns')
      <4>1. /\ 1..Len(turns) \subseteq 1..Len(turns')
            /\ \A u \in 1..Len(turns) : Over(turns[u]) => Over(turns'[u])
        BY <1>4, BridgeListsAre DEF Onward, TurnsKept
      <4> QED
        BY <4>1 DEF LiveIds
    <3>2. Len(journal) \in Nat /\ Len(journal) <= Len(journal) /\ loads' <= loads'
      BY <2>1, BridgeListsAre
    <3> QED
      BY <2>1, <3>1, <3>2, KnownGrows
  <2>5. Live(t, "user") \in KnownIds(LiveIds(turns'), Len(journal), loads')
    BY <1>4, <1>5, TurnIdsAre
  <2>6. MemInv'
    BY <1>1, <2>1, <2>3, <2>4, <2>5 DEF MemInv
  <2>7. SnapshotInv'
    BY <1>1, <1>4, <1>9, <2>1, SnapshotStays
  <2> QED
    BY <2>6, <2>7
<1> QED
  BY <1>4, <1>9, <1>10 DEF BridgeInv

(* The last turn changes while more of it may come: what it says grows, or *)
(* it ends.                                                                *)
TurnBecomes(x) == turns' = [turns EXCEPT ![Len(turns)] = x]

LEMMA TurnChanges ==
    ASSUME BridgeInv, turns # <<>>, ~Over(turns[Len(turns)]), NEW x \in Turns, TurnBecomes(x),
           x.text = turns[Len(turns)].text, x.says = turns[Len(turns)].says, turns[Len(turns)].n <= x.n,
           turns[Len(turns)].end \in Broken => x.end \in Broken
    PROVE  /\ TurnTypes' /\ TurnsKept /\ Len(turns') = Len(turns) /\ Len(turns) \in 1..Len(turns')
           /\ turns'[Len(turns)] = x
           /\ Sayings \subseteq Sayings' /\ Seq(Sayings) \subseteq Seq(Sayings')
<1>1. Len(turns) \in 1..Len(turns) /\ DOMAIN turns = 1..Len(turns)
  BY DEF BridgeInv, TurnTypes
<1>2. TurnTypes' /\ Len(turns') = Len(turns) /\ turns'[Len(turns)] = x
  BY <1>1 DEF BridgeInv, TurnTypes, TurnBecomes
<1>3. ASSUME NEW t \in 1..Len(turns), t # Len(turns) PROVE turns'[t] = turns[t]
  <2>1. t \in DOMAIN turns
    BY <1>1
  <2> QED
    BY <1>3, <2>1 DEF TurnBecomes
<1>4. TurnsKept
  <2>1. ASSUME NEW t \in 1..Len(turns)
        PROVE  /\ turns'[t].text = turns[t].text /\ turns'[t].says = turns[t].says
               /\ turns[t].n <= turns'[t].n
               /\ turns[t].end \in Broken => turns'[t].end \in Broken
               /\ Over(turns[t]) => Over(turns'[t])
    <3>1. CASE t = Len(turns)
      BY <1>1, <1>2, <3>1
    <3>2. CASE t # Len(turns)
      BY <1>3, <3>2, TurnsAre DEF BridgeInv
    <3> QED
      BY <3>1, <3>2
  <2>2. Len(turns) <= Len(turns')
    BY <1>2, BridgeListsAre
  <2> QED
    BY <2>1, <2>2 DEF TurnsKept
<1> QED
  BY <1>1, <1>2, <1>4, SayingsKept DEF BridgeInv

(* A message of the running turn is said, as far as the turn has got. *)
LEMMA SpokenSound ==
    ASSUME BridgeInv, TurnTypes', Len(turns') = Len(turns), Len(turns) \in 1..Len(turns'),
           turns'[Len(turns)].says = turns[Len(turns)].says,
           NEW id \in MessageIds, NEW from \in Nat, NEW n \in Nat, from + n <= turns'[Len(turns)].n,
           NEW failed \in {"no", "live", "journal"}, failed # "no" => turns'[Len(turns)].end \in Broken
    PROVE  /\ Piece(id, Len(turns), turns[Len(turns)].says, from, n, failed) \in Sayings'
           /\ Piece(id, Len(turns), turns[Len(turns)].says, from, n, failed).id = id
<1> DEFINE t == Len(turns)
           says == turns[Len(turns)].says
           m == Piece(id, t, says, from, n, failed)
<1>1. t \in Nat /\ says \in Answers
  BY BridgeListsAre, TurnsAre DEF BridgeInv
<1>2. t \in 1..Len(turns') /\ turns'[t].says = says /\ from + n <= turns'[t].n
      /\ (failed # "no" => turns'[t].end \in Broken)
  OBVIOUS
<1> HIDE DEF t, says
<1>3. /\ m \in Messages /\ m.id = id /\ m.turn = t /\ m.n = n /\ m.from = from
      /\ n > 0 => m.text = says
      /\ m.role = "assistant" /\ m.failed = failed
  <2>1. IsPiece(m, id, t, says, from, n, failed)
    BY <1>1, PieceIs
  <2> HIDE DEF m
  <2> QED
    BY <2>1 DEF IsPiece
<1> HIDE DEF m
<1>4. m \in Sayings'
  <2>1. m.n > 0 => m.text = turns'[m.turn].says
    BY <1>2, <1>3
  <2>2. m.turn \in 1..Len(turns') /\ m.from + m.n <= turns'[m.turn].n
    BY <1>2, <1>3
  <2>3. m.failed # "no" => turns'[m.turn].end \in Broken
    BY <1>2, <1>3
  <2> QED
    BY <1>3, <2>1, <2>2, <2>3, SaidThen
<1> QED
  BY <1>3, <1>4 DEF m, t, says

(* The reply of the running turn, in its own envelope. *)
LEMMA ReplySound ==
    ASSUME BridgeInv, TurnTypes', Len(turns') = Len(turns), Len(turns) \in 1..Len(turns'),
           turns'[Len(turns)].says = turns[Len(turns)].says,
           NEW n \in Nat, n <= turns'[Len(turns)].n,
           NEW failed \in {"no", "live", "journal"}, failed # "no" => turns'[Len(turns)].end \in Broken
    PROVE  Reply(Live(Len(turns), "assistant"), Len(turns), turns[Len(turns)].says, n, failed) \in Sayings'
<1>1. Live(Len(turns), "assistant") \in MessageIds
  BY BridgeListsAre, LiveIdsAre
<1>2. 0 \in Nat /\ 0 + n <= turns'[Len(turns)].n
  OBVIOUS
<1> QED
  BY <1>1, <1>2, SpokenSound DEF Reply

(* What it is said with keeps the ids the bridge knows. *)
LEMMA SpokenKeepsMem ==
    ASSUME BridgeInv, TurnTypes', JournalInv', Onward, Len(turns') = Len(turns), Len(turns) \in 1..Len(turns'),
           NEW n, NEW failed, Say(n, failed), loads' = loads,
           Reply(Live(Len(turns), "assistant"), Len(turns), turns[Len(turns)].says, n, failed) \in Sayings'
    PROVE  MemInv'
<1>1. mem \in Seq(Sayings') /\ EachIdOnce(mem)
  BY BridgeListsAre, SayingsKept DEF BridgeInv, Onward
<1>2. /\ mem' \in Seq(Sayings') /\ EachIdOnce(mem')
      /\ Ids(mem') \subseteq Ids(mem) \cup {Live(Len(turns), "assistant")}
  BY <1>1, SaySound
<1>3. Live(Len(turns), "assistant") \in KnownIds(LiveIds(turns), Len(journal), loads)
  BY BridgeListsAre, TurnIdsAre
<1>4. Ids(mem') \subseteq KnownIds(LiveIds(turns), Len(journal), loads)
  BY <1>2, <1>3, BridgeListsAre
<1>5. loads' \in Nat /\ loads <= loads'
  BY BridgeListsAre
<1> QED
  BY <1>2, <1>4, <1>5, IdsKept DEF MemInv

LEMMA StreamKeeps ==
    ASSUME BridgeInv, Stream
    PROVE  BridgeInv' /\ Onward
<1> DEFINE x == [turns[Len(turns)] EXCEPT !.n = @ + 1]
<1>1. /\ turns # <<>> /\ turns[Len(turns)].end = "running"
      /\ turns[Len(turns)].n < Chunks /\ TurnBecomes(x)
      /\ Say(turns[Len(turns)].n + 1, "no")
      /\ journal' = journal /\ backlog' = backlog /\ loads' = loads /\ snapshot' = snapshot
  BY DEF Stream, Busy, Last, TurnBecomes
<1>2. turns[Len(turns)] \in Turns /\ turns[Len(turns)].n \in Nat /\ Len(turns) \in 1..Len(turns)
  BY <1>1, TurnsAre DEF BridgeInv, TurnTypes
<1>3. /\ x \in Turns /\ x.text = turns[Len(turns)].text /\ x.n = turns[Len(turns)].n + 1
      /\ turns[Len(turns)].n <= x.n /\ x.says = turns[Len(turns)].says
  BY <1>1, <1>2, ReadingAssumption DEF Turns
<1> HIDE DEF x
<1>4. /\ TurnTypes' /\ TurnsKept /\ Len(turns') = Len(turns) /\ Len(turns) \in 1..Len(turns')
      /\ turns'[Len(turns)] = x
      /\ Sayings \subseteq Sayings' /\ Seq(Sayings) \subseteq Seq(Sayings')
  BY <1>1, <1>3, TurnChanges DEF Over, Broken
<1>5. JournalInv' /\ Onward
  BY <1>1, <1>4, BridgeListsAre DEF BridgeInv, JournalInv, Onward
<1>6. Reply(Live(Len(turns), "assistant"), Len(turns), turns[Len(turns)].says, turns[Len(turns)].n + 1, "no")
        \in Sayings'
  <2>1. turns[Len(turns)].n + 1 \in Nat /\ turns[Len(turns)].n + 1 <= turns'[Len(turns)].n
    BY <1>2, <1>3, <1>4
  <2> QED
    BY <1>3, <1>4, <2>1, ReplySound
<1>7. MemInv'
  BY <1>1, <1>4, <1>5, <1>6, SpokenKeepsMem
<1>8. SnapshotInv'
  BY <1>1, <1>4, <1>5, BridgeListsAre, SnapshotStays
<1> QED
  BY <1>4, <1>5, <1>7, <1>8 DEF BridgeInv

(* The lists after a step that writes records to the journal. *)
LEMMA WritingKeeps ==
    ASSUME BridgeInv, Seq(Sayings) \subseteq Seq(Sayings'), NEW records \in Seq(Sayings'),
           \A k \in DOMAIN records : records[k].id = Journalled(Len(journal) + k),
           \/ journal' = journal \o records /\ backlog' = <<>>
           \/ backlog' = records /\ journal' = journal
    PROVE  JournalInv' /\ Len(journal) <= Len(journal')
<1>1. /\ journal \in Seq(Sayings') /\ Len(journal) \in Nat
      /\ \A k \in DOMAIN journal : journal[k].id = Journalled(k)
  BY BridgeListsAre DEF JournalInv, BridgeInv
<1>2. CASE backlog' = records /\ journal' = journal
  BY <1>1, <1>2 DEF JournalInv
<1>3. CASE journal' = journal \o records /\ backlog' = <<>>
  <2>1. /\ journal \o records \in Seq(Sayings') /\ Len(journal) <= Len(journal \o records)
        /\ \A k \in DOMAIN (journal \o records) : (journal \o records)[k].id = Journalled(k)
    BY <1>1, WrittenSound
  <2>2. backlog' \in Seq(Sayings') /\ DOMAIN backlog' = {}
    BY <1>3
  <2> QED
    BY <1>3, <2>1, <2>2 DEF JournalInv
<1> QED
  BY <1>2, <1>3

(* What the bridge holds is untouched while turns and journal go on. *)
LEMMA MemStays ==
    ASSUME BridgeInv, TurnTypes', JournalInv', Onward, mem' = mem, loads' = loads, snapshot' = snapshot
    PROVE  MemInv' /\ SnapshotInv'
<1>1. mem' \in Seq(Sayings') /\ EachIdOnce(mem')
  BY BridgeListsAre, SayingsKept DEF BridgeInv, Onward
<1>2. loads' \in Nat /\ loads <= loads'
  BY BridgeListsAre
<1>3. Ids(mem') \subseteq KnownIds(LiveIds(turns'), Len(journal'), loads')
  BY <1>2, BridgeListsAre, IdsKept
<1> QED
  BY <1>1, <1>2, <1>3, SnapshotStays DEF MemInv

LEMMA TurnEndsKeeps ==
    ASSUME BridgeInv, TurnEnds
    PROVE  BridgeInv' /\ Onward
<1> DEFINE late == Chunks - turns[Len(turns)].n
           x == [turns[Len(turns)] EXCEPT !.n = Chunks, !.held = late,
                                          !.end = IF late = 0 THEN "done" ELSE "late"]
           m == Reply(Live(Len(turns), "assistant"), Len(turns), turns[Len(turns)].says, Chunks, "no")
           records == InJournal(backlog, m)
<1>1. /\ turns # <<>> /\ turns[Len(turns)].end = "running" /\ TurnBecomes(x)
      /\ \/ journal' = journal \o records /\ backlog' = <<>>
         \/ backlog' = records /\ journal' = journal
      /\ mem' = mem /\ loads' = loads /\ snapshot' = snapshot
  BY DEF TurnEnds, Busy, Last, TurnBecomes
<1>2. /\ turns[Len(turns)] \in Turns /\ turns[Len(turns)].n \in 0..Chunks /\ Len(turns) \in 1..Len(turns)
      /\ Chunks \in Nat
  BY <1>1, TurnsAre, ReadingAssumption DEF BridgeInv, TurnTypes
<1>3. /\ x \in Turns /\ x.text = turns[Len(turns)].text /\ x.n = Chunks /\ turns[Len(turns)].n <= x.n
      /\ x.says = turns[Len(turns)].says
  <2> DEFINE end == IF late = 0 THEN "done" ELSE "late"
  <2>1. late \in 0..Chunks /\ Chunks \in 0..Chunks /\ turns[Len(turns)].n <= Chunks
    BY <1>2
  <2>2. end \in {"running", "done", "late", "failed", "torn", "lost"}
    OBVIOUS
  <2> HIDE DEF late, end
  <2>3. [turns[Len(turns)] EXCEPT !.n = Chunks, !.held = late, !.end = end] = x
    BY DEF end
  <2> HIDE DEF x
  <2>4. late > 0 => Chunks = Chunks
    OBVIOUS
  <2>5. Rewritten([turns[Len(turns)] EXCEPT !.n = Chunks, !.held = late, !.end = end],
                  turns[Len(turns)], Chunks, late, end)
    BY <1>2, <2>1, <2>2, <2>4, TurnRewritten, Zenon
  <2>6. Rewritten(x, turns[Len(turns)], Chunks, late, end)
    BY <2>3, <2>5, Zenon
  <2> QED
    BY <2>1, <2>6 DEF Rewritten
<1> HIDE DEF x
<1>4. /\ TurnTypes' /\ TurnsKept /\ Len(turns') = Len(turns) /\ Len(turns) \in 1..Len(turns')
      /\ turns'[Len(turns)] = x
      /\ Sayings \subseteq Sayings' /\ Seq(Sayings) \subseteq Seq(Sayings')
  BY <1>1, <1>3, TurnChanges DEF Over, Broken
<1>5. m \in Sayings'
  BY <1>2, <1>3, <1>4, ReplySound
<1> HIDE DEF m
<1>6. records \in Seq(Sayings') /\ \A k \in DOMAIN records : records[k].id = Journalled(Len(journal) + k)
  BY <1>4, <1>5, BridgeListsAre, InJournalSound DEF BridgeInv, JournalInv
<1> HIDE DEF records
<1>7. JournalInv' /\ Onward
  BY <1>1, <1>4, <1>6, WritingKeeps DEF Onward
<1> QED
  BY <1>1, <1>4, <1>7, MemStays DEF BridgeInv

(* What comes late has an id of its own, which the turn's end makes known. *)
LEMMA LateChunksKeeps ==
    ASSUME BridgeInv, LateChunks
    PROVE  BridgeInv' /\ Onward
<1> DEFINE late == turns[Len(turns)].held
           id == Live(Len(turns), "late")
           x == [turns[Len(turns)] EXCEPT !.held = 0]
           m == Piece(id, Len(turns), turns[Len(turns)].says, Chunks - late, late, "no")
<1>1. /\ turns # <<>> /\ turns[Len(turns)].end # "running" /\ late > 0 /\ TurnBecomes(x)
      /\ mem' = Append(mem, m)
      /\ journal' = journal /\ backlog' = backlog /\ loads' = loads /\ snapshot' = snapshot
  BY DEF LateChunks, Busy, Last, TurnBecomes
<1>2. turns[Len(turns)] \in Turns /\ Len(turns) \in 1..Len(turns) /\ Len(turns) \in Nat
  BY <1>1, TurnsAre DEF BridgeInv, TurnTypes
<1>3. late \in Nat /\ late <= Chunks /\ Chunks \in Nat /\ turns[Len(turns)].n = Chunks
  BY <1>1, <1>2, ReadingAssumption DEF Turns
<1>4. /\ x \in Turns /\ x.text = turns[Len(turns)].text /\ x.n = Chunks
      /\ x.says = turns[Len(turns)].says /\ x.end = turns[Len(turns)].end /\ x.held = 0
  BY <1>2, <1>3 DEF Turns
<1>5. ~Over(turns[Len(turns)]) /\ Over(x)
  BY <1>1, <1>3, <1>4 DEF Over
<1> HIDE DEF x
<1>6. /\ TurnTypes' /\ TurnsKept /\ Len(turns') = Len(turns) /\ Len(turns) \in 1..Len(turns')
      /\ turns'[Len(turns)] = x
      /\ Sayings \subseteq Sayings' /\ Seq(Sayings) \subseteq Seq(Sayings')
  <2>1. turns[Len(turns)].n <= x.n
    BY <1>3, <1>4
  <2> QED
    BY <1>1, <1>4, <1>5, <2>1, TurnChanges
<1>7. JournalInv' /\ Onward
  BY <1>1, <1>6, BridgeListsAre DEF BridgeInv, JournalInv, Onward
<1> HIDE DEF late
<1>8. m \in Sayings' /\ m.id = id
  <2>1. Chunks - late \in Nat /\ (Chunks - late) + late <= turns'[Len(turns)].n
    BY <1>3, <1>4, <1>6
  <2>2. id \in MessageIds
    BY <1>2, LiveIdsAre
  <2> QED
    BY <1>3, <1>4, <1>6, <2>1, <2>2, SpokenSound
<1> HIDE DEF m
<1>9. id \notin Ids(mem)
  <2>1. id \notin KnownIds(LiveIds(turns), Len(journal), loads)
    BY <1>2, <1>5, TurnIdsAre
  <2> QED
    BY <2>1, BridgeListsAre
<1>10. mem' \in Seq(Sayings') /\ EachIdOnce(mem') /\ Ids(mem') = Ids(mem) \cup {id}
  BY <1>1, <1>6, <1>8, <1>9, BridgeListsAre, AppendSound
<1>11. loads' \in Nat /\ loads <= loads'
  BY <1>1, BridgeListsAre
<1>12. id \in KnownIds(LiveIds(turns'), Len(journal'), loads')
  BY <1>2, <1>5, <1>6, TurnIdsAre
<1> HIDE DEF id
<1>13. MemInv'
  <2>1. Ids(mem) \subseteq KnownIds(LiveIds(turns'), Len(journal'), loads')
    BY <1>6, <1>7, <1>11, BridgeListsAre, IdsKept
  <2> QED
    BY <1>10, <1>11, <1>12, <2>1 DEF MemInv
<1>14. SnapshotInv'
  BY <1>1, <1>6, <1>7, <1>11, SnapshotStays
<1> QED
  BY <1>6, <1>7, <1>13, <1>14 DEF BridgeInv

LEMMA TurnFailsKeeps ==
    ASSUME BridgeInv, TurnFails
    PROVE  BridgeInv' /\ Onward
<1> DEFINE x == [turns[Len(turns)] EXCEPT !.end = "failed"]
           n == turns[Len(turns)].n
           m == Reply(Live(Len(turns), "assistant"), Len(turns), turns[Len(turns)].says, n, "journal")
           records == InJournal(backlog, m)
<1>1. /\ turns # <<>> /\ turns[Len(turns)].end = "running" /\ TurnBecomes(x) /\ Say(n, "live")
      /\ backlog' = backlog \/ backlog' = records
      /\ journal' = journal /\ loads' = loads /\ snapshot' = snapshot
  BY DEF TurnFails, Busy, Last, TurnBecomes
<1>2. turns[Len(turns)] \in Turns /\ n \in Nat /\ Len(turns) \in 1..Len(turns)
  BY <1>1, TurnsAre DEF BridgeInv, TurnTypes
<1>3. /\ x \in Turns /\ x.text = turns[Len(turns)].text /\ x.n = n /\ turns[Len(turns)].n <= x.n
      /\ x.says = turns[Len(turns)].says /\ x.end = "failed"
  BY <1>1, <1>2 DEF Turns
<1> HIDE DEF x
<1>4. /\ TurnTypes' /\ TurnsKept /\ Len(turns') = Len(turns) /\ Len(turns) \in 1..Len(turns')
      /\ turns'[Len(turns)] = x
      /\ Sayings \subseteq Sayings' /\ Seq(Sayings) \subseteq Seq(Sayings')
  BY <1>1, <1>3, TurnChanges DEF Over, Broken
<1> HIDE DEF n
<1>5. /\ m \in Sayings'
      /\ Reply(Live(Len(turns), "assistant"), Len(turns), turns[Len(turns)].says, n, "live") \in Sayings'
  <2>1. n <= turns'[Len(turns)].n /\ turns'[Len(turns)].end \in Broken
    BY <1>2, <1>3, <1>4 DEF Broken
  <2> QED
    BY <1>2, <1>3, <1>4, <2>1, ReplySound
<1> HIDE DEF m
<1>6. records \in Seq(Sayings') /\ \A k \in DOMAIN records : records[k].id = Journalled(Len(journal) + k)
  BY <1>4, <1>5, BridgeListsAre, InJournalSound DEF BridgeInv, JournalInv
<1>7. backlog \in Seq(Sayings') /\ \A k \in DOMAIN backlog : backlog[k].id = Journalled(Len(journal) + k)
  BY <1>4 DEF BridgeInv, JournalInv
<1> HIDE DEF records
<1>8. JournalInv' /\ Onward
  BY <1>1, <1>4, <1>6, <1>7, WritingKeeps DEF Onward
<1>9. MemInv'
  BY <1>1, <1>4, <1>5, <1>8, SpokenKeepsMem
<1>10. SnapshotInv'
  BY <1>1, <1>4, <1>8, BridgeListsAre, SnapshotStays
<1> QED
  BY <1>4, <1>8, <1>9, <1>10 DEF BridgeInv

LEMMA TurnsStay ==
    ASSUME BridgeInv, turns' = turns
    PROVE  TurnTypes' /\ TurnsKept /\ Seq(Sayings) \subseteq Seq(Sayings')
<1>1. TurnTypes' /\ TurnsKept
  BY BridgeListsAre, TurnsAre DEF BridgeInv, TurnTypes, TurnsKept, Over
<1> QED
  BY <1>1, SayingsKept DEF BridgeInv

LEMMA FlushKeeps ==
    ASSUME BridgeInv, Flush
    PROVE  BridgeInv' /\ Onward
<1>1. /\ journal' = journal \o backlog /\ backlog' = <<>>
      /\ turns' = turns /\ mem' = mem /\ loads' = loads /\ snapshot' = snapshot
  BY DEF Flush
<1>2. TurnTypes' /\ TurnsKept /\ Seq(Sayings) \subseteq Seq(Sayings')
  BY <1>1, TurnsStay
<1>3. backlog \in Seq(Sayings') /\ \A k \in DOMAIN backlog : backlog[k].id = Journalled(Len(journal) + k)
  BY <1>2 DEF BridgeInv, JournalInv
<1>4. JournalInv' /\ Onward
  BY <1>1, <1>2, <1>3, WritingKeeps DEF Onward
<1> QED
  BY <1>1, <1>2, <1>4, MemStays DEF BridgeInv

LEMMA PersistKeeps ==
    ASSUME BridgeInv, Persist
    PROVE  BridgeInv' /\ Onward
<1> DEFINE healed == HealPoisonedSnapshot(mem)
<1>1. /\ turns' = turns /\ journal' = journal /\ backlog' = backlog /\ loads' = loads
      /\ mem' = healed /\ (snapshot' = healed \/ snapshot' = <<>>)
  BY DEF Persist
<1>2. TurnTypes' /\ TurnsKept /\ Seq(Sayings) \subseteq Seq(Sayings')
  BY <1>1, TurnsStay
<1>3. JournalInv' /\ Onward
  BY <1>1, <1>2, BridgeListsAre DEF BridgeInv, JournalInv, Onward
<1>4. healed \in Seq(Sayings) /\ EachIdOnce(healed) /\ Ids(healed) \subseteq Ids(mem)
  BY BridgeListsAre, HealSound
<1> HIDE DEF healed
<1>5. /\ healed \in Seq(Sayings')
      /\ Ids(healed) \subseteq KnownIds(LiveIds(turns'), Len(journal'), loads')
  BY <1>1, <1>2, <1>4, BridgeListsAre
<1>6. <<>> \in Seq(Sayings') /\ EachIdOnce(<<>>) /\ Ids(<<>>) = {}
  BY DEF EachIdOnce, Ids
<1>7. MemInv'
  BY <1>1, <1>4, <1>5, BridgeListsAre DEF MemInv
<1>8. SnapshotInv'
  BY <1>1, <1>4, <1>5, <1>6 DEF SnapshotInv
<1> QED
  BY <1>2, <1>3, <1>7, <1>8 DEF BridgeInv

LEMMA OutsideKeeps ==
    ASSUME BridgeInv, NEW text \in Texts, NEW says \in Answers, Outside(text, says)
    PROVE  BridgeInv' /\ Onward
<1> DEFINE t == Len(turns) + 1
           k == Len(journal)
           turn == [text |-> text, says |-> says, n |-> Chunks, held |-> 0, end |-> "done"]
           prompt == User(Journalled(k + 1), t, text)
           reply == Piece(Journalled(k + 2), t, says, 0, Chunks, "no")
           records == <<prompt, reply>>
<1>1. /\ turns' = Append(turns, turn) /\ journal' = journal \o records
      /\ backlog = <<>> /\ backlog' = backlog /\ mem' = mem /\ loads' = loads /\ snapshot' = snapshot
  BY DEF Outside, Reply
<1>2. turn \in Turns /\ turn.text = text /\ turn.n = Chunks /\ turn.says = says
  BY ReadingAssumption DEF Turns
<1> HIDE DEF turn
<1>3. /\ TurnTypes' /\ Len(turns') = t /\ turns'[t] = turn
      /\ \A u \in 1..Len(turns) : turns'[u] = turns[u]
  BY <1>1, <1>2 DEF BridgeInv, TurnTypes
<1>4. TurnsKept
  BY <1>3, BridgeListsAre, TurnsAre DEF BridgeInv, TurnsKept
<1>5. Sayings \subseteq Sayings' /\ Seq(Sayings) \subseteq Seq(Sayings')
  BY <1>3, <1>4, SayingsKept DEF BridgeInv
<1>6. /\ Journalled(k + 1) \in MessageIds /\ Journalled(k + 2) \in MessageIds /\ t \in Nat /\ t \in 1..Len(turns')
      /\ Chunks \in Nat /\ 0 \in Nat
  BY <1>3, BridgeListsAre, JournalIdsAre, ReadingAssumption
<1>7. prompt \in Sayings' /\ prompt.id = Journalled(k + 1)
  <2>1. /\ prompt \in Messages /\ prompt.id = Journalled(k + 1) /\ prompt.turn = t /\ prompt.text = text
        /\ prompt.role = "user" /\ prompt.failed = "no" /\ prompt.n = 0
    BY <1>6, UserIs
  <2> HIDE DEF prompt
  <2> QED
    BY <1>2, <1>3, <1>6, <2>1, SaidThen
<1>8. reply \in Sayings' /\ reply.id = Journalled(k + 2)
  <2>1. IsPiece(reply, Journalled(k + 2), t, says, 0, Chunks, "no")
    BY <1>6, PieceIs
  <2> HIDE DEF reply
  <2>2. reply.from + reply.n <= turns'[reply.turn].n /\ (reply.n > 0 => reply.text = turns'[reply.turn].says)
    BY <1>2, <1>3, <1>6, <2>1 DEF IsPiece
  <2>3. /\ reply \in Messages /\ reply.id = Journalled(k + 2) /\ reply.turn = t
        /\ reply.role = "assistant" /\ reply.failed = "no"
    BY <2>1 DEF IsPiece
  <2> QED
    BY <1>3, <1>6, <2>2, <2>3, SaidThen
<1> HIDE DEF prompt, reply
<1>9. /\ records \in Seq(Sayings') /\ DOMAIN records = 1..2
      /\ records[1].id = Journalled(k + 1) /\ records[2].id = Journalled(k + 2)
  BY <1>7, <1>8
<1> HIDE DEF records
<1>10. \A i \in DOMAIN records : records[i].id = Journalled(k + i)
  BY <1>9
<1>11. JournalInv' /\ Onward
  <2>1. backlog' = <<>>
    BY <1>1
  <2> QED
    BY <1>1, <1>4, <1>5, <1>9, <1>10, <2>1, WritingKeeps DEF Onward
<1> QED
  BY <1>1, <1>3, <1>11, MemStays DEF BridgeInv

LEMMA BridgeRestartKeeps ==
    ASSUME BridgeInv, BridgeRestart
    PROVE  BridgeInv' /\ Onward
<1> DEFINE after(t, e) == [turns[t] EXCEPT !.held = 0, !.end = e]
<1>1. PICK k \in 0..Len(backlog) :
        /\ journal' = journal \o SubSeq(backlog, 1, k)
        /\ DOMAIN turns' = DOMAIN turns /\ turns' = [t \in DOMAIN turns |-> turns'[t]]
        /\ \A t \in DOMAIN turns : \E e :
             /\ turns'[t] = after(t, e)
             /\ \/ e \in {"torn", "lost"}
                \/ e = "done" /\ turns[t].end = "late"
                \/ e = turns[t].end /\ e # "running"
  <2> DEFINE ended(t, k) == IF Torn(t) THEN "torn"
                            ELSE IF \/ turns[t].end = "running"
                                    \/ \E i \in (k + 1)..Len(backlog) : backlog[i].turn = t
                                 THEN "lost"
                            ELSE IF turns[t].end = "late" THEN "done" ELSE turns[t].end
  <2>1. \E k \in 0..Len(backlog) :
          /\ journal' = journal \o SubSeq(backlog, 1, k)
          /\ turns' = [t \in DOMAIN turns |-> after(t, ended(t, k))]
    BY Zenon DEF BridgeRestart
  <2>2. \A t, k : \/ ended(t, k) \in {"torn", "lost"}
                  \/ ended(t, k) = "done" /\ turns[t].end = "late"
                  \/ ended(t, k) = turns[t].end /\ ended(t, k) # "running"
    BY Zenon
  <2> HIDE DEF ended, after
  <2>3. PICK k \in 0..Len(backlog) :
          /\ journal' = journal \o SubSeq(backlog, 1, k)
          /\ turns' = [t \in DOMAIN turns |-> after(t, ended(t, k))]
    BY <2>1
  <2>4. /\ DOMAIN turns' = DOMAIN turns /\ turns' = [t \in DOMAIN turns |-> turns'[t]]
        /\ \A t \in DOMAIN turns : turns'[t] = after(t, ended(t, k))
    BY <2>3
  <2>5. ASSUME NEW t \in DOMAIN turns
        PROVE  \E e : /\ turns'[t] = after(t, e)
                      /\ \/ e \in {"torn", "lost"}
                         \/ e = "done" /\ turns[t].end = "late"
                         \/ e = turns[t].end /\ e # "running"
    BY <2>2, <2>4
  <2> QED
    BY <2>3, <2>4, <2>5
<1> HIDE DEF after
<1>2. backlog' = <<>> /\ loads' = loads /\ mem' = snapshot /\ snapshot' = snapshot
  BY DEF BridgeRestart
<1>3. DOMAIN turns = 1..Len(turns) /\ Len(turns) \in Nat /\ \A t \in 1..Len(turns) : turns[t] \in Turns
  BY BridgeListsAre, TurnsAre DEF BridgeInv
<1>4. ASSUME NEW t \in 1..Len(turns), NEW e \in {"done", "late", "failed", "torn", "lost"}
      PROVE  /\ after(t, e) \in Turns /\ after(t, e).text = turns[t].text /\ after(t, e).says = turns[t].says
             /\ after(t, e).n = turns[t].n /\ after(t, e).held = 0 /\ after(t, e).end = e
  <2>1. /\ turns[t] \in Turns /\ turns[t].n \in 0..Chunks /\ 0 \in 0..Chunks /\ ~(0 > 0)
        /\ e \in {"running", "done", "late", "failed", "torn", "lost"}
    BY <1>3, ReadingAssumption DEF Turns
  <2>2. after(t, e) = [turns[t] EXCEPT !.n = turns[t].n, !.held = 0, !.end = e]
    BY <2>1 DEF after, Turns
  <2>3. Rewritten(after(t, e), turns[t], turns[t].n, 0, e)
    <3>1. 0 > 0 => turns[t].n = Chunks
      BY <2>1
    <3>2. Rewritten([turns[t] EXCEPT !.n = turns[t].n, !.held = 0, !.end = e], turns[t], turns[t].n, 0, e)
      BY <2>1, <3>1, TurnRewritten, Zenon
    <3> QED
      BY <2>2, <3>2, Zenon
  <2> QED
    BY <2>3 DEF Rewritten
<1>5. ASSUME NEW t \in 1..Len(turns)
      PROVE  /\ turns'[t] \in Turns /\ turns'[t].text = turns[t].text /\ turns'[t].says = turns[t].says
             /\ turns[t].n <= turns'[t].n
             /\ turns[t].end \in Broken => turns'[t].end \in Broken
             /\ Over(turns'[t])
  <2>1. /\ turns[t] \in Turns /\ turns[t].n \in Nat
        /\ turns[t].end \in {"running", "done", "late", "failed", "torn", "lost"}
    BY <1>3, TurnsAre DEF BridgeInv, Turns
  <2>2. PICK e : /\ turns'[t] = after(t, e)
                 /\ \/ e \in {"torn", "lost"}
                    \/ e = "done" /\ turns[t].end = "late"
                    \/ e = turns[t].end /\ e # "running"
    BY <1>1, <1>3
  <2>3. e \in {"done", "late", "failed", "torn", "lost"}
    BY <2>1, <2>2
  <2> DEFINE x == after(t, e)
  <2>4. /\ x \in Turns /\ x.text = turns[t].text /\ x.says = turns[t].says /\ x.n = turns[t].n
        /\ x.held = 0 /\ x.end = e
    BY <1>4, <2>3
  <2>5. turns'[t] = x
    BY <2>2
  <2> HIDE DEF x
  <2>6. turns[t].end \in Broken => e \in Broken
    BY <2>2 DEF Broken
  <2>7. Over(x)
    BY <2>3, <2>4 DEF Over
  <2> QED
    BY <2>1, <2>4, <2>5, <2>6, <2>7
<1>6. TurnTypes' /\ Len(turns') = Len(turns)
  <2>1. turns' = [t \in 1..Len(turns) |-> turns'[t]]
    BY <1>1, <1>3
  <2>2. turns' \in Seq(Turns)
    BY <1>3, <1>5, <2>1
  <2> QED
    BY <1>1, <1>3, <2>2 DEF TurnTypes
<1>7. TurnsKept
  BY <1>3, <1>5, <1>6 DEF TurnsKept
<1>8. Seq(Sayings) \subseteq Seq(Sayings')
  BY <1>6, <1>7, SayingsKept DEF BridgeInv
<1> DEFINE records == SubSeq(backlog, 1, k)
<1>9. records \in Seq(Sayings') /\ \A i \in DOMAIN records : records[i].id = Journalled(Len(journal) + i)
  <2>1. backlog \in Seq(Sayings') /\ \A i \in 1..Len(backlog) : backlog[i].id = Journalled(Len(journal) + i)
    BY <1>8 DEF BridgeInv, JournalInv
  <2>2. records \in Seq(Sayings') /\ DOMAIN records = 1..k /\ \A i \in 1..k : records[i] = backlog[i]
    BY <2>1, BridgeListsAre
  <2>3. 1..k \subseteq 1..Len(backlog)
    BY BridgeListsAre
  <2> HIDE DEF records
  <2> QED
    BY <2>1, <2>2, <2>3
<1> HIDE DEF records
<1>10. JournalInv' /\ Onward
  <2>1. journal' = journal \o records
    BY <1>1 DEF records
  <2> QED
    BY <1>2, <1>7, <1>8, <1>9, <2>1, WritingKeeps DEF Onward
<1>11. SnapshotInv'
  <2>1. loads' \in Nat /\ loads <= loads'
    BY <1>2, BridgeListsAre
  <2> QED
    BY <1>2, <1>6, <1>10, <2>1, SnapshotStays
<1>12. MemInv'
  BY <1>2, <1>11, BridgeListsAre DEF MemInv, SnapshotInv
<1> QED
  BY <1>6, <1>10, <1>11, <1>12 DEF BridgeInv

LEMMA AnswerPageKeeps ==
    ASSUME BridgeInv, NEW cursor, AnswerPage(cursor)
    PROVE  BridgeInv' /\ Onward
<1>1. turns' = turns /\ journal' = journal /\ backlog' = backlog /\ snapshot' = snapshot
  BY DEF AnswerPage
<1>2. \/ mem' = mem /\ loads' = loads
      \/ mem' = Refreshed.mem /\ loads' = Refreshed.loads
  BY DEF AnswerPage
<1>3. TurnTypes' /\ TurnsKept /\ Seq(Sayings) \subseteq Seq(Sayings')
  BY <1>1, TurnsStay
<1>4. JournalInv' /\ Onward
  BY <1>1, <1>3, BridgeListsAre DEF BridgeInv, JournalInv, Onward
<1>5. CASE mem' = mem /\ loads' = loads
  BY <1>1, <1>3, <1>4, <1>5, MemStays DEF BridgeInv
<1>6. CASE mem' = Refreshed.mem /\ loads' = Refreshed.loads
  <2>1. MemInv'
    BY <1>1, <1>3, <1>6, RefreshedSound DEF MemInv
  <2>2. SnapshotInv'
    BY <1>1, <1>3, <1>4, <1>6, RefreshedSound, SnapshotStays
  <2> QED
    BY <1>3, <1>4, <2>1, <2>2 DEF BridgeInv
<1> QED
  BY <1>2, <1>5, <1>6

-----------------------------------------------------------------------------
(* Pages: whichever list a page is cut from, it has no id twice, and its   *)
(* cursor names a place of the journal or a message.                       *)
Cursors(written) == {NoCursor} \cup {Offset(k) : k \in 1..written} \cup {Message(id) : id \in MessageIds}

PageInv(page, S, written) ==
    /\ page \in [messages : Seq(S), before : Cursors(written), more : BOOLEAN, none : BOOLEAN]
    /\ EachIdOnce(page.messages)

LEMMA PageEndingAtSound ==
    ASSUME NEW S, NEW s \in Seq(S), EachIdOnce(s), NEW end \in 0..Len(s), NEW C, NoCursor \in C,
           NEW cursors, \A k \in 1..Len(s) : cursors[k] \in C
    PROVE  /\ PageEndingAt(s, end, cursors).messages \in Seq(S)
           /\ EachIdOnce(PageEndingAt(s, end, cursors).messages)
           /\ PageEndingAt(s, end, cursors).before \in C
           /\ PageEndingAt(s, end, cursors).more \in BOOLEAN
<1> DEFINE start == Max2(0, end - Limit)
<1>1. start \in Nat /\ start <= end /\ (start > 0 => start + 1 <= end) /\ end <= Len(s) /\ Len(s) \in Nat
  BY ReadingAssumption DEF Max2
<1>2. /\ PageEndingAt(s, end, cursors).messages = SubSeq(s, start + 1, end)
      /\ PageEndingAt(s, end, cursors).before = IF start > 0 THEN cursors[start + 1] ELSE NoCursor
      /\ PageEndingAt(s, end, cursors).more = (start > 0)
  BY DEF PageEndingAt
<1> HIDE DEF start
<1>3. start + 1 \in 1..(Len(s) + 1) /\ (start > 0 => start + 1 \in 1..Len(s))
  BY <1>1
<1>4. SubSeq(s, start + 1, end) \in Seq(S) /\ EachIdOnce(SubSeq(s, start + 1, end))
  BY <1>3, PartSound
<1> QED
  BY <1>2, <1>3, <1>4

LEMMA IdPageSound ==
    ASSUME NEW S, \A m \in S : m.id \in MessageIds, NEW s \in Seq(S), EachIdOnce(s), NEW cursor, NEW written
    PROVE  /\ IdPage(s, cursor).messages \in Seq(S) /\ EachIdOnce(IdPage(s, cursor).messages)
           /\ IdPage(s, cursor).before \in Cursors(written) /\ IdPage(s, cursor).more \in BOOLEAN
<1> DEFINE named == {i \in DOMAIN s : Message(s[i].id) = cursor}
           end == IF named = {} THEN Len(s) ELSE (CHOOSE i \in named : TRUE) - 1
           cursors == [k \in DOMAIN s |-> Message(s[k].id)]
<1>1. IdPage(s, cursor) = PageEndingAt(s, end, cursors)
  BY DEF IdPage
<1>2. DOMAIN s = 1..Len(s) /\ Len(s) \in Nat
  OBVIOUS
<1>3. end \in 0..Len(s)
  <2>1. CASE named = {}
    BY <1>2, <2>1
  <2>2. CASE named # {}
    <3>1. (CHOOSE i \in named : TRUE) \in 1..Len(s)
      BY <1>2, <2>2
    <3> HIDE DEF named
    <3> QED
      BY <1>2, <2>2, <3>1
  <2> QED
    BY <2>1, <2>2
<1>4. \A k \in 1..Len(s) : cursors[k] \in Cursors(written)
  BY <1>2 DEF Cursors
<1>5. NoCursor \in Cursors(written)
  BY DEF Cursors
<1> HIDE DEF end, cursors
<1> QED
  BY <1>1, <1>3, <1>4, <1>5, PageEndingAtSound

LEMMA OffsetPageSound ==
    ASSUME BridgeInv, NEW cursor \in Cursors(Len(journal)), cursor.kind # "id"
    PROVE  /\ OffsetPage(cursor).messages \in Seq(Sayings) /\ EachIdOnce(OffsetPage(cursor).messages)
           /\ OffsetPage(cursor).before \in Cursors(Len(journal)) /\ OffsetPage(cursor).more \in BOOLEAN
<1> DEFINE end == IF cursor.kind = "none" THEN Len(journal) ELSE cursor.at[1] - 1
           cursors == [k \in DOMAIN journal |-> Offset(k)]
<1>1. OffsetPage(cursor) = PageEndingAt(journal, end, cursors)
  BY DEF OffsetPage
<1>2. /\ journal \in Seq(Sayings) /\ EachIdOnce(journal) /\ DOMAIN journal = 1..Len(journal)
      /\ Len(journal) \in Nat
  BY BridgeListsAre
<1>3. end \in 0..Len(journal)
  <2>1. CASE cursor = NoCursor
    BY <1>2, <2>1 DEF NoCursor
  <2>2. ASSUME NEW k \in 1..Len(journal), cursor = Offset(k) PROVE end \in 0..Len(journal)
    <3>1. cursor.kind = "offset" /\ cursor.at[1] = k
      BY <2>2 DEF Offset
    <3> QED
      BY <1>2, <3>1
  <2>3. \A id : Message(id).kind = "id"
    BY DEF Message
  <2> QED
    BY <2>1, <2>2, <2>3 DEF Cursors
<1>4. \A k \in 1..Len(journal) : cursors[k] \in Cursors(Len(journal))
  BY <1>2 DEF Cursors
<1>5. NoCursor \in Cursors(Len(journal))
  BY DEF Cursors
<1> HIDE DEF end, cursors
<1> QED
  BY <1>1, <1>2, <1>3, <1>4, <1>5, PageEndingAtSound

LEMMA SomePage ==
    ASSUME NEW S, NEW written, NEW page, page.messages \in Seq(S), EachIdOnce(page.messages),
           page.before \in Cursors(written), page.more \in BOOLEAN
    PROVE  PageInv(Some(page), S, written) /\ ~Some(page).none
<1> DEFINE s == page.messages
           b == page.before
           m == page.more
<1>1. Some(page) = [messages |-> s, before |-> b, more |-> m, none |-> FALSE]
  BY DEF Some
<1> HIDE DEF s, b, m
<1>2. /\ [messages |-> s, before |-> b, more |-> m, none |-> FALSE]
           \in [messages : Seq(S), before : Cursors(written), more : BOOLEAN, none : BOOLEAN]
      /\ EachIdOnce([messages |-> s, before |-> b, more |-> m, none |-> FALSE].messages)
  BY DEF s, b, m
<1> QED
  BY <1>1, <1>2 DEF PageInv

LEMMA MessagePageSound ==
    ASSUME BridgeInv, NEW cursor \in Cursors(Len(journal))
    PROVE  PageInv(Some(MessagePage(cursor)), Sayings, Len(journal)) /\ ~Some(MessagePage(cursor)).none
<1>1. \A m \in Sayings : m.id \in MessageIds
  BY SayingsAre
<1>2. CASE ~FromJournal(cursor)
  <2>1. MessagePage(cursor) = IdPage(Refreshed.mem, cursor)
    BY <1>2 DEF MessagePage
  <2>2. Refreshed.mem \in Seq(Sayings) /\ EachIdOnce(Refreshed.mem)
    BY RefreshedSound
  <2> QED
    BY <1>1, <2>1, <2>2, IdPageSound, SomePage
<1>3. CASE FromJournal(cursor) /\ harness = "omp"
  <2>1. MessagePage(cursor) = IdPage(journal, cursor)
    BY <1>3 DEF MessagePage
  <2> QED
    BY <1>1, <2>1, BridgeListsAre, IdPageSound, SomePage
<1>4. CASE FromJournal(cursor) /\ harness # "omp"
  <2>1. MessagePage(cursor) = OffsetPage(cursor)
    BY <1>4 DEF MessagePage
  <2>2. cursor.kind # "id"
    BY <1>4 DEF FromJournal
  <2> QED
    BY <2>1, <2>2, OffsetPageSound, SomePage
<1> QED
  BY <1>2, <1>3, <1>4

-----------------------------------------------------------------------------
(* The app: what it holds and what is on its way to it are pages of what   *)
(* was said.                                                               *)
ViewInv ==
    /\ BridgeInv
    /\ PageInv(feed, Sayings, Len(journal)) /\ (feed.none => feed.messages = <<>>)
    /\ PageInv(tail, Sayings, Len(journal)) /\ PageInv(older, Sayings, Len(journal))
    /\ piTail \in Seq(Sayings) /\ EachIdOnce(piTail)

LEMMA NoPage ==
    ASSUME NEW S, NEW written
    PROVE  PageInv(None, S, written) /\ None.messages = <<>>
<1>1. /\ None \in [messages : Seq(S), before : Cursors(written), more : BOOLEAN, none : BOOLEAN]
      /\ None.messages = <<>>
  <2>1. NoCursor \in Cursors(written)
    BY DEF Cursors
  <2>2. <<>> \in Seq(S)
    OBVIOUS
  <2> QED
    BY <2>1, <2>2 DEF None
<1>2. EachIdOnce(<<>>)
  BY DEF EachIdOnce
<1> QED
  BY <1>1, <1>2 DEF PageInv

LEMMA PagesKept ==
    ASSUME BridgeInv, BridgeInv', Onward, NEW page, PageInv(page, Sayings, Len(journal))
    PROVE  PageInv(page, Sayings', Len(journal'))
<1>1. Seq(Sayings) \subseteq Seq(Sayings')
  BY SayingsKept DEF BridgeInv, Onward
<1>2. Len(journal) \in Nat /\ Len(journal') \in Nat /\ Len(journal) <= Len(journal')
  BY DEF BridgeInv, JournalInv, Onward
<1>3. 1..Len(journal) \subseteq 1..Len(journal')
  BY <1>2
<1>4. Cursors(Len(journal)) \subseteq Cursors(Len(journal'))
  BY <1>3 DEF Cursors
<1> QED
  BY <1>1, <1>4 DEF PageInv

LEMMA BridgeStays ==
    ASSUME BridgeInv, UNCHANGED bridgeVars
    PROVE  BridgeInv' /\ Onward
<1>1. /\ turns' = turns /\ journal' = journal /\ backlog' = backlog /\ mem' = mem /\ loads' = loads
      /\ snapshot' = snapshot
  BY DEF bridgeVars
<1>2. TurnTypes' /\ TurnsKept /\ Seq(Sayings) \subseteq Seq(Sayings')
  BY <1>1, TurnsStay
<1>3. JournalInv' /\ Onward
  BY <1>1, <1>2, BridgeListsAre DEF BridgeInv, JournalInv, Onward
<1> QED
  BY <1>1, <1>2, <1>3, MemStays DEF BridgeInv

LEMMA StabilizedSound ==
    ASSUME NEW page, piTail \in Seq(Sayings), EachIdOnce(piTail),
           page.messages \in Seq(Sayings), EachIdOnce(page.messages)
    PROVE  Stabilized(page) \in Seq(Sayings) /\ EachIdOnce(Stabilized(page))
<1> DEFINE read == page.messages
           prompts == StabilizeBy(piTail, read, UserKeys(piTail), UserKeys(read))
           replies == StabilizeBy(piTail, prompts, ReplyKeys(piTail), ReplyKeys(prompts))
           failures == StabilizeBy(piTail, replies, FailureKeys(piTail), FailureKeys(replies))
<1>1. Stabilized(page) = read \/ Stabilized(page) = failures
  BY DEF Stabilized
<1>2. Renamable(Sayings)
  BY SayingsAre, SayingsRename DEF Renamable
<1>3. read \in Seq(Sayings) /\ EachIdOnce(read)
  OBVIOUS
<1> HIDE DEF read
<1>4. prompts \in Seq(Sayings) /\ EachIdOnce(prompts)
  BY <1>2, <1>3, StabilizeBySound
<1> HIDE DEF prompts
<1>5. replies \in Seq(Sayings) /\ EachIdOnce(replies)
  BY <1>2, <1>4, StabilizeBySound
<1> HIDE DEF replies
<1>6. failures \in Seq(Sayings) /\ EachIdOnce(failures)
  BY <1>2, <1>5, StabilizeBySound
<1> HIDE DEF failures
<1> QED
  BY <1>1, <1>3, <1>6

(* The feed after a step: still a page, and what it had is still there.    *)
FeedGrows ==
    \E front \in 0..Len(feed'.messages) : \A i \in DOMAIN feed.messages :
      /\ i + front \in DOMAIN feed'.messages
      /\ Grew(feed'.messages[i + front], feed.messages[i])

LEMMA FeedStays ==
    ASSUME ViewInv, BridgeInv', Onward, feed' = feed
    PROVE  FeedGrows /\ PageInv(feed, Sayings', Len(journal')) /\ (feed'.none => feed'.messages = <<>>)
<1>1. feed.messages \in Seq(Sayings)
  BY DEF ViewInv, PageInv
<1>2. \A i \in DOMAIN feed.messages : feed.messages[i].n \in Nat
  BY <1>1, SayingsAre
<1>3. \A i \in DOMAIN feed.messages : i + 0 = i /\ Grew(feed.messages[i], feed.messages[i])
  BY <1>1, <1>2 DEF Grew
<1>4. 0 \in 0..Len(feed.messages)
  BY <1>1
<1>5. FeedGrows
  BY <1>3, <1>4 DEF FeedGrows
<1> QED
  BY <1>5, PagesKept DEF ViewInv

(* A step of the bridge while the app keeps its pages, or asks for one. *)
LEMMA PagesStay ==
    ASSUME ViewInv, BridgeInv', Onward, piTail' = piTail, feed' = feed,
           tail' = tail \/ PageInv(tail', Sayings', Len(journal')),
           older' = older \/ PageInv(older', Sayings', Len(journal'))
    PROVE  ViewInv' /\ FeedGrows
<1>1. FeedGrows /\ PageInv(feed', Sayings', Len(journal')) /\ (feed'.none => feed'.messages = <<>>)
  BY FeedStays
<1>2. PageInv(tail', Sayings', Len(journal')) /\ PageInv(older', Sayings', Len(journal'))
  BY PagesKept DEF ViewInv
<1>3. piTail' \in Seq(Sayings') /\ EachIdOnce(piTail')
  BY SayingsKept DEF ViewInv, BridgeInv, Onward
<1> QED
  BY <1>1, <1>2, <1>3 DEF ViewInv

LEMMA BridgeKeeps ==
    ASSUME ViewInv, Bridge
    PROVE  ViewInv' /\ FeedGrows
<1>1. feed' = feed /\ tail' = tail /\ older' = older /\ piTail' = piTail
  BY DEF Bridge
<1>2. BridgeInv' /\ Onward
  BY StreamKeeps, TurnEndsKeeps, LateChunksKeeps, TurnFailsKeeps, FlushKeeps, OutsideKeeps DEF Bridge, ViewInv
<1> QED
  BY <1>1, <1>2, PagesStay

LEMMA PersistBehindKeeps ==
    ASSUME ViewInv, PersistBehind
    PROVE  ViewInv' /\ FeedGrows
<1>1. feed' = feed /\ tail' = tail /\ older' = older /\ piTail' = piTail
  BY DEF PersistBehind, viewVars
<1>2. BridgeInv' /\ Onward
  BY PersistKeeps DEF PersistBehind, ViewInv
<1> QED
  BY <1>1, <1>2, PagesStay

LEMMA RestartBehindKeeps ==
    ASSUME ViewInv, RestartBehind
    PROVE  ViewInv' /\ FeedGrows
<1>1. feed' = feed /\ tail' = tail /\ older' = older /\ piTail' = piTail
  BY DEF RestartBehind
<1>2. BridgeInv' /\ Onward
  BY BridgeRestartKeeps DEF RestartBehind, ViewInv
<1> QED
  BY <1>1, <1>2, PagesStay

LEMMA SendKeeps ==
    ASSUME ViewInv, NEW text \in Texts, NEW says \in Answers, Send(text, says)
    PROVE  ViewInv' /\ FeedGrows
<1>1. feed' = feed /\ tail' = tail /\ older' = older /\ piTail' = piTail
  BY DEF Send
<1>2. BridgeInv' /\ Onward
  BY PromptKeeps DEF Send, ViewInv
<1> QED
  BY <1>1, <1>2, PagesStay

(* The page a read asks for, in the state the read leaves. *)
LEMMA ReadKeeps ==
    ASSUME ViewInv, NEW cursor \in Cursors(Len(journal)), AnswerPage(cursor)
    PROVE  /\ BridgeInv' /\ Onward
           /\ PageInv(Some(MessagePage(cursor)), Sayings', Len(journal'))
<1>1. PageInv(Some(MessagePage(cursor)), Sayings, Len(journal))
  BY MessagePageSound DEF ViewInv
<1>2. BridgeInv' /\ Onward
  BY AnswerPageKeeps DEF ViewInv
<1> DEFINE page == Some(MessagePage(cursor))
<1> HIDE DEF page
<1>3. PageInv(page, Sayings', Len(journal'))
  BY <1>1, <1>2, PagesKept DEF page, ViewInv
<1> QED
  BY <1>2, <1>3 DEF page

LEMMA MountKeeps ==
    ASSUME ViewInv, Mount
    PROVE  ViewInv' /\ FeedGrows
<1>1. /\ AnswerPage(NoCursor) /\ tail' = Some(MessagePage(NoCursor))
      /\ feed' = feed /\ older' = older /\ piTail' = piTail
  BY DEF Mount
<1>2. NoCursor \in Cursors(Len(journal))
  BY DEF Cursors
<1> QED
  BY <1>1, <1>2, ReadKeeps, PagesStay

LEMMA ReadTailKeeps ==
    ASSUME ViewInv, ReadTail
    PROVE  ViewInv' /\ FeedGrows
<1>1. /\ AnswerPage(NoCursor) /\ tail' = Some(MessagePage(NoCursor))
      /\ feed' = feed /\ older' = older /\ piTail' = piTail
  BY DEF ReadTail
<1>2. NoCursor \in Cursors(Len(journal))
  BY DEF Cursors
<1> QED
  BY <1>1, <1>2, ReadKeeps, PagesStay

LEMMA ReadOlderKeeps ==
    ASSUME ViewInv, ReadOlder
    PROVE  ViewInv' /\ FeedGrows
<1>1. /\ AnswerPage(feed.before) /\ older' = Some(MessagePage(feed.before))
      /\ feed' = feed /\ tail' = tail /\ piTail' = piTail
  BY DEF ReadOlder
<1>2. feed.before \in Cursors(Len(journal))
  BY DEF ViewInv, PageInv
<1> QED
  BY <1>1, <1>2, ReadKeeps, PagesStay

LEMMA UnmountKeeps ==
    ASSUME ViewInv, Unmount
    PROVE  ViewInv' /\ ~open'
<1>1. /\ feed' = None /\ tail' = None /\ older' = None /\ piTail' = <<>> /\ open' = FALSE
      /\ UNCHANGED bridgeVars
  BY DEF Unmount
<1>2. BridgeInv'
  BY <1>1, BridgeStays DEF ViewInv
<1>3. PageInv(None, Sayings', Len(journal')) /\ None.messages = <<>>
  BY NoPage
<1>4. <<>> \in Seq(Sayings') /\ EachIdOnce(<<>>)
  BY DEF EachIdOnce
<1> QED
  BY <1>1, <1>2, <1>3, <1>4 DEF ViewInv

(* A page with other messages on it. *)
LEMMA PageWith ==
    ASSUME NEW S, NEW written, NEW page, PageInv(page, S, written), NEW s \in Seq(S), EachIdOnce(s)
    PROVE  /\ PageInv([page EXCEPT !.messages = s], S, written)
           /\ [page EXCEPT !.messages = s].messages = s
           /\ [page EXCEPT !.messages = s].none = page.none
BY DEF PageInv

LEMMA LandTailKeeps ==
    ASSUME ViewInv, LandTail
    PROVE  ViewInv' /\ FeedGrows
<1> DEFINE messages == Stabilized(tail)
           merged == MergeLatest(feed.messages, messages)
           first == [tail EXCEPT !.messages = messages]
           next == [feed EXCEPT !.messages = MergeLatest(@, messages),
                                !.before = IF @.kind # "none" THEN @ ELSE tail.before,
                                !.more = @ \/ tail.more]
<1>1. /\ ~tail.none /\ tail' = None /\ older' = older
      /\ piTail' = messages \/ piTail' = piTail
      /\ feed' = IF feed.none THEN first ELSE next
      /\ UNCHANGED bridgeVars
  BY DEF LandTail
<1>2. messages \in Seq(Sayings) /\ EachIdOnce(messages)
  BY StabilizedSound DEF ViewInv, PageInv
<1>3. /\ merged \in Seq(Sayings) /\ EachIdOnce(merged)
      /\ \A i \in DOMAIN feed.messages : i \in DOMAIN merged /\ Grew(merged[i], feed.messages[i])
  <2>1. OneTextEach(Sayings)
    BY SayingsAre DEF OneTextEach
  <2> QED
    BY <1>2, <2>1, SayingsAre, MergeLatestSound DEF ViewInv, PageInv
<1>4. BridgeInv' /\ Onward
  BY <1>1, BridgeStays DEF ViewInv
<1> HIDE DEF messages
<1>5. PageInv(first, Sayings, Len(journal)) /\ first.messages = messages /\ ~first.none
  BY <1>1, <1>2, PageWith DEF ViewInv
<1>6. PageInv(next, Sayings, Len(journal)) /\ next.messages = merged /\ next.none = feed.none
  <2>1. next \in [messages : Seq(Sayings), before : Cursors(Len(journal)), more : BOOLEAN, none : BOOLEAN]
    BY <1>3 DEF ViewInv, PageInv
  <2>2. next.messages = merged /\ next.none = feed.none
    BY DEF ViewInv, PageInv
  <2> QED
    BY <1>3, <2>1, <2>2 DEF PageInv
<1> HIDE DEF first, next, merged
<1>7. FeedGrows
  <2>1. CASE feed.none
    <3>1. DOMAIN feed.messages = {}
      BY <2>1 DEF ViewInv
    <3>2. Len(feed'.messages) \in Nat
      BY <1>1, <1>2, <1>5, <2>1
    <3> QED
      BY <3>1, <3>2 DEF FeedGrows
  <2>2. CASE ~feed.none
    <3>1. feed'.messages = merged
      BY <1>1, <1>6, <2>2
    <3>2. 0 \in 0..Len(merged) /\ \A i \in DOMAIN feed.messages : i + 0 = i
      BY <1>3 DEF ViewInv, PageInv
    <3> QED
      BY <1>3, <3>1, <3>2 DEF FeedGrows
  <2> QED
    BY <2>1, <2>2
<1>8. PageInv(feed', Sayings', Len(journal')) /\ ~feed'.none
  <2>1. PageInv(first, Sayings', Len(journal')) /\ PageInv(next, Sayings', Len(journal'))
    BY <1>4, <1>5, <1>6, PagesKept DEF ViewInv
  <2> QED
    BY <1>1, <1>5, <1>6, <2>1
<1>9. PageInv(older', Sayings', Len(journal')) /\ PageInv(tail', Sayings', Len(journal'))
  BY <1>1, <1>4, PagesKept, NoPage DEF ViewInv
<1>10. piTail' \in Seq(Sayings') /\ EachIdOnce(piTail')
  BY <1>1, <1>2, <1>4, SayingsKept DEF ViewInv, BridgeInv, Onward
<1> QED
  BY <1>4, <1>7, <1>8, <1>9, <1>10 DEF ViewInv

LEMMA LandOlderKeeps ==
    ASSUME ViewInv, LandOlder
    PROVE  ViewInv' /\ FeedGrows
<1> DEFINE merged == PrependOlder(feed.messages, older.messages)
           next == [older EXCEPT !.messages = merged]
<1>1. /\ ~older.none /\ older' = None /\ tail' = tail /\ piTail' = piTail
      /\ feed' = next /\ UNCHANGED bridgeVars
  BY DEF LandOlder
<1>2. /\ merged \in Seq(Sayings) /\ EachIdOnce(merged)
      /\ \E front \in 0..Len(merged) : \A i \in DOMAIN feed.messages :
           i + front \in DOMAIN merged /\ merged[i + front] = feed.messages[i]
  BY PrependOlderSound DEF ViewInv, PageInv
<1>3. BridgeInv' /\ Onward
  BY <1>1, BridgeStays DEF ViewInv
<1> HIDE DEF merged
<1>4. PageInv(next, Sayings, Len(journal)) /\ next.messages = merged /\ ~next.none
  BY <1>1, <1>2, PageWith DEF ViewInv
<1> HIDE DEF next
<1>5. \A i \in DOMAIN feed.messages : Grew(feed.messages[i], feed.messages[i])
  <2>1. \A i \in DOMAIN feed.messages : feed.messages[i].n \in Nat
    BY SayingsAre DEF ViewInv, PageInv
  <2> QED
    BY <2>1 DEF Grew
<1>6. FeedGrows
  BY <1>1, <1>2, <1>4, <1>5 DEF FeedGrows
<1>7. PageInv(feed', Sayings', Len(journal')) /\ ~feed'.none
  BY <1>1, <1>3, <1>4, PagesKept DEF ViewInv
<1>8. PageInv(older', Sayings', Len(journal')) /\ PageInv(tail', Sayings', Len(journal'))
  BY <1>1, <1>3, PagesKept, NoPage DEF ViewInv
<1>9. piTail' \in Seq(Sayings') /\ EachIdOnce(piTail')
  BY <1>1, <1>3, SayingsKept DEF ViewInv, BridgeInv, Onward
<1> QED
  BY <1>3, <1>6, <1>7, <1>8, <1>9 DEF ViewInv

LEMMA ViewStarts ==
    ASSUME ViewInit
    PROVE  ViewInv
<1>1. /\ turns = <<>> /\ journal = <<>> /\ backlog = <<>> /\ mem = <<>> /\ loads = 0 /\ snapshot = <<>>
      /\ feed = None /\ tail = None /\ older = None /\ piTail = <<>>
  BY DEF ViewInit, BridgeInit
<1>2. EachIdOnce(<<>>) /\ Ids(<<>>) = {}
  BY DEF EachIdOnce, Ids
<1>3. BridgeInv
  BY <1>1, <1>2 DEF BridgeInv, TurnTypes, JournalInv, MemInv, SnapshotInv
<1> QED
  BY <1>1, <1>2, <1>3, NoPage DEF ViewInv

LEMMA ViewSteps ==
    ASSUME ViewInv, [ViewNext]_conversationVars
    PROVE  ViewInv' /\ (open' => FeedGrows)
<1>1. CASE Bridge
  BY <1>1, BridgeKeeps
<1>2. CASE RestartBehind
  BY <1>2, RestartBehindKeeps
<1>3. ASSUME NEW text \in Texts, NEW says \in Answers, Send(text, says) PROVE ViewInv' /\ FeedGrows
  BY <1>3, SendKeeps
<1>4. CASE Mount
  BY <1>4, MountKeeps
<1>5. CASE Unmount
  BY <1>5, UnmountKeeps
<1>6. CASE ReadTail
  BY <1>6, ReadTailKeeps
<1>7. CASE LandTail
  BY <1>7, LandTailKeeps
<1>8. CASE ReadOlder
  BY <1>8, ReadOlderKeeps
<1>9. CASE LandOlder
  BY <1>9, LandOlderKeeps
<1>10. CASE UNCHANGED conversationVars
  <2>1. feed' = feed /\ tail' = tail /\ older' = older /\ piTail' = piTail /\ UNCHANGED bridgeVars
    BY <1>10 DEF conversationVars, viewVars
  <2> QED
    BY <2>1, BridgeStays, PagesStay DEF ViewInv
<1>11. CASE PersistBehind
  BY <1>11, PersistBehindKeeps
<1> QED
  BY <1>1, <1>2, <1>3, <1>4, <1>5, <1>6, <1>7, <1>8, <1>9, <1>10, <1>11 DEF ViewNext

(* Whatever is open, read, restarted or paged: every list of the bridge,   *)
(* every page on its way and the feed hold each id once and only what was  *)
(* said (acp-service.js, session-message-page.js, message-feed.ts).        *)
THEOREM ViewInvariant == ViewSpec => []ViewInv
<1>1. ViewInit => ViewInv
  BY ViewStarts
<1>2. ViewInv /\ [ViewNext]_conversationVars => ViewInv'
  BY ViewSteps
<1> QED
  BY <1>1, <1>2, PTL DEF ViewSpec

(* The feed never has two messages of one id, nor one that was not said in *)
(* its turn.                                                               *)
THEOREM FeedIsFaithfulHolds == ViewSpec => []FeedIsFaithful
<1>1. ViewInv => FeedIsFaithful
  <2>1. \A m \in Sayings : Said(m)
    BY SayingsAre
  <2> QED
    BY <2>1 DEF ViewInv, PageInv, FeedIsFaithful
<1> QED
  BY <1>1, ViewInvariant, PTL

(* While the conversation is open nothing leaves the feed or moves in it,  *)
(* and no reply of a turn gets shorter.                                    *)
THEOREM FeedOnlyGrowsHolds == ViewSpec => FeedOnlyGrows
<1>1. ViewInv /\ [ViewNext]_conversationVars
        => [open /\ open' =>
              \E front \in 0..Len(feed'.messages) : \A i \in DOMAIN feed.messages :
                /\ i + front \in DOMAIN feed'.messages
                /\ LET was == feed.messages[i]
                       is == feed'.messages[i + front]
                   IN /\ is.id = was.id
                      /\ (was.role = "assistant" /\ is.role = "assistant"
                          /\ is.turn = was.turn /\ is.from = was.from) => was.n <= is.n
           ]_conversationVars
  BY ViewSteps DEF FeedGrows, Grew
<1> QED
  BY <1>1, ViewInvariant, PTL DEF ViewSpec, FeedOnlyGrows

-----------------------------------------------------------------------------
(* Journals.  A definition by recursion defines a function when a step     *)
(* looks only at places of a lower rank; ranks are bounded.                *)
Solves(f, step, D) == \A a \in D : f[a] = step[<<a, f>>]

LooksBelow(step, rank, D, C) ==
    \A a \in D : \A g, h \in [D -> C] :
      (\A b \in D : rank[b] < rank[a] => g[b] = h[b]) => step[<<a, g>>] = step[<<a, h>>]

LEMMA Recursion ==
    ASSUME NEW D, NEW C, NEW c \in C, NEW max \in Nat, NEW rank \in [D -> 0..max],
           NEW step \in [D \X [D -> C] -> C],
           LooksBelow(step, rank, D, C)
    PROVE  \E f \in [D -> C] : Solves(f, step, D)
<1> DEFINE Upto(g, n) == \A a \in D : rank[a] < n => g[a] = step[<<a, g>>]
           T == {n \in Nat : \E g \in [D -> C] : Upto(g, n)}
<1>1. 0 \in T
  <2>1. [a \in D |-> c] \in [D -> C]
    OBVIOUS
  <2>2. \A a \in D : ~ rank[a] < 0
    OBVIOUS
  <2> QED
    BY <2>1, <2>2
<1>2. ASSUME NEW n \in Nat, n \in T PROVE n + 1 \in T
  <2>1. PICK g \in [D -> C] : Upto(g, n)
    BY <1>2
  <2> DEFINE h == [a \in D |-> step[<<a, g>>]]
  <2>2. h \in [D -> C] /\ \A a \in D : h[a] = step[<<a, g>>]
    OBVIOUS
  <2> HIDE DEF h
  <2>3. ASSUME NEW a \in D, rank[a] < n + 1
        PROVE  h[a] = step[<<a, h>>]
    <3>1. ASSUME NEW b \in D, rank[b] < rank[a]
          PROVE  g[b] = h[b]
      <4>1. rank[b] < n
        BY <2>3, <3>1
      <4> QED
        BY <2>1, <2>2, <4>1
    <3>2. step[<<a, g>>] = step[<<a, h>>]
      BY <2>2, <3>1 DEF LooksBelow
    <3> QED
      BY <2>2, <3>2
  <2> QED
    BY <2>2, <2>3
<1>3. max + 1 \in T
  <2>1. max + 1 \in Nat
    OBVIOUS
  <2> HIDE DEF T
  <2> QED
    BY <1>1, <1>2, <2>1, Induction
<1>4. PICK f \in [D -> C] : Upto(f, max + 1)
  BY <1>3
<1>5. \A a \in D : f[a] = step[<<a, f>>]
  BY <1>4
<1> QED
  BY <1>5 DEF Solves

-----------------------------------------------------------------------------
(* Kept *)
KeptStep(s, S, kept, i) ==
    IF i = 0 THEN <<>> ELSE IF s[i] \in S THEN Append(kept[i - 1], s[i]) ELSE kept[i - 1]

LEMMA KeptIs ==
    ASSUME NEW R, NEW s \in Seq(R), NEW S
    PROVE  \A i \in 0..Len(s) : Kept(s, S)[i] = KeptStep(s, S, Kept(s, S), i)
<1> DEFINE D == 0..Len(s)
           C == Seq(R)
           rank == [i \in D |-> i]
           step == [x \in D \X [D -> C] |-> KeptStep(s, S, x[2], x[1])]
           Is(k) == k = [i \in D |-> KeptStep(s, S, k, i)]
<1>1. Len(s) \in Nat
  OBVIOUS
<1>2. ASSUME NEW i \in D, NEW g \in [D -> C]
      PROVE  KeptStep(s, S, g, i) \in C
  <2>1. CASE i = 0
    BY <2>1 DEF KeptStep
  <2>2. CASE i # 0
    <3>1. g[i - 1] \in Seq(R)
      BY <1>1, <2>2
    <3>3. s[i] \in R
      BY <1>1, <2>2
    <3>2. Append(g[i - 1], s[i]) \in Seq(R)
      BY <3>1, <3>3
    <3> QED
      BY <2>2, <3>1, <3>2 DEF KeptStep
  <2> QED
    BY <2>1, <2>2
<1>3. step \in [D \X [D -> C] -> C]
  BY <1>2
<1>4. LooksBelow(step, rank, D, C)
  <2> SUFFICES ASSUME NEW a \in D, NEW g \in [D -> C], NEW h \in [D -> C],
                      \A b \in D : rank[b] < rank[a] => g[b] = h[b]
               PROVE  KeptStep(s, S, g, a) = KeptStep(s, S, h, a)
    BY DEF LooksBelow
  <2>1. a # 0 => g[a - 1] = h[a - 1]
    BY <1>1
  <2> QED
    BY <2>1 DEF KeptStep
<1>5. <<>> \in C /\ rank \in [D -> 0..Len(s)]
  BY <1>1
<1>6. PICK f \in [D -> C] : Solves(f, step, D)
  <2> HIDE DEF D, C, rank, step
  <2> QED
    BY <1>1, <1>3, <1>4, <1>5, Recursion
<1>7. Is(f)
  <2>1. \A a \in D : f[a] = KeptStep(s, S, f, a)
    BY <1>6 DEF Solves
  <2> QED
    BY <2>1
<1>8. Kept(s, S) = CHOOSE k : Is(k)
  BY DEF Kept, KeptStep
<1>9. Is(Kept(s, S))
  <2> HIDE DEF Is
  <2> QED
    BY <1>7, <1>8
<1> QED
  BY <1>9

LEMMA SeqInduction ==
    ASSUME NEW S, NEW T, <<>> \in T,
           \A s \in Seq(S), e \in S : s \in T => Append(s, e) \in T
    PROVE  Seq(S) \subseteq T
<1> DEFINE N == {n \in Nat : \A s \in Seq(S) : Len(s) = n => s \in T}
<1>1. 0 \in N
  <2>1. \A s \in Seq(S) : Len(s) = 0 => s = <<>>
    BY EmptySeq
  <2> QED
    BY <2>1
<1>2. ASSUME NEW n \in Nat, n \in N PROVE n + 1 \in N
  <2> SUFFICES ASSUME NEW s \in Seq(S), Len(s) = n + 1 PROVE s \in T
    OBVIOUS
  <2>1. s # <<>>
    OBVIOUS
  <2>2. PICK t \in Seq(S), e \in S : s = Append(t, e)
    BY <2>1, SequenceEmptyOrAppend
  <2>3. Len(t) = n
    BY <2>2, AppendProperties
  <2> QED
    BY <1>2, <2>2, <2>3
<1>3. Nat \subseteq N
  <2> HIDE DEF N
  <2> QED
    BY <1>1, <1>2, Induction
<1> QED
  BY <1>3

LEMMA ThoseEmpty ==
    ASSUME NEW S PROVE Those(<<>>, S) = <<>>
<1>1. <<>> \in Seq({}) /\ Len(<<>>) = 0 /\ 0 \in 0..0
  OBVIOUS
<1>2. Kept(<<>>, S)[0] = KeptStep(<<>>, S, Kept(<<>>, S), 0)
  BY <1>1, KeptIs
<1> QED
  BY <1>1, <1>2 DEF Those, KeptStep

LEMMA ThoseAppend ==
    ASSUME NEW R, NEW s \in Seq(R), NEW x \in R, NEW S
    PROVE  Those(Append(s, x), S) = IF x \in S THEN Append(Those(s, S), x) ELSE Those(s, S)
<1> DEFINE t == Append(s, x)
           same == {i \in Nat : i <= Len(s) => Kept(t, S)[i] = Kept(s, S)[i]}
<1>1. t \in Seq(R) /\ Len(t) = Len(s) + 1 /\ t[Len(s) + 1] = x /\ Len(s) \in Nat
      /\ \A i \in 1..Len(s) : t[i] = s[i]
  BY AppendProperties
<1>2. /\ \A i \in 0..Len(s) : Kept(s, S)[i] = KeptStep(s, S, Kept(s, S), i)
      /\ \A i \in 0..Len(s) + 1 : Kept(t, S)[i] = KeptStep(t, S, Kept(t, S), i)
  <2> HIDE DEF t
  <2> QED
    BY <1>1, KeptIs
<1> HIDE DEF t
<1>3. 0 \in same
  BY <1>1, <1>2 DEF KeptStep
<1>4. ASSUME NEW n \in Nat, n \in same PROVE n + 1 \in same
  <2> SUFFICES ASSUME n + 1 <= Len(s) PROVE Kept(t, S)[n + 1] = Kept(s, S)[n + 1]
    OBVIOUS
  <2>1. n + 1 \in 0..Len(s) /\ n + 1 \in 0..Len(s) + 1 /\ n + 1 \in 1..Len(s) /\ n + 1 # 0 /\ n + 1 - 1 = n
    BY <1>1
  <2>2. Kept(t, S)[n] = Kept(s, S)[n] /\ t[n + 1] = s[n + 1]
    BY <1>1, <1>4, <2>1
  <2>3. Kept(t, S)[n + 1] = KeptStep(t, S, Kept(t, S), n + 1) /\ Kept(s, S)[n + 1] = KeptStep(s, S, Kept(s, S), n + 1)
    BY <1>2, <2>1
  <2> QED
    BY <2>1, <2>2, <2>3 DEF KeptStep
<1>5. Kept(t, S)[Len(s)] = Kept(s, S)[Len(s)]
  <2>1. Nat \subseteq same
    <3> HIDE DEF same
    <3> QED
      BY <1>3, <1>4, Induction
  <2> QED
    BY <1>1, <2>1
<1>6. Kept(t, S)[Len(s) + 1] = KeptStep(t, S, Kept(t, S), Len(s) + 1)
  BY <1>1, <1>2
<1>7. Len(s) + 1 # 0 /\ Len(s) + 1 - 1 = Len(s)
  BY <1>1
<1>8. Those(t, S) = IF x \in S THEN Append(Those(s, S), x) ELSE Those(s, S)
  BY <1>1, <1>5, <1>6, <1>7 DEF KeptStep, Those
<1> QED
  BY <1>8 DEF t

LEMMA ThoseType ==
    ASSUME NEW R, NEW S
    PROVE  \A s \in Seq(R) : Those(s, S) \in Seq(R \cap S) /\ Those(s, S) \in Seq(R)
<1> DEFINE T == {s \in Seq(R) : Those(s, S) \in Seq(R \cap S)}
<1>1. <<>> \in T
  BY ThoseEmpty, EmptySeq
<1>2. ASSUME NEW s \in Seq(R), NEW x \in R, s \in T PROVE Append(s, x) \in T
  <2>1. Those(Append(s, x), S) = IF x \in S THEN Append(Those(s, S), x) ELSE Those(s, S)
    BY ThoseAppend
  <2>2. x \in S => Append(Those(s, S), x) \in Seq(R \cap S)
    BY <1>2, AppendProperties
  <2>3. Append(s, x) \in Seq(R)
    BY AppendProperties
  <2> QED
    BY <1>2, <2>1, <2>2, <2>3
<1>3. Seq(R) \subseteq T
  <2> HIDE DEF T
  <2> QED
    BY <1>1, <1>2, SeqInduction
<1>4. ASSUME NEW u \in Seq(R \cap S) PROVE u \in Seq(R)
  BY SeqMonotonic
<1> QED
  BY <1>3, <1>4

LEMMA ThoseConcat ==
    ASSUME NEW R, NEW S, NEW s \in Seq(R)
    PROVE  \A t \in Seq(R) : Those(s \o t, S) = Those(s, S) \o Those(t, S)
<1> DEFINE T == {t \in Seq(R) : Those(s \o t, S) = Those(s, S) \o Those(t, S)}
<1>0. Those(s, S) \in Seq(R)
  BY ThoseType
<1>1. <<>> \in T
  BY <1>0, ThoseEmpty, ConcatEmptySeq
<1>2. ASSUME NEW t \in Seq(R), NEW x \in R, t \in T PROVE Append(t, x) \in T
  <2>1. s \o Append(t, x) = Append(s \o t, x) /\ s \o t \in Seq(R)
    OBVIOUS
  <2>2. Those(t, S) \in Seq(R)
    BY ThoseType
  <2>3. Those(s, S) \o Append(Those(t, S), x) = Append(Those(s, S) \o Those(t, S), x)
    BY <1>0, <2>2
  <2>4. Those(Append(s \o t, x), S) = IF x \in S THEN Append(Those(s \o t, S), x) ELSE Those(s \o t, S)
    BY <2>1, ThoseAppend
  <2>5. Those(Append(t, x), S) = IF x \in S THEN Append(Those(t, S), x) ELSE Those(t, S)
    BY ThoseAppend
  <2>6. Those(s \o Append(t, x), S) = Those(s, S) \o Those(Append(t, x), S)
    BY <1>2, <2>1, <2>3, <2>4, <2>5
  <2> QED
    BY <2>6
<1>3. Seq(R) \subseteq T
  <2> HIDE DEF T
  <2> QED
    BY <1>1, <1>2, SeqInduction
<1> QED
  BY <1>3

LEMMA ThoseSame ==
    ASSUME NEW R, NEW S, NEW T, \A x \in R : x \in S <=> x \in T
    PROVE  \A s \in Seq(R) : Those(s, S) = Those(s, T)
<1> DEFINE Q == {s \in Seq(R) : Those(s, S) = Those(s, T)}
<1>1. <<>> \in Q
  BY ThoseEmpty
<1>2. ASSUME NEW s \in Seq(R), NEW x \in R, s \in Q PROVE Append(s, x) \in Q
  <2>1. Those(Append(s, x), S) = Those(Append(s, x), T)
    <3>1. Those(Append(s, x), S) = IF x \in S THEN Append(Those(s, S), x) ELSE Those(s, S)
      BY ThoseAppend
    <3>2. Those(Append(s, x), T) = IF x \in T THEN Append(Those(s, T), x) ELSE Those(s, T)
      BY ThoseAppend
    <3> QED
      BY <1>2, <3>1, <3>2
  <2>2. Append(s, x) \in Seq(R)
    OBVIOUS
  <2> QED
    BY <2>1, <2>2
<1>3. Seq(R) \subseteq Q
  <2> HIDE DEF Q
  <2> QED
    BY <1>1, <1>2, SeqInduction
<1> QED
  BY <1>3

LEMMA ReverseIs ==
    ASSUME NEW R, NEW s \in Seq(R)
    PROVE  /\ Reverse(s) \in Seq(R) /\ Len(Reverse(s)) = Len(s)
           /\ \A i \in 1..Len(s) : Reverse(s)[i] = s[Len(s) + 1 - i]
<1>1. Len(s) \in Nat /\ \A i \in 1..Len(s) : Len(s) - i + 1 \in 1..Len(s) /\ s[Len(s) - i + 1] \in R
                      /\ Len(s) - i + 1 = Len(s) + 1 - i
  OBVIOUS
<1>2. Reverse(s) = [i \in 1..Len(s) |-> s[Len(s) - i + 1]]
  BY DEF Reverse
<1> QED
  BY <1>1, <1>2

LEMMA ReverseTwice ==
    ASSUME NEW R, NEW s \in Seq(R)
    PROVE  Reverse(Reverse(s)) = s
<1>1. Reverse(Reverse(s)) \in Seq(R) /\ Len(Reverse(Reverse(s))) = Len(s)
  BY ReverseIs
<1>2. ASSUME NEW i \in 1..Len(s) PROVE Reverse(Reverse(s))[i] = s[i]
  <2>1. Len(s) + 1 - i \in 1..Len(s) /\ Len(s) + 1 - (Len(s) + 1 - i) = i
    OBVIOUS
  <2>2. Reverse(s) \in Seq(R) /\ Len(Reverse(s)) = Len(s) /\ Reverse(s)[Len(s) + 1 - i] = s[i]
    BY <2>1, ReverseIs
  <2>3. Reverse(Reverse(s))[i] = Reverse(s)[Len(s) + 1 - i]
    BY <2>2, ReverseIs
  <2> QED
    BY <2>2, <2>3
<1> QED
  BY <1>1, <1>2, SeqEqual

LEMMA ReverseConcat ==
    ASSUME NEW R, NEW s \in Seq(R), NEW t \in Seq(R)
    PROVE  Reverse(s \o t) = Reverse(t) \o Reverse(s)
<1>1. s \o t \in Seq(R) /\ Len(s \o t) = Len(s) + Len(t) /\ Len(s) \in Nat /\ Len(t) \in Nat
  OBVIOUS
<1>2. /\ Reverse(s \o t) \in Seq(R) /\ Len(Reverse(s \o t)) = Len(s) + Len(t)
      /\ Reverse(s) \in Seq(R) /\ Len(Reverse(s)) = Len(s)
      /\ Reverse(t) \in Seq(R) /\ Len(Reverse(t)) = Len(t)
  BY <1>1, ReverseIs
<1>3. /\ Reverse(t) \o Reverse(s) \in Seq(R) /\ Len(Reverse(t) \o Reverse(s)) = Len(s) + Len(t)
  <2>1. Len(Reverse(t) \o Reverse(s)) = Len(Reverse(t)) + Len(Reverse(s))
    BY <1>2, ConcatProperties
  <2>2. Len(t) + Len(s) = Len(s) + Len(t)
    BY <1>1
  <2> QED
    BY <1>2, <2>1, <2>2, ConcatProperties
<1>4. ASSUME NEW i \in 1..(Len(s) + Len(t))
      PROVE  Reverse(s \o t)[i] = (Reverse(t) \o Reverse(s))[i]
  <2>1. Reverse(s \o t)[i] = (s \o t)[Len(s) + Len(t) + 1 - i]
    <3> DEFINE u == s \o t
    <3>1. u \in Seq(R) /\ Len(u) = Len(s) + Len(t)
      BY <1>1
    <3> HIDE DEF u
    <3>2. Reverse(u)[i] = u[Len(u) + 1 - i]
      BY <3>1, ReverseIs
    <3> QED
      BY <3>1, <3>2 DEF u
  <2>2. CASE i <= Len(t)
    <3>1. (Reverse(t) \o Reverse(s))[i] = Reverse(t)[i]
      BY <1>1, <1>2, <2>2
    <3>2. Reverse(t)[i] = t[Len(t) + 1 - i]
      BY <1>1, <2>2, ReverseIs
    <3>3. (s \o t)[Len(s) + Len(t) + 1 - i] = t[Len(s) + Len(t) + 1 - i - Len(s)]
      BY <1>1, <2>2
    <3>4. Len(s) + Len(t) + 1 - i - Len(s) = Len(t) + 1 - i
      BY <1>1
    <3> QED
      BY <2>1, <3>1, <3>2, <3>3, <3>4
  <2>3. CASE i > Len(t)
    <3>1. (Reverse(t) \o Reverse(s))[i] = Reverse(s)[i - Len(t)]
      BY <1>1, <1>2, <2>3
    <3>2. Reverse(s)[i - Len(t)] = s[Len(s) + 1 - (i - Len(t))]
      BY <1>1, <2>3, ReverseIs
    <3>3. (s \o t)[Len(s) + Len(t) + 1 - i] = s[Len(s) + Len(t) + 1 - i]
      BY <1>1, <2>3
    <3>4. Len(s) + Len(t) + 1 - i = Len(s) + 1 - (i - Len(t))
      BY <1>1
    <3> QED
      BY <2>1, <3>1, <3>2, <3>3, <3>4
  <2>4. i <= Len(t) \/ i > Len(t)
    BY <1>1
  <2> QED
    BY <2>2, <2>3, <2>4
<1> QED
  BY <1>1, <1>2, <1>3, <1>4, SeqEqual

LEMMA ReverseSmall ==
    /\ Reverse(<<>>) = <<>>
    /\ \A x : Reverse(<<x>>) = <<x>>
<1>1. Reverse(<<>>) = <<>>
  <2>1. <<>> \in Seq({}) /\ Len(<<>>) = 0
    OBVIOUS
  <2>2. Reverse(<<>>) \in Seq({}) /\ Len(Reverse(<<>>)) = 0
    BY <2>1, ReverseIs
  <2> QED
    BY <2>2, EmptySeq
<1>2. ASSUME NEW x PROVE Reverse(<<x>>) = <<x>>
  <2>1. <<x>> \in Seq({x}) /\ Len(<<x>>) = 1 /\ <<x>>[1] = x
    OBVIOUS
  <2>2. Reverse(<<x>>) \in Seq({x}) /\ Len(Reverse(<<x>>)) = 1 /\ Reverse(<<x>>)[1] = <<x>>[1]
    BY <2>1, ReverseIs
  <2> QED
    BY <2>1, <2>2, SeqEqual
<1> QED
  BY <1>1, <1>2

LEMMA ThoseReverse ==
    ASSUME NEW R, NEW S
    PROVE  \A s \in Seq(R) : Those(Reverse(s), S) = Reverse(Those(s, S))
<1> DEFINE T == {s \in Seq(R) : Those(Reverse(s), S) = Reverse(Those(s, S))}
<1>1. <<>> \in T
  BY ThoseEmpty, ReverseSmall
<1>2. ASSUME NEW s \in Seq(R), NEW x \in R, s \in T PROVE Append(s, x) \in T
  <2>1. Append(s, x) = s \o <<x>> /\ <<x>> \in Seq(R) /\ Append(s, x) \in Seq(R)
    OBVIOUS
  <2>2. Reverse(Append(s, x)) = <<x>> \o Reverse(s) /\ Reverse(s) \in Seq(R)
    BY <2>1, ReverseConcat, ReverseSmall, ReverseIs
  <2>3. Those(Append(s, x), S) = Those(s, S) \o Those(<<x>>, S)
    BY <2>1, ThoseConcat
  <2>4. Those(Reverse(Append(s, x)), S) = Those(<<x>>, S) \o Those(Reverse(s), S)
    BY <2>1, <2>2, ThoseConcat
  <2>5. Those(s, S) \in Seq(R) /\ Those(<<x>>, S) \in Seq(R)
    BY <2>1, ThoseType
  <2>6. Those(<<x>>, S) = IF x \in S THEN <<x>> ELSE <<>>
    <3>1. <<x>> = Append(<<>>, x) /\ <<>> \in Seq(R)
      OBVIOUS
    <3>2. Those(Append(<<>>, x), S) = IF x \in S THEN Append(Those(<<>>, S), x) ELSE Those(<<>>, S)
      BY <3>1, ThoseAppend
    <3> QED
      BY <3>1, <3>2, ThoseEmpty
  <2>7. Reverse(Those(<<x>>, S)) = Those(<<x>>, S)
    BY <2>6, ReverseSmall
  <2>8. Reverse(Those(s, S) \o Those(<<x>>, S)) = Those(<<x>>, S) \o Reverse(Those(s, S))
    BY <2>5, <2>7, ReverseConcat
  <2>9. Those(Reverse(Append(s, x)), S) = Reverse(Those(Append(s, x), S))
    BY <1>2, <2>3, <2>4, <2>8
  <2> QED
    BY <2>1, <2>9
<1>3. Seq(R) \subseteq T
  <2> HIDE DEF T
  <2> QED
    BY <1>1, <1>2, SeqInduction
<1> QED
  BY <1>3

-----------------------------------------------------------------------------
(* PI's records are a tree: ids are their own, and a parent comes before.  *)
JournalRecord == [id : Nat, parent : Nat, shown : BOOLEAN, readable : BOOLEAN]

IsTree(records) ==
    /\ records \in Seq(JournalRecord)
    /\ \A j, k \in DOMAIN records : records[j].id = records[k].id /\ records[j].id # 0 => j = k
    /\ \A j, k \in DOMAIN records : records[j].id # 0 /\ records[k].parent = records[j].id => j < k

LEMMA TreeIs ==
    ASSUME NEW records, IsTree(records)
    PROVE  /\ Len(records) \in Nat /\ DOMAIN records = 1..Len(records)
           /\ \A k \in 1..Len(records) : records[k].id \in Nat /\ records[k].parent \in Nat
<1>1. records \in Seq(JournalRecord)
  BY DEF IsTree
<1>2. Len(records) \in Nat /\ DOMAIN records = 1..Len(records)
  BY <1>1, LenProperties
<1>3. \A k \in 1..Len(records) : records[k] \in JournalRecord
  BY <1>1, ElementOfSeq
<1> QED
  BY <1>2, <1>3 DEF JournalRecord

(* An id has at most one record, which is 0 when it has none. *)
LEMMA WithIdIs ==
    ASSUME NEW records, IsTree(records), NEW t \in Nat
    PROVE  /\ WithId(records, t) \in 0..Len(records)
           /\ WithId(records, t) # 0 => t # 0 /\ records[WithId(records, t)].id = t
           /\ \A k \in 1..Len(records) : t # 0 /\ records[k].id = t => WithId(records, t) = k
<1> DEFINE ks == {k \in Numbered(records) : records[k].id = t}
<1>1. ks \subseteq 1..Len(records) /\ Len(records) \in Nat
  BY TreeIs DEF Numbered
<1>2. CASE ks = {}
  <2>1. WithId(records, t) = 0
    BY <1>2 DEF WithId, WrittenLast
  <2>2. \A k \in 1..Len(records) : ~(t # 0 /\ records[k].id = t)
    BY <1>2, TreeIs DEF Numbered
  <2> QED
    BY <1>1, <2>1, <2>2
<1>3. CASE ks # {}
  <2>1. PICK k \in ks : TRUE
    BY <1>3
  <2>2. \A j \in ks : j = k
    BY <1>1, <2>1, TreeIs DEF Numbered, IsTree
  <2>3. k \in 1..Len(records) /\ records[k].id = t /\ t # 0
    BY <1>1, <2>1 DEF Numbered
  <2>4. (CHOOSE i \in ks : \A j \in ks : j <= i) = k
    <3>1. k \in ks /\ \A j \in ks : j <= k
      BY <1>1, <2>1, <2>2
    <3> HIDE DEF ks
    <3> QED
      BY <2>2, <3>1
  <2>5. WithId(records, t) = k
    BY <1>3, <2>4 DEF WithId, WrittenLast
  <2>6. \A i \in 1..Len(records) : t # 0 /\ records[i].id = t => i = k
    BY <2>2, TreeIs DEF Numbered
  <2> QED
    BY <2>3, <2>5, <2>6
<1> QED
  BY <1>2, <1>3

LEMMA ParentIsBefore ==
    ASSUME NEW records, IsTree(records), NEW k \in 1..Len(records)
    PROVE  /\ WithId(records, records[k].parent) \in 0..(k - 1)
           /\ WithId(records, records[k].id) \in {0, k}
           /\ records[k].id # 0 => WithId(records, records[k].id) = k
<1>1. records[k].parent \in Nat /\ records[k].id \in Nat /\ Len(records) \in Nat
      /\ DOMAIN records = 1..Len(records)
  BY TreeIs
<1> DEFINE j == WithId(records, records[k].parent)
<1>2. /\ j \in 0..Len(records)
      /\ j # 0 => records[k].parent # 0 /\ records[j].id = records[k].parent
  BY <1>1, WithIdIs
<1> HIDE DEF j
<1>3. j # 0 => j < k
  BY <1>1, <1>2 DEF IsTree
<1>4. j \in 0..(k - 1)
  BY <1>1, <1>2, <1>3
<1>5. WithId(records, records[k].id) \in {0, k} /\ (records[k].id # 0 => WithId(records, records[k].id) = k)
  BY <1>1, WithIdIs
<1> QED
  BY <1>4, <1>5 DEF j

PathStep(records, path, k) == IF k = 0 THEN <<>> ELSE Append(path[WithId(records, records[k].parent)], k)

LEMMA PathsAre ==
    ASSUME NEW records, IsTree(records)
    PROVE  \A k \in 0..Len(records) : Paths(records)[k] = PathStep(records, Paths(records), k)
<1> DEFINE D == 0..Len(records)
           C == Seq(Nat)
           rank == [k \in D |-> k]
           step == [x \in D \X [D -> C] |-> PathStep(records, x[2], x[1])]
           Is(p) == p = [k \in D |-> PathStep(records, p, k)]
<1>1. Len(records) \in Nat
  BY TreeIs
<1>2. ASSUME NEW k \in D, k # 0
      PROVE  WithId(records, records[k].parent) \in D /\ WithId(records, records[k].parent) < k /\ k \in Nat
  <2>1. k \in 1..Len(records)
    BY <1>1, <1>2
  <2> QED
    BY <1>1, <2>1, ParentIsBefore
<1>3. ASSUME NEW k \in D, NEW g \in [D -> C]
      PROVE  PathStep(records, g, k) \in C
  <2>1. CASE k = 0
    BY <2>1 DEF PathStep
  <2>2. CASE k # 0
    <3>1. g[WithId(records, records[k].parent)] \in Seq(Nat) /\ k \in Nat
      BY <1>2, <2>2
    <3> QED
      BY <2>2, <3>1 DEF PathStep
  <2> QED
    BY <2>1, <2>2
<1>4. step \in [D \X [D -> C] -> C]
  BY <1>3
<1>5. LooksBelow(step, rank, D, C)
  <2> SUFFICES ASSUME NEW a \in D, NEW g \in [D -> C], NEW h \in [D -> C],
                      \A b \in D : rank[b] < rank[a] => g[b] = h[b]
               PROVE  PathStep(records, g, a) = PathStep(records, h, a)
    BY DEF LooksBelow
  <2>1. a # 0 => g[WithId(records, records[a].parent)] = h[WithId(records, records[a].parent)]
    BY <1>2
  <2> QED
    BY <2>1 DEF PathStep
<1>6. <<>> \in C /\ rank \in [D -> 0..Len(records)]
  BY <1>1
<1>7. PICK f \in [D -> C] : Solves(f, step, D)
  <2> HIDE DEF D, C, rank, step
  <2> QED
    BY <1>1, <1>4, <1>5, <1>6, Recursion
<1>8. Is(f)
  <2>1. \A a \in D : f[a] = PathStep(records, f, a)
    BY <1>7 DEF Solves
  <2> QED
    BY <2>1
<1>9. Paths(records) = CHOOSE p : Is(p)
  BY DEF Paths, PathStep
<1>10. Is(Paths(records))
  <2> HIDE DEF Is
  <2> QED
    BY <1>8, <1>9
<1> QED
  BY <1>10

(* A path ends at its record, goes up in the file, and each part of it is  *)
(* the path of a parent.                                                   *)
IsPath(records, k) ==
    LET path == Paths(records)[k]
    IN /\ path \in Seq(1..k)
       /\ k # 0 => path # <<>> /\ path[Len(path)] = k
       /\ \A i \in 1..Len(path) :
            Paths(records)[WithId(records, records[path[i]].parent)] = SubSeq(path, 1, i - 1)

LEMMA PathIs ==
    ASSUME NEW records, IsTree(records)
    PROVE  \A k \in 0..Len(records) : IsPath(records, k)
<1> DEFINE T == {n \in Nat : \A k \in 0..Len(records) : k < n => IsPath(records, k)}
<1>0. Len(records) \in Nat
  BY TreeIs
<1>1. 0 \in T
  BY <1>0
<1>2. ASSUME NEW n \in Nat, n \in T PROVE n + 1 \in T
  <2> SUFFICES ASSUME n \in 0..Len(records) PROVE IsPath(records, n)
    BY <1>2, <1>0
  <2>1. CASE n = 0
    <3>1. Paths(records)[n] = <<>>
      BY <1>0, <2>1, PathsAre DEF PathStep
    <3> QED
      BY <2>1, <3>1 DEF IsPath
  <2>2. CASE n # 0
    <3> DEFINE q == WithId(records, records[n].parent)
               p == Paths(records)[q]
               path == Paths(records)[n]
    <3>1. n \in 1..Len(records) /\ q \in 0..(n - 1)
      BY <2>2, <1>0, ParentIsBefore
    <3>2. path = Append(p, n)
      BY <2>2, PathsAre DEF PathStep
    <3>3. IsPath(records, q)
      BY <1>0, <1>2, <3>1
    <3>4. p \in Seq(1..q)
      BY <3>3 DEF IsPath
    <3>5. p \in Seq(1..n) /\ n \in 1..n
      <4>1. 1..q \subseteq 1..n /\ n \in 1..n
        BY <3>1
      <4> QED
        BY <3>4, <4>1, SeqMonotonic
    <3> HIDE DEF p, path, q
    <3>6. /\ path \in Seq(1..n) /\ path # <<>> /\ Len(path) = Len(p) + 1 /\ path[Len(p) + 1] = n
          /\ \A i \in 1..Len(p) : path[i] = p[i]
          /\ Len(p) \in Nat
      BY <3>2, <3>5, AppendProperties
    <3>7. ASSUME NEW i \in 1..Len(path)
          PROVE  Paths(records)[WithId(records, records[path[i]].parent)] = SubSeq(path, 1, i - 1)
      <4>1. CASE i = Len(p) + 1
        <5>1. SubSeq(path, 1, Len(p)) = p
          <6>1. SubSeq(path, 1, Len(p)) \in Seq(1..n) /\ Len(SubSeq(path, 1, Len(p))) = Len(p)
                /\ \A j \in 1..Len(p) : SubSeq(path, 1, Len(p))[j] = p[j]
            BY <3>6
          <6> QED
            BY <3>5, <6>1, SeqEqual
        <5>2. i - 1 = Len(p) /\ path[i] = n
          BY <3>6, <4>1
        <5> QED
          BY <5>1, <5>2 DEF q, p
      <4>2. CASE i # Len(p) + 1
        <5>1. i \in 1..Len(p) /\ path[i] = p[i]
          BY <3>6, <4>2
        <5>2. Paths(records)[WithId(records, records[p[i]].parent)] = SubSeq(p, 1, i - 1)
          BY <3>3, <5>1 DEF IsPath, p
        <5>3. SubSeq(p, 1, i - 1) = SubSeq(path, 1, i - 1)
          <6>1. /\ SubSeq(path, 1, i - 1) \in Seq(1..n) /\ Len(SubSeq(path, 1, i - 1)) = i - 1
                /\ \A j \in 1..(i - 1) : SubSeq(path, 1, i - 1)[j] = path[j]
            BY <3>6, <5>1
          <6>2. /\ SubSeq(p, 1, i - 1) \in Seq(1..n) /\ Len(SubSeq(p, 1, i - 1)) = i - 1
                /\ \A j \in 1..(i - 1) : SubSeq(p, 1, i - 1)[j] = p[j]
            BY <3>5, <5>1
          <6>3. \A j \in 1..(i - 1) : path[j] = p[j]
            BY <3>6, <5>1
          <6> QED
            BY <6>1, <6>2, <6>3, SeqEqual
        <5> QED
          BY <5>1, <5>2, <5>3
      <4> QED
        BY <4>1, <4>2
    <3> QED
      BY <3>6, <3>7 DEF IsPath, path
  <2> QED
    BY <2>1, <2>2
<1>3. Nat \subseteq T
  <2> HIDE DEF T
  <2> QED
    BY <1>1, <1>2, Induction
<1> QED
  <2>1. Len(records) + 1 \in T
    <3>1. Len(records) + 1 \in Nat
      BY <1>0
    <3> HIDE DEF T
    <3> QED
      BY <1>3, <3>1
  <2> QED
    BY <1>0, <2>1

WalkBackStep(records, walk, at) ==
    IF at[1] = 0 \/ at[2] = 0 THEN <<>>
    ELSE IF records[at[1]].id = at[2] THEN <<at[1]>> \o walk[<<at[1] - 1, records[at[1]].parent>>]
    ELSE walk[<<at[1] - 1, at[2]>>]

LEMMA WalkBackIs ==
    ASSUME NEW records, IsTree(records)
    PROVE  \A at \in (0..Len(records)) \X Nat : WalkBack(records)[at] = WalkBackStep(records, WalkBack(records), at)
<1> DEFINE D == (0..Len(records)) \X Nat
           C == Seq(Nat)
           rank == [at \in D |-> at[1]]
           step == [x \in D \X [D -> C] |-> WalkBackStep(records, x[2], x[1])]
           Is(w) == w = [at \in D |-> WalkBackStep(records, w, at)]
<1>1. Len(records) \in Nat
  BY TreeIs
<1>2. ASSUME NEW at \in D, at[1] # 0
      PROVE  /\ <<at[1] - 1, records[at[1]].parent>> \in D /\ <<at[1] - 1, at[2]>> \in D
             /\ at[1] \in Nat /\ at[1] - 1 < at[1]
  <2>1. at[1] \in 1..Len(records) /\ at[2] \in Nat
    BY <1>1, <1>2
  <2>2. records[at[1]].parent \in Nat
    BY <2>1, TreeIs
  <2> QED
    BY <1>1, <2>1, <2>2
<1>3. ASSUME NEW at \in D, NEW g \in [D -> C]
      PROVE  WalkBackStep(records, g, at) \in C
  <2>1. CASE at[1] = 0
    BY <2>1 DEF WalkBackStep
  <2>2. CASE at[1] # 0
    <3> DEFINE b == <<at[1] - 1, records[at[1]].parent>>
               c == <<at[1] - 1, at[2]>>
    <3>1. b \in D /\ c \in D /\ at[1] \in Nat
      BY <1>2, <2>2
    <3>2. g[b] \in Seq(Nat) /\ g[c] \in Seq(Nat)
      BY <3>1
    <3>3. <<at[1]>> \o g[b] \in Seq(Nat)
      BY <3>1, <3>2
    <3> QED
      BY <3>2, <3>3 DEF WalkBackStep
  <2> QED
    BY <2>1, <2>2
<1>4. step \in [D \X [D -> C] -> C]
  BY <1>3
<1>11. \A a \in D, g \in [D -> C] : step[<<a, g>>] = WalkBackStep(records, g, a)
  OBVIOUS
<1>5. LooksBelow(step, rank, D, C)
  <2> SUFFICES ASSUME NEW a \in D, NEW g \in [D -> C], NEW h \in [D -> C],
                      \A b \in D : rank[b] < rank[a] => g[b] = h[b]
               PROVE  WalkBackStep(records, g, a) = WalkBackStep(records, h, a)
    <3> HIDE DEF D, C, rank, step
    <3> QED
      BY <1>11 DEF LooksBelow
  <2>1. CASE a[1] = 0
    BY <2>1 DEF WalkBackStep
  <2>2. CASE a[1] # 0
    <3> DEFINE b == <<a[1] - 1, records[a[1]].parent>>
               c == <<a[1] - 1, a[2]>>
    <3>1. b \in D /\ c \in D /\ rank[b] < rank[a] /\ rank[c] < rank[a]
      BY <1>2, <2>2
    <3>2. g[b] = h[b] /\ g[c] = h[c]
      BY <3>1
    <3> QED
      BY <3>2 DEF WalkBackStep
  <2> QED
    BY <2>1, <2>2
<1>6. <<>> \in C /\ rank \in [D -> 0..Len(records)]
  BY <1>1
<1>7. PICK f \in [D -> C] : Solves(f, step, D)
  <2> HIDE DEF D, C, rank, step
  <2> QED
    BY <1>1, <1>4, <1>5, <1>6, Recursion
<1>8. Is(f)
  <2>1. \A a \in D : f[a] = WalkBackStep(records, f, a)
    BY <1>7 DEF Solves
  <2> QED
    BY <2>1
<1>9. WalkBack(records) = CHOOSE w : Is(w)
  BY DEF WalkBack, WalkBackStep
<1>10. Is(WalkBack(records))
  <2> HIDE DEF Is
  <2> QED
    BY <1>8, <1>9
<1> QED
  BY <1>10

LEMMA WalkFollowsThePath ==
    ASSUME NEW records, IsTree(records)
    PROVE  \A k \in 0..Len(records), t \in Nat :
             WalkBack(records)[<<k, t>>] = IF WithId(records, t) \in 1..k
                                           THEN Reverse(Paths(records)[WithId(records, t)]) ELSE <<>>
<1> DEFINE Walked(k, t) == IF WithId(records, t) \in 1..k
                           THEN Reverse(Paths(records)[WithId(records, t)]) ELSE <<>>
           T == {k \in Nat : k <= Len(records) =>
                               \A t \in Nat : WalkBack(records)[<<k, t>>] = Walked(k, t)}
<1>0. Len(records) \in Nat
  BY TreeIs
<1>1. 0 \in T
  <2> SUFFICES ASSUME NEW t \in Nat PROVE WalkBack(records)[<<0, t>>] = <<>>
    OBVIOUS
  <2>1. <<0, t>> \in (0..Len(records)) \X Nat
    BY <1>0
  <2> QED
    BY <2>1, WalkBackIs DEF WalkBackStep
<1>2. ASSUME NEW k \in Nat, k \in T PROVE k + 1 \in T
  <2> SUFFICES ASSUME k + 1 <= Len(records), NEW t \in Nat
               PROVE  WalkBack(records)[<<k + 1, t>>] = Walked(k + 1, t)
    OBVIOUS
  <2>1. <<k + 1, t>> \in (0..Len(records)) \X Nat /\ k + 1 \in 1..Len(records) /\ k + 1 # 0 /\ k + 1 - 1 = k
        /\ k \in 0..Len(records)
    BY <1>0
  <2>2. WalkBack(records)[<<k + 1, t>>] = WalkBackStep(records, WalkBack(records), <<k + 1, t>>)
    BY <2>1, WalkBackIs
  <2>3. \A u \in Nat : WalkBack(records)[<<k, u>>] = Walked(k, u)
    BY <1>2, <2>1
  <2> HIDE DEF T
  <2>4. CASE t = 0
    <3>1. WithId(records, t) = 0
      BY <2>4, WithIdIs
    <3> QED
      BY <2>2, <2>4, <3>1 DEF WalkBackStep
  <2>5. CASE t # 0 /\ records[k + 1].id = t
    <3> DEFINE u == records[k + 1].parent
               q == WithId(records, u)
    <3>1. WithId(records, t) = k + 1 /\ u \in Nat /\ q \in 0..k
      BY <2>1, <2>5, ParentIsBefore, TreeIs
    <3>2. Paths(records)[k + 1] = Append(Paths(records)[q], k + 1)
      BY <2>1, PathsAre DEF PathStep
    <3>3. WalkBack(records)[<<k + 1, t>>] = <<k + 1>> \o WalkBack(records)[<<k, u>>]
      <4> DEFINE at == <<k + 1, t>>
      <4>1. at[1] = k + 1 /\ at[2] = t /\ at = <<k + 1, t>>
        OBVIOUS
      <4> HIDE DEF at
      <4>2. WalkBackStep(records, WalkBack(records), at) = <<at[1]>> \o WalkBack(records)[<<at[1] - 1, records[at[1]].parent>>]
        BY <2>1, <2>5, <4>1 DEF WalkBackStep
      <4>3. <<at[1]>> = <<k + 1>> /\ <<at[1] - 1, records[at[1]].parent>> = <<k, u>>
        BY <2>1, <4>1
      <4> QED
        BY <2>2, <4>1, <4>2, <4>3
    <3>4. WalkBack(records)[<<k, u>>] = Walked(k, u)
      BY <2>3, <3>1
    <3>5. IsPath(records, q) /\ q \in 0..Len(records)
      BY <2>1, <1>0, <3>1, PathIs
    <3>6. Paths(records)[q] \in Seq(Nat)
      <4>1. 1..q \subseteq Nat /\ Paths(records)[q] \in Seq(1..q)
        <5> HIDE DEF q
        <5> QED
          BY <3>1, <3>5 DEF IsPath
      <4> QED
        BY <4>1, SeqMonotonic
    <3>7. Walked(k, u) = Reverse(Paths(records)[q])
      <4>1. CASE q = 0
        <5>1. Paths(records)[q] = <<>>
          BY <1>0, <4>1, PathsAre DEF PathStep
        <5> QED
          BY <4>1, <5>1, ReverseSmall
      <4>2. CASE q # 0
        BY <3>1, <4>2
      <4> QED
        BY <4>1, <4>2
    <3>8. Reverse(Append(Paths(records)[q], k + 1)) = <<k + 1>> \o Reverse(Paths(records)[q])
      <4>1. <<k + 1>> \in Seq(Nat) /\ Append(Paths(records)[q], k + 1) = Paths(records)[q] \o <<k + 1>>
        BY <3>6
      <4> QED
        BY <3>6, <4>1, ReverseConcat, ReverseSmall
    <3>9. Walked(k + 1, t) = Reverse(Paths(records)[k + 1])
      BY <3>1
    <3> QED
      BY <3>2, <3>3, <3>4, <3>7, <3>8, <3>9
  <2>6. CASE t # 0 /\ records[k + 1].id # t
    <3>1. WalkBack(records)[<<k + 1, t>>] = WalkBack(records)[<<k, t>>]
      BY <2>1, <2>2, <2>6 DEF WalkBackStep
    <3>2. WithId(records, t) # k + 1 /\ WithId(records, t) \in 0..Len(records)
      BY <2>6, <2>1, WithIdIs
    <3>3. WithId(records, t) \in 1..(k + 1) <=> WithId(records, t) \in 1..k
      BY <3>2, <1>0
    <3> QED
      BY <2>3, <3>1, <3>3
  <2> QED
    BY <2>4, <2>5, <2>6
<1>3. Nat \subseteq T
  <2> HIDE DEF T
  <2> QED
    BY <1>1, <1>2, Induction
<1>4. ASSUME NEW k \in 0..Len(records), NEW t \in Nat
      PROVE  WalkBack(records)[<<k, t>>] = Walked(k, t)
  <2>1. k \in T
    <3> HIDE DEF T
    <3> QED
      BY <1>0, <1>3
  <2> QED
    BY <1>0, <2>1
<1> QED
  BY <1>4

(* What is shown of a branch, down from its record. *)
ShownPath(records, k) == ShownOf(records, Paths(records)[k])

Leads(records, s, S) ==
    \A i \in 1..Len(s) :
        Those(Paths(records)[WithId(records, records[s[i]].parent)], S) = SubSeq(s, 1, i - 1)

LEMMA ShownPathIs ==
    ASSUME NEW records, IsTree(records), NEW k \in 0..Len(records)
    PROVE  /\ ShownPath(records, k) \in Seq(1..k)
           /\ k = 0 => ShownPath(records, k) = <<>>
           /\ \A i \in 1..Len(ShownPath(records, k)) :
                LET r == ShownPath(records, k)[i]
                IN ShownPath(records, WithId(records, records[r].parent))
                     = SubSeq(ShownPath(records, k), 1, i - 1)
<1> DEFINE S == {j \in DOMAIN records : records[j].shown}
           showing == ShownPath(records, k)
           path == Paths(records)[k]
           T == {n \in Nat : n <= Len(path) => Leads(records, Those(SubSeq(path, 1, n), S), S)}
<1>0. path \in Seq(1..k) /\ IsPath(records, k) /\ Len(path) \in Nat
  <2>1. IsPath(records, k)
    BY PathIs
  <2>2. path \in Seq(1..k)
    BY <2>1 DEF IsPath
  <2> HIDE DEF path
  <2> QED
    BY <2>1, <2>2
<1>1. 0 \in T
  <2>1. SubSeq(path, 1, 0) = <<>>
    BY SubSeqEmpty
  <2>2. Those(SubSeq(path, 1, 0), S) = <<>>
    BY <2>1, ThoseEmpty
  <2>3. Len(Those(SubSeq(path, 1, 0), S)) = 0
    BY <2>2
  <2>4. Leads(records, Those(SubSeq(path, 1, 0), S), S)
    BY <2>3 DEF Leads
  <2> QED
    BY <2>4
<1>2. ASSUME NEW n \in Nat, n \in T PROVE n + 1 \in T
  <2> SUFFICES ASSUME n + 1 <= Len(path)
               PROVE  Leads(records, Those(SubSeq(path, 1, n + 1), S), S)
    OBVIOUS
  <2> DEFINE front == SubSeq(path, 1, n)
             x == path[n + 1]
             kept == Those(front, S)
  <2>1. SubSeq(path, 1, n + 1) = Append(front, x) /\ front \in Seq(1..k) /\ x \in 1..k
    <3> HIDE DEF path
    <3>1. front \in Seq(1..k) /\ Len(front) = n /\ \A j \in 1..n : front[j] = path[j]
      BY <1>0
    <3>2. x \in 1..k
      BY <1>0
    <3>3. SubSeq(path, 1, n + 1) \in Seq(1..k) /\ Len(SubSeq(path, 1, n + 1)) = n + 1
          /\ \A j \in 1..(n + 1) : SubSeq(path, 1, n + 1)[j] = path[j]
      BY <1>0
    <3> HIDE DEF front, x
    <3>4. Append(front, x) \in Seq(1..k) /\ Len(Append(front, x)) = n + 1
          /\ \A j \in 1..(n + 1) : Append(front, x)[j] = IF j = n + 1 THEN x ELSE front[j]
      BY <3>1, <3>2
    <3>5. \A j \in 1..(n + 1) : Append(front, x)[j] = SubSeq(path, 1, n + 1)[j]
      BY <3>1, <3>3, <3>4 DEF x
    <3>6. SubSeq(path, 1, n + 1) = Append(front, x)
      BY <3>3, <3>4, <3>5, SeqEqual
    <3> QED
      BY <3>1, <3>2, <3>6
  <2>2. Paths(records)[WithId(records, records[x].parent)] = front
    <3>1. n + 1 \in 1..Len(path) /\ n + 1 - 1 = n
      BY <1>0
    <3> QED
      BY <1>0, <3>1 DEF IsPath
  <2>3. kept \in Seq(1..k)
    BY <2>1, ThoseType
  <2>4. Those(Append(front, x), S) = IF x \in S THEN Append(kept, x) ELSE kept
    <3> DEFINE R == 1..k
    <3>1. front \in Seq(R) /\ x \in R
      BY <2>1
    <3> HIDE DEF front, x, S, R
    <3> QED
      BY <3>1, ThoseAppend DEF kept
  <2>5. \A i \in 1..Len(kept) : Those(Paths(records)[WithId(records, records[kept[i]].parent)], S) = SubSeq(kept, 1, i - 1)
    <3>1. n <= Len(path)
      BY <1>0
    <3> QED
      BY <1>2, <3>1 DEF Leads
  <2> HIDE DEF path, front, x, kept, S, T
  <2>6. CASE x \in S
    <3>1. /\ Len(Append(kept, x)) = Len(kept) + 1 /\ Append(kept, x)[Len(kept) + 1] = x
          /\ \A j \in 1..Len(kept) : Append(kept, x)[j] = kept[j]
          /\ Len(kept) \in Nat
      BY <2>1, <2>3, AppendProperties
    <3>2. ASSUME NEW i \in 1..(Len(kept) + 1)
          PROVE  SubSeq(Append(kept, x), 1, i - 1) = SubSeq(kept, 1, i - 1)
      <4>1. /\ SubSeq(Append(kept, x), 1, i - 1) \in Seq(1..k) /\ Len(SubSeq(Append(kept, x), 1, i - 1)) = i - 1
            /\ \A j \in 1..(i - 1) : SubSeq(Append(kept, x), 1, i - 1)[j] = Append(kept, x)[j]
        <5>1. Append(kept, x) \in Seq(1..k)
          BY <2>1, <2>3, AppendProperties
        <5> QED
          BY <3>1, <5>1
      <4>2. /\ SubSeq(kept, 1, i - 1) \in Seq(1..k) /\ Len(SubSeq(kept, 1, i - 1)) = i - 1
            /\ \A j \in 1..(i - 1) : SubSeq(kept, 1, i - 1)[j] = kept[j]
        BY <2>3, <3>1
      <4>3. \A j \in 1..(i - 1) : Append(kept, x)[j] = kept[j]
        BY <3>1
      <4> QED
        BY <4>1, <4>2, <4>3, SeqEqual
    <3>3. SubSeq(kept, 1, Len(kept)) = kept
      BY <2>3, SubSeqFull
    <3>4. ASSUME NEW i \in 1..(Len(kept) + 1)
          PROVE  Those(Paths(records)[WithId(records, records[Append(kept, x)[i]].parent)], S)
                   = SubSeq(Append(kept, x), 1, i - 1)
      <4>1. CASE i = Len(kept) + 1
        <5>1. i - 1 = Len(kept) /\ Append(kept, x)[i] = x
          BY <3>1, <4>1
        <5>2. SubSeq(Append(kept, x), 1, i - 1) = kept
          BY <3>2, <3>3, <5>1
        <5> QED
          BY <2>2, <5>1, <5>2 DEF kept
      <4>2. CASE i # Len(kept) + 1
        <5>1. i \in 1..Len(kept) /\ Append(kept, x)[i] = kept[i]
          BY <3>1, <4>2
        <5> QED
          BY <2>5, <3>2, <5>1
      <4> QED
        BY <4>1, <4>2
    <3> QED
      BY <2>1, <2>4, <2>6, <3>1, <3>4 DEF Leads
  <2>7. CASE x \notin S
    BY <2>1, <2>4, <2>5, <2>7 DEF Leads
  <2> QED
    BY <2>6, <2>7
<1>3. Len(path) \in T
  <2>1. Nat \subseteq T
    <3> HIDE DEF T
    <3> QED
      BY <1>1, <1>2, Induction
  <2> HIDE DEF T
  <2> QED
    BY <1>0, <2>1
<1>4. SubSeq(path, 1, Len(path)) = path
  <2> HIDE DEF path
  <2> QED
    BY <1>0, SubSeqFull
<1>5. showing = Those(path, S)
  BY DEF ShownPath, ShownOf
<1>6. \A i \in 1..Len(showing) : Those(Paths(records)[WithId(records, records[showing[i]].parent)], S) = SubSeq(showing, 1, i - 1)
  <2>1. Leads(records, Those(SubSeq(path, 1, Len(path)), S), S)
    BY <1>0, <1>3
  <2> HIDE DEF showing, path, S
  <2> QED
    BY <2>1, <1>4, <1>5 DEF Leads
<1>7. showing \in Seq(1..k)
  BY <1>0, <1>5, ThoseType
<1>8. ASSUME k = 0 PROVE showing = <<>>
  <2>1. Len(records) \in Nat
    BY TreeIs
  <2>2. path = <<>>
    BY <1>8, <2>1, PathsAre DEF PathStep
  <2> QED
    BY <1>5, <2>2, ThoseEmpty
<1> QED
  BY <1>6, <1>7, <1>8 DEF ShownPath, ShownOf

LEMMA WrittenLastIs ==
    ASSUME NEW n \in Nat, NEW ks \in SUBSET (1..n), ks # {}
    PROVE  WrittenLast(ks) \in ks /\ \A j \in ks : j <= WrittenLast(ks)
<1> DEFINE T == {m \in Nat : \A js \in SUBSET (1..m) : js # {} => \E k \in js : \A j \in js : j <= k}
<1>1. 0 \in T
  <2>1. 1..0 = {}
    OBVIOUS
  <2> QED
    BY <2>1
<1>2. ASSUME NEW m \in Nat, m \in T PROVE m + 1 \in T
  <2> SUFFICES ASSUME NEW js \in SUBSET (1..(m + 1)), js # {}
               PROVE  \E k \in js : \A j \in js : j <= k
    OBVIOUS
  <2>1. CASE m + 1 \in js
    <3>1. \A j \in js : j <= m + 1
      OBVIOUS
    <3> QED
      BY <2>1, <3>1
  <2>2. CASE m + 1 \notin js
    <3>1. js \in SUBSET (1..m)
      BY <2>2
    <3> QED
      BY <1>2, <3>1
  <2> QED
    BY <2>1, <2>2
<1>3. n \in T
  <2> HIDE DEF T
  <2> QED
    BY <1>1, <1>2, Induction
<1>4. \E k \in ks : \A j \in ks : j <= k
  BY <1>3
<1>5. WrittenLast(ks) = CHOOSE k \in ks : \A j \in ks : j <= k
  BY DEF WrittenLast
<1> QED
  BY <1>4, <1>5

LEMMA LeafIs ==
    ASSUME NEW records, IsTree(records)
    PROVE  Leaf(records) \in Nat
<1>1. Numbered(records) \in SUBSET (1..Len(records)) /\ Len(records) \in Nat
  BY TreeIs DEF Numbered
<1>2. Numbered(records) # {} => WrittenLast(Numbered(records)) \in 1..Len(records)
  BY <1>1, WrittenLastIs
<1> QED
  BY <1>2, TreeIs DEF Leaf

LEMMA LastOfReverse ==
    ASSUME NEW R, NEW s \in Seq(R), NEW limit \in 1..Len(s)
    PROVE  /\ Reverse(SubSeq(Reverse(s), 1, limit)) = SubSeq(s, Len(s) - limit + 1, Len(s))
           /\ SubSeq(s, 1, Len(s) - limit) \o SubSeq(s, Len(s) - limit + 1, Len(s)) = s
<1> DEFINE n == Len(s)
           a == SubSeq(s, 1, n - limit)
           b == SubSeq(s, n - limit + 1, n)
<1>0. n \in Nat /\ limit \in Nat /\ n - limit \in 0..n
  OBVIOUS
<1>1. a \in Seq(R) /\ b \in Seq(R) /\ Len(b) = limit
  BY <1>0
<1>2. a \o b = s
  <2>1. 1 \in 1..Len(s) + 1 /\ n - limit \in (1 - 1)..Len(s) /\ n \in (n - limit)..Len(s)
    BY <1>0
  <2>2. SubSeq(s, 1, n - limit) \o SubSeq(s, n - limit + 1, n) = SubSeq(s, 1, n)
    BY <2>1, ConcatAdjacentSubSeq
  <2> QED
    BY <2>2, SubSeqFull
<1> HIDE DEF a, b, n
<1>3. Reverse(s) = Reverse(b) \o Reverse(a) /\ Reverse(b) \in Seq(R) /\ Len(Reverse(b)) = limit /\ Reverse(a) \in Seq(R)
  BY <1>1, <1>2, ReverseConcat, ReverseIs
<1>4. SubSeq(Reverse(b) \o Reverse(a), 1, limit) = Reverse(b)
  <2>1. 1 \in 1..Len(Reverse(b)) /\ limit \in 1..Len(Reverse(b))
    BY <1>3
  <2>2. SubSeq(Reverse(b) \o Reverse(a), 1, limit) = SubSeq(Reverse(b), 1, limit)
    BY <1>3, <2>1, SubSeqOfConcat1
  <2> QED
    BY <1>3, <2>2, SubSeqFull
<1>5. Reverse(Reverse(b)) = b
  BY <1>1, ReverseTwice
<1> QED
  BY <1>2, <1>3, <1>4, <1>5 DEF a, b, n

(* The record at which the page before a cursor begins, 0 when there is    *)
(* none with the id it looks for.                                          *)
PiFrom(records, before) ==
    IF before = NewestPage THEN WithId(records, Leaf(records))
    ELSE IF WithId(records, before.target) \in 1..before.lines THEN WithId(records, before.target) ELSE 0

PiCursors(records) == [lines : 0..Len(records), target : Nat]

PiRank(records) == [before \in PiCursors(records) |->
                      IF before = NewestPage THEN Len(records) + 1 ELSE before.lines]

LEMMA PiBranch ==
    ASSUME NEW records, IsTree(records), NEW before \in PiCursors(records)
    PROVE  /\ PiFrom(records, before) \in 0..Len(records)
           /\ PiFrom(records, before) < PiRank(records)[before] + 1
           /\ (IF before = NewestPage THEN WalkBack(records)[<<Len(records), Leaf(records)>>]
               ELSE WalkBack(records)[<<before.lines, before.target>>])
                = Reverse(Paths(records)[PiFrom(records, before)])
<1> DEFINE w == PiFrom(records, before)
<1>0. Len(records) \in Nat /\ Leaf(records) \in Nat
  BY TreeIs, LeafIs
<1>1. before.lines \in 0..Len(records) /\ before.target \in Nat
  BY DEF PiCursors
<1>2. Reverse(Paths(records)[0]) = <<>>
  BY <1>0, PathsAre, ReverseSmall DEF PathStep
<1>3. CASE before = NewestPage
  <2>1. w = WithId(records, Leaf(records)) /\ w \in 0..Len(records)
    BY <1>0, <1>3, WithIdIs DEF PiFrom
  <2>2. WalkBack(records)[<<Len(records), Leaf(records)>>]
          = IF w \in 1..Len(records) THEN Reverse(Paths(records)[w]) ELSE <<>>
    BY <1>0, <2>1, WalkFollowsThePath
  <2>3. w \in 1..Len(records) \/ w = 0
    BY <1>0, <2>1
  <2>4. PiRank(records)[before] = Len(records) + 1
    BY <1>3 DEF PiRank
  <2> HIDE DEF w
  <2>5. w < PiRank(records)[before] + 1
    BY <1>0, <2>1, <2>4
  <2> QED
    BY <1>2, <1>3, <2>1, <2>2, <2>3, <2>5 DEF w
<1>4. CASE before # NewestPage
  <2>1. w = (IF WithId(records, before.target) \in 1..before.lines THEN WithId(records, before.target) ELSE 0)
    BY <1>4 DEF PiFrom
  <2>2. WalkBack(records)[<<before.lines, before.target>>]
          = IF WithId(records, before.target) \in 1..before.lines
            THEN Reverse(Paths(records)[WithId(records, before.target)]) ELSE <<>>
    BY <1>1, WalkFollowsThePath
  <2>3. w \in 0..before.lines
    BY <1>1, <2>1
  <2>4. PiRank(records)[before] = before.lines
    BY <1>4 DEF PiRank
  <2> HIDE DEF w
  <2>5. w < PiRank(records)[before] + 1 /\ w \in 0..Len(records)
    BY <1>0, <1>1, <2>3, <2>4
  <2> QED
    BY <1>2, <1>4, <2>1, <2>2, <2>5 DEF w
<1> QED
  BY <1>3, <1>4

LEMMA PiPageIs ==
    ASSUME NEW records, IsTree(records), NEW before \in PiCursors(records), NEW limit \in Nat \ {0}
    PROVE  LET page == PiPage(records, before, limit)
               showing == ShownPath(records, PiFrom(records, before))
           IN /\ before = NewestPage \/ PiFrom(records, before) # 0 => page.valid
              /\ page.valid \in BOOLEAN /\ page.more \in BOOLEAN
              /\ page.messages \in Seq(Nat)
              /\ ~page.more => page.messages = showing
              /\ page.more => /\ page.before \in PiCursors(records)
                              /\ PiRank(records)[page.before] < PiRank(records)[before]
                              /\ PiFrom(records, page.before) # 0
                              /\ ShownPath(records, PiFrom(records, page.before)) \o page.messages = showing
<1> DEFINE page == PiPage(records, before, limit)
           w == PiFrom(records, before)
           path == Paths(records)[w]
           branch == IF before = NewestPage THEN WalkBack(records)[<<Len(records), Leaf(records)>>]
                     ELSE WalkBack(records)[<<before.lines, before.target>>]
           showing == ShownPath(records, w)
           found == ShownOf(records, branch)
<1>0. Len(records) \in Nat
  BY TreeIs
<1>1. w \in 0..Len(records) /\ w < PiRank(records)[before] + 1 /\ branch = Reverse(path)
  BY PiBranch
<1>2. page = IF Len(found) <= limit
             THEN [messages |-> Reverse(found), more |-> FALSE, before |-> NewestPage,
                   valid |-> before = NewestPage \/ branch # <<>>]
             ELSE [messages |-> Reverse(UpTo(found, limit)), more |-> TRUE, valid |-> TRUE,
                   before |-> [lines |-> found[limit] - 1, target |-> records[found[limit]].parent]]
  BY DEF PiPage
<1>3. path \in Seq(1..w) /\ (w # 0 => path # <<>>)
  <2>1. IsPath(records, w)
    BY <1>1, PathIs
  <2> QED
    BY <2>1 DEF IsPath
<1>4. showing \in Seq(1..w)
      /\ \A i \in 1..Len(showing) :
           ShownPath(records, WithId(records, records[showing[i]].parent)) = SubSeq(showing, 1, i - 1)
  <2> HIDE DEF w
  <2> QED
    BY <1>1, ShownPathIs
<1>5. found = Reverse(showing)
  <2> HIDE DEF path, branch
  <2> QED
    BY <1>1, <1>3, ThoseReverse DEF ShownOf, ShownPath, path
<1> HIDE DEF page, w, path, branch, showing, found
<1>6. showing \in Seq(Nat)
  <2>1. 1..w \subseteq Nat
    BY <1>1
  <2> QED
    BY <1>4, <2>1, SeqMonotonic
<1>7. found \in Seq(Nat) /\ Len(found) = Len(showing) /\ Len(showing) \in Nat
  BY <1>5, <1>6, ReverseIs
<1>8. w # 0 => branch # <<>>
  <2>1. Reverse(path) = <<>> => path = <<>>
    BY <1>3, ReverseTwice, ReverseSmall
  <2> QED
    BY <1>1, <1>3, <2>1
<1>9. CASE Len(found) <= limit
  <2>1. /\ page.messages = Reverse(found) /\ page.more = FALSE
        /\ page.valid = (before = NewestPage \/ branch # <<>>)
    BY <1>2, <1>9
  <2>2. page.messages = showing
    BY <1>5, <1>6, <2>1, ReverseTwice
  <2> QED
    BY <1>6, <1>8, <2>1, <2>2 DEF page, w, showing
<1>10. CASE ~(Len(found) <= limit)
  <2> DEFINE n == Len(showing)
             r == found[limit]
             next == [lines |-> r - 1, target |-> records[r].parent]
             q == WithId(records, records[r].parent)
  <2>1. /\ page.messages = Reverse(SubSeq(found, 1, limit)) /\ page.more = TRUE /\ page.valid = TRUE
        /\ page.before = next
    BY <1>2, <1>10 DEF UpTo
  <2>2. n \in Nat /\ limit \in 1..n /\ limit < n
    BY <1>7, <1>10
  <2>3. r = showing[n + 1 - limit] /\ n + 1 - limit \in 1..n
    BY <1>5, <1>6, <2>2, ReverseIs
  <2>4. r \in 1..w /\ r \in 1..Len(records)
    <3>1. r \in 1..w
      BY <1>4, <2>3, ElementOfSeq
    <3> QED
      BY <1>1, <3>1
  <2>5. q \in 0..(r - 1) /\ records[r].parent \in Nat
    BY <2>4, ParentIsBefore, TreeIs
  <2>6. ShownPath(records, q) = SubSeq(showing, 1, n - limit)
    <3>1. ShownPath(records, WithId(records, records[showing[n + 1 - limit]].parent)) = SubSeq(showing, 1, n + 1 - limit - 1)
      <4> DEFINE i == n + 1 - limit
      <4>1. i \in 1..Len(showing)
        BY <2>3
      <4> HIDE DEF i
      <4>2. ShownPath(records, WithId(records, records[showing[i]].parent)) = SubSeq(showing, 1, i - 1)
        BY <1>4, <4>1
      <4> QED
        BY <4>2 DEF i
    <3>2. n + 1 - limit - 1 = n - limit
      BY <2>2
    <3> QED
      BY <2>3, <3>1, <3>2
  <2>7. Reverse(SubSeq(found, 1, limit)) = SubSeq(showing, n - limit + 1, n)
        /\ SubSeq(showing, 1, n - limit) \o SubSeq(showing, n - limit + 1, n) = showing
    BY <1>5, <1>6, <2>2, LastOfReverse
  <2>8. q # 0
    <3>1. SUFFICES ASSUME q = 0 PROVE FALSE
      OBVIOUS
    <3>2. ShownPath(records, 0) = <<>>
      BY <1>0, ShownPathIs
    <3>3. Len(SubSeq(showing, 1, n - limit)) = n - limit
      BY <1>6, <2>2
    <3>4. SubSeq(showing, 1, n - limit) = <<>>
      BY <2>6, <3>1, <3>2
    <3>5. n - limit = 0
      BY <3>3, <3>4
    <3> QED
      BY <2>2, <3>5
  <2>9. records[r].parent # 0
    BY <2>5, <2>8, WithIdIs
  <2>10. next \in PiCursors(records) /\ next # NewestPage
    <3>1. r - 1 \in 0..Len(records) /\ records[r].parent \in Nat
      BY <1>0, <2>4, <2>5
    <3>2. next.target # 0 /\ NewestPage.target = 0
      BY <2>9 DEF NewestPage
    <3> QED
      BY <3>1, <3>2 DEF PiCursors
  <2>11. PiRank(records)[next] = r - 1
    <3>1. next.lines = r - 1
      OBVIOUS
    <3> HIDE DEF next
    <3> QED
      BY <2>10, <3>1 DEF PiRank
  <2>12. PiFrom(records, next) = q
    <3>1. next.lines = r - 1 /\ next.target = records[r].parent
      OBVIOUS
    <3> HIDE DEF next
    <3>2. q \in 1..(r - 1)
      BY <2>4, <2>5, <2>8
    <3> QED
      BY <2>10, <3>1, <3>2 DEF PiFrom
  <2>13. PiRank(records)[next] < PiRank(records)[before]
    <3>1. PiRank(records)[before] \in Nat
      <4>1. before.lines \in Nat
        BY <1>0 DEF PiCursors
      <4> QED
        BY <1>0, <4>1 DEF PiRank
    <3> QED
      BY <1>1, <2>4, <2>11, <3>1
  <2>14. SubSeq(showing, n - limit + 1, n) \in Seq(Nat)
    BY <1>6, <2>2
  <2> HIDE DEF next, q, r, n
  <2> QED
    BY <1>10, <2>1, <2>6, <2>7, <2>8, <2>10, <2>12, <2>13, <2>14 DEF page, w, showing
<1> QED
  BY <1>9, <1>10

Refusing == "Invalid PI history cursor"

PiPagesStep(records, limit, pages, before) ==
    LET page == PiPage(records, before, limit)
    IN (IF ~page.valid THEN <<"Invalid PI history cursor">>
        ELSE IF page.more THEN pages[page.before] ELSE <<>>) \o page.messages

LEMMA PiPagesAre ==
    ASSUME NEW records, IsTree(records), NEW limit \in Nat \ {0}
    PROVE  \A before \in PiCursors(records) :
             PiPages(records, limit)[before] = PiPagesStep(records, limit, PiPages(records, limit), before)
<1> DEFINE D == PiCursors(records)
           C == Seq(Nat \cup {Refusing})
           rank == PiRank(records)
           step == [x \in D \X [D -> C] |-> PiPagesStep(records, limit, x[2], x[1])]
           Is(p) == p = [before \in D |-> PiPagesStep(records, limit, p, before)]
<1>0. Len(records) \in Nat
  BY TreeIs
<1>1. ASSUME NEW a \in D
      PROVE  LET page == PiPage(records, a, limit)
             IN /\ page.messages \in C /\ page.valid \in BOOLEAN /\ page.more \in BOOLEAN
                /\ page.more => page.before \in D /\ rank[page.before] < rank[a]
  <2> DEFINE page == PiPage(records, a, limit)
  <2>1. /\ page.messages \in Seq(Nat) /\ page.valid \in BOOLEAN /\ page.more \in BOOLEAN
        /\ page.more => page.before \in D /\ rank[page.before] < rank[a]
    BY PiPageIs
  <2> HIDE DEF page
  <2>2. page.messages \in C
    BY <2>1, SeqMonotonic
  <2> QED
    BY <2>1, <2>2 DEF page
<1>2. <<Refusing>> \in C /\ <<>> \in C
  OBVIOUS
<1>3. ASSUME NEW a \in D, NEW g \in [D -> C]
      PROVE  PiPagesStep(records, limit, g, a) \in C
  <2> DEFINE page == PiPage(records, a, limit)
             front == IF ~page.valid THEN <<Refusing>> ELSE IF page.more THEN g[page.before] ELSE <<>>
  <2>1. /\ page.messages \in C /\ page.valid \in BOOLEAN /\ page.more \in BOOLEAN
        /\ page.more => page.before \in D
    BY <1>1
  <2> HIDE DEF page, D, C
  <2>2. front \in C
    BY <1>2, <2>1
  <2>3. PiPagesStep(records, limit, g, a) = front \o page.messages
    BY DEF PiPagesStep, page, Refusing
  <2> HIDE DEF front
  <2> QED
    BY <2>1, <2>2, <2>3, ConcatProperties DEF C
<1>4. step \in [D \X [D -> C] -> C] /\ \A a \in D, g \in [D -> C] : step[<<a, g>>] = PiPagesStep(records, limit, g, a)
  <2> HIDE DEF D, C
  <2> QED
    BY <1>3
<1>5. LooksBelow(step, rank, D, C)
  <2> SUFFICES ASSUME NEW a \in D, NEW g \in [D -> C], NEW h \in [D -> C],
                      \A b \in D : rank[b] < rank[a] => g[b] = h[b]
               PROVE  PiPagesStep(records, limit, g, a) = PiPagesStep(records, limit, h, a)
    <3> HIDE DEF D, C, rank, step
    <3> QED
      BY <1>4 DEF LooksBelow
  <2> DEFINE page == PiPage(records, a, limit)
  <2>1. page.more => g[page.before] = h[page.before]
    BY <1>1
  <2> HIDE DEF D, C, rank, step
  <2> QED
    BY <2>1 DEF PiPagesStep
<1>6. <<>> \in C /\ Len(records) + 1 \in Nat /\ rank \in [D -> 0..(Len(records) + 1)]
  BY <1>0 DEF PiCursors, PiRank
<1>7. PICK f \in [D -> C] : Solves(f, step, D)
  <2> HIDE DEF D, C, rank, step
  <2> QED
    BY <1>4, <1>5, <1>6, Recursion
<1>8. Is(f)
  <2>1. \A a \in D : f[a] = PiPagesStep(records, limit, f, a)
    <3> HIDE DEF D, C, step
    <3> QED
      BY <1>4, <1>7 DEF Solves
  <2> HIDE DEF D
  <2> QED
    BY <2>1
<1>9. PiPages(records, limit) = CHOOSE p : Is(p)
  BY DEF PiPages, PiPagesStep, PiCursors
<1>10. Is(PiPages(records, limit))
  <2> HIDE DEF Is
  <2> QED
    BY <1>8, <1>9
<1> QED
  BY <1>10

(* PI's journal, read in pages of any size from the newest one, is the     *)
(* branch that loadPiHistory() reads whole, for every tree of records.     *)
THEOREM PiPagesAreTheBranchAlways ==
    ASSUME NEW records, IsTree(records), NEW limit \in Nat \ {0}
    PROVE  PiPages(records, limit)[NewestPage] = PiMessagesOf(records)
<1> DEFINE WholeFrom(before) == PiPages(records, limit)[before] = ShownPath(records, PiFrom(records, before))
           Valid(before) == before = NewestPage \/ PiFrom(records, before) # 0
           T == {n \in Nat : \A before \in PiCursors(records) :
                                PiRank(records)[before] < n /\ Valid(before) => WholeFrom(before)}
<1>0. Len(records) \in Nat /\ \A before \in PiCursors(records) : PiRank(records)[before] \in Nat
  BY TreeIs DEF PiCursors, PiRank
<1>1. 0 \in T
  BY <1>0
<1>2. ASSUME NEW n \in Nat, n \in T PROVE n + 1 \in T
  <2> SUFFICES ASSUME NEW before \in PiCursors(records), PiRank(records)[before] < n + 1, Valid(before)
               PROVE  WholeFrom(before)
    OBVIOUS
  <2> DEFINE page == PiPage(records, before, limit)
             showing == ShownPath(records, PiFrom(records, before))
  <2>1. /\ page.valid /\ page.more \in BOOLEAN
        /\ page.messages \in Seq(Nat)
        /\ ~page.more => page.messages = showing
        /\ page.more => /\ page.before \in PiCursors(records)
                        /\ PiRank(records)[page.before] < PiRank(records)[before]
                        /\ PiFrom(records, page.before) # 0
                        /\ ShownPath(records, PiFrom(records, page.before)) \o page.messages = showing
    BY PiPageIs
  <2>2. PiPages(records, limit)[before] = (IF page.more THEN PiPages(records, limit)[page.before] ELSE <<>>) \o page.messages
    <3>1. PiPages(records, limit)[before] = PiPagesStep(records, limit, PiPages(records, limit), before)
      BY PiPagesAre
    <3> QED
      BY <2>1, <3>1 DEF PiPagesStep
  <2>3. CASE page.more
    <3>1. PiRank(records)[page.before] < n /\ Valid(page.before)
      BY <1>0, <2>1, <2>3
    <3>2. WholeFrom(page.before)
      BY <1>2, <2>1, <2>3, <3>1
    <3> QED
      BY <2>1, <2>2, <2>3, <3>2
  <2>4. CASE ~page.more
    <3> HIDE DEF page, showing
    <3>1. PiPages(records, limit)[before] = showing
      BY <2>1, <2>2, <2>4, ConcatEmptySeq
    <3> QED
      BY <3>1 DEF showing
  <2> QED
    BY <2>3, <2>4
<1>3. NewestPage \in PiCursors(records) /\ PiRank(records)[NewestPage] < Len(records) + 2
  BY <1>0 DEF NewestPage, PiCursors, PiRank
<1>4. Len(records) + 2 \in T
  <2>1. Len(records) + 2 \in Nat
    BY <1>0
  <2> HIDE DEF T
  <2> QED
    BY <1>1, <1>2, <2>1, Induction
<1>5. WholeFrom(NewestPage)
  BY <1>3, <1>4
<1> QED
  BY <1>5 DEF PiFrom, PiMessagesOf, BranchTo, ShownPath

-----------------------------------------------------------------------------
(* OMP's journal is of one version: all of its records have ids, or none.  *)
IsOmpJournal(lines) ==
    /\ lines \in Seq(JournalRecord)
    /\ IsTree(ReadableOf(lines))
    /\ \/ \A k \in DOMAIN ReadableOf(lines) : ReadableOf(lines)[k].id # 0
       \/ \A k \in DOMAIN ReadableOf(lines) : ReadableOf(lines)[k].id = 0

Renumbered(entries) == [k \in DOMAIN entries |-> [entries[k] EXCEPT !.id = k, !.parent = k - 1]]

LEMMA ReadableGrows ==
    ASSUME NEW lines \in Seq(JournalRecord), NEW n \in 0..Len(lines)
    PROVE  /\ ReadableOf(lines) \in Seq(JournalRecord)
           /\ ReadableOf(UpTo(lines, n)) \in Seq(JournalRecord)
           /\ Len(ReadableOf(UpTo(lines, n))) \in 0..Len(ReadableOf(lines))
           /\ \A k \in 1..Len(ReadableOf(UpTo(lines, n))) : ReadableOf(UpTo(lines, n))[k] = ReadableOf(lines)[k]
<1> DEFINE S == {r \in JournalRecord : r.readable}
           before == SubSeq(lines, 1, n)
           rest == SubSeq(lines, n + 1, Len(lines))
<1>1. Len(lines) \in Nat /\ before \in Seq(JournalRecord) /\ rest \in Seq(JournalRecord)
  BY LenProperties
<1>2. lines = before \o rest
  <2>1. 1 \in 1..Len(lines) + 1 /\ n \in (1 - 1)..Len(lines) /\ Len(lines) \in n..Len(lines)
    BY <1>1
  <2>2. SubSeq(lines, 1, n) \o SubSeq(lines, n + 1, Len(lines)) = SubSeq(lines, 1, Len(lines))
    BY <2>1, ConcatAdjacentSubSeq
  <2> QED
    BY <2>2, SubSeqFull
<1> HIDE DEF before, rest
<1>3. ASSUME NEW u \in Seq(JournalRecord)
      PROVE  ReadableOf(u) = Those(u, S) /\ ReadableOf(u) \in Seq(JournalRecord)
  <2> DEFINE R == {u[k] : k \in 1..Len(u)}
             Q == {u[k] : k \in {j \in DOMAIN u : u[j].readable}}
  <2>1. u \in Seq(R) /\ R \subseteq JournalRecord /\ DOMAIN u = 1..Len(u)
    OBVIOUS
  <2>2. \A x \in R : x \in Q <=> x \in S
    BY <2>1
  <2>3. ReadableOf(u) = Those(u, Q)
    BY DEF ReadableOf
  <2> HIDE DEF R, Q, S
  <2>4. Those(u, Q) = Those(u, S)
    BY <2>1, <2>2, ThoseSame
  <2> QED
    BY <2>3, <2>4, ThoseType
<1> HIDE DEF S
<1>4. ReadableOf(lines) = ReadableOf(before) \o ReadableOf(rest)
  <2>1. ReadableOf(lines) = Those(lines, S) /\ ReadableOf(before) = Those(before, S) /\ ReadableOf(rest) = Those(rest, S)
    BY <1>1, <1>3
  <2>2. Those(before \o rest, S) = Those(before, S) \o Those(rest, S)
    BY <1>1, ThoseConcat
  <2> QED
    BY <1>2, <2>1, <2>2
<1>5. ReadableOf(before) \in Seq(JournalRecord) /\ ReadableOf(rest) \in Seq(JournalRecord)
      /\ ReadableOf(lines) \in Seq(JournalRecord)
  BY <1>1, <1>3
<1> DEFINE a == ReadableOf(before)
           b == ReadableOf(rest)
<1> HIDE DEF a, b
<1>6. Len(a) \in Nat /\ Len(b) \in Nat /\ Len(a \o b) = Len(a) + Len(b)
      /\ \A k \in 1..Len(a) : (a \o b)[k] = a[k]
  BY <1>5 DEF a, b
<1>7. UpTo(lines, n) = before
  BY DEF UpTo, before
<1> QED
  BY <1>4, <1>5, <1>6, <1>7 DEF a, b

LEMMA EntriesAre ==
    ASSUME NEW lines, IsOmpJournal(lines)
    PROVE  /\ Entries(lines) = IF \A k \in DOMAIN ReadableOf(lines) : ReadableOf(lines)[k].id # 0
                               THEN ReadableOf(lines) ELSE Renumbered(ReadableOf(lines))
           /\ IsTree(Entries(lines))
           /\ Len(Entries(lines)) = Len(ReadableOf(lines))
           /\ \A k \in 1..Len(Entries(lines)) : Entries(lines)[k].id # 0
<1> DEFINE es == ReadableOf(lines)
           fresh == Renumbered(es)
<1>1. es \in Seq(JournalRecord) /\ DOMAIN es = 1..Len(es) /\ Len(es) \in Nat /\ IsTree(es)
      /\ ((\A k \in DOMAIN es : es[k].id # 0) \/ \A k \in DOMAIN es : es[k].id = 0)
  BY LenProperties DEF IsOmpJournal, IsTree
<1>2. Entries(lines) = IF \E k \in DOMAIN es : es[k].id # 0 THEN es ELSE Renumbered(es)
  BY DEF Entries, Renumbered
<1> HIDE DEF es
<1>3. CASE \A k \in DOMAIN es : es[k].id # 0
  <2>1. CASE Len(es) = 0
    <3>1. es = <<>> /\ DOMAIN es = {} /\ Renumbered(es) = <<>>
      BY <1>1, <2>1 DEF Renumbered
    <3>2. Entries(lines) = es
      BY <1>2, <3>1
    <3> QED
      BY <1>1, <1>3, <3>2 DEF es
  <2>2. CASE Len(es) # 0
    <3>1. Entries(lines) = es
      BY <1>1, <1>2, <1>3, <2>2
    <3> QED
      BY <1>1, <1>3, <3>1 DEF es
  <2> QED
    BY <2>1, <2>2
<1>4. CASE ~ \A k \in DOMAIN es : es[k].id # 0
  <2>1. Entries(lines) = fresh
    BY <1>1, <1>2, <1>4
  <2>2. ASSUME NEW k \in 1..Len(es)
        PROVE  fresh[k] \in JournalRecord /\ fresh[k].id = k /\ fresh[k].parent = k - 1
    <3>1. es[k] \in JournalRecord
      BY <1>1, ElementOfSeq
    <3>2. fresh[k] = [es[k] EXCEPT !.id = k, !.parent = k - 1]
      BY <1>1 DEF Renumbered
    <3> DEFINE e == es[k]
    <3>3. e \in [id : Nat, parent : Nat, shown : BOOLEAN, readable : BOOLEAN] /\ k \in Nat /\ k - 1 \in Nat
      BY <1>1, <3>1 DEF JournalRecord
    <3>4. fresh[k] = [e EXCEPT !.id = k, !.parent = k - 1]
      BY <3>2
    <3> HIDE DEF e, fresh
    <3>5. fresh[k] = [id |-> k, parent |-> k - 1, shown |-> e.shown, readable |-> e.readable]
      BY <3>3, <3>4
    <3> QED
      BY <3>3, <3>5 DEF JournalRecord
  <2>3. fresh \in Seq(JournalRecord) /\ Len(fresh) = Len(es) /\ DOMAIN fresh = 1..Len(es)
    <3>1. fresh = [k \in 1..Len(es) |-> fresh[k]]
      BY <1>1 DEF Renumbered
    <3> HIDE DEF fresh
    <3> QED
      BY <1>1, <2>2, <3>1
  <2> HIDE DEF fresh
  <2>4. IsTree(fresh)
    BY <1>1, <2>2, <2>3 DEF IsTree
  <2>5. \A k \in 1..Len(fresh) : fresh[k].id # 0
    BY <1>1, <2>2, <2>3
  <2> QED
    BY <1>4, <2>1, <2>3, <2>4, <2>5 DEF es, fresh
<1> QED
  BY <1>3, <1>4

(* While it is written a journal only grows at its end. *)
LEMMA EntriesGrow ==
    ASSUME NEW lines, IsOmpJournal(lines), NEW n \in 0..Len(lines)
    PROVE  /\ IsOmpJournal(UpTo(lines, n))
           /\ Len(Entries(UpTo(lines, n))) \in 0..Len(Entries(lines))
           /\ \A k \in 1..Len(Entries(UpTo(lines, n))) : Entries(UpTo(lines, n))[k] = Entries(lines)[k]
<1> DEFINE before == UpTo(lines, n)
           es == ReadableOf(lines)
           bs == ReadableOf(before)
<1>1. lines \in Seq(JournalRecord) /\ Len(lines) \in Nat /\ before \in Seq(JournalRecord)
  BY LenProperties DEF IsOmpJournal, UpTo
<1>2. /\ es \in Seq(JournalRecord) /\ bs \in Seq(JournalRecord) /\ Len(bs) \in 0..Len(es)
      /\ \A k \in 1..Len(bs) : bs[k] = es[k]
  BY <1>1, ReadableGrows
<1>3. IsTree(es) /\ ((\A k \in DOMAIN es : es[k].id # 0) \/ \A k \in DOMAIN es : es[k].id = 0)
  BY DEF IsOmpJournal
<1> HIDE DEF before, es, bs
<1>4. DOMAIN es = 1..Len(es) /\ DOMAIN bs = 1..Len(bs) /\ Len(es) \in Nat /\ Len(bs) \in Nat
      /\ \A k \in DOMAIN bs : k \in DOMAIN es
  BY <1>2, LenProperties
<1>5. IsTree(bs)
  BY <1>2, <1>3, <1>4 DEF IsTree
<1>6. (\A k \in DOMAIN bs : bs[k].id # 0) \/ \A k \in DOMAIN bs : bs[k].id = 0
  BY <1>2, <1>3, <1>4
<1>7. IsOmpJournal(before)
  BY <1>1, <1>5, <1>6 DEF IsOmpJournal, bs
<1>8. Len(Entries(before)) = Len(bs) /\ Len(Entries(lines)) = Len(es)
  BY <1>7, EntriesAre DEF bs, es
<1>9. ASSUME NEW k \in 1..Len(bs) PROVE Entries(before)[k] = Entries(lines)[k]
  <2>1. k \in DOMAIN es /\ k \in DOMAIN bs /\ bs[k] = es[k]
    BY <1>2, <1>4
  <2>2. Entries(lines) = IF \A j \in DOMAIN es : es[j].id # 0 THEN es ELSE Renumbered(es)
    BY EntriesAre DEF es
  <2>3. Entries(before) = IF \A j \in DOMAIN bs : bs[j].id # 0 THEN bs ELSE Renumbered(bs)
    BY <1>7, EntriesAre DEF bs
  <2>4. (\A j \in DOMAIN es : es[j].id # 0) <=> \A j \in DOMAIN bs : bs[j].id # 0
    BY <1>2, <1>3, <1>4, <2>1
  <2>5. Renumbered(es)[k] = Renumbered(bs)[k]
    BY <2>1 DEF Renumbered
  <2> QED
    BY <2>1, <2>2, <2>3, <2>4, <2>5
<1> QED
  BY <1>2, <1>7, <1>8, <1>9 DEF before

(* What was written later does not change the path of a record. *)
LEMMA SamePaths ==
    ASSUME NEW E, NEW B, IsTree(E), IsTree(B), Len(B) \in 0..Len(E),
           \A k \in 1..Len(B) : B[k] = E[k]
    PROVE  \A k \in 0..Len(B) : Paths(B)[k] = Paths(E)[k] /\ ShownPath(B, k) = ShownPath(E, k)
<1>0. Len(E) \in Nat /\ Len(B) \in Nat /\ DOMAIN B = 1..Len(B) /\ DOMAIN E = 1..Len(E)
  BY TreeIs
<1>1. ASSUME NEW k \in 1..Len(B)
      PROVE  WithId(B, B[k].parent) = WithId(E, E[k].parent) /\ WithId(E, E[k].parent) \in 0..(k - 1)
  <2> DEFINE t == E[k].parent
             q == WithId(E, t)
             p == WithId(B, t)
  <2>1. k \in 1..Len(E) /\ B[k].parent = t /\ t \in Nat
    BY <1>0, <1>1, TreeIs
  <2>2. q \in 0..(k - 1) /\ p \in 0..(k - 1)
    BY <2>1, ParentIsBefore
  <2>3. /\ q # 0 => t # 0 /\ E[q].id = t
        /\ p # 0 => t # 0 /\ B[p].id = t
    BY <2>1, WithIdIs
  <2>4. q # 0 => p = q
    <3>1. ASSUME q # 0 PROVE q \in 1..Len(B) /\ B[q].id = t /\ t # 0
      BY <1>0, <2>2, <2>3, <3>1
    <3> HIDE DEF q
    <3> QED
      BY <2>1, <3>1, WithIdIs
  <2>5. p # 0 => q = p
    <3>1. ASSUME p # 0 PROVE p \in 1..Len(E) /\ E[p].id = t /\ t # 0
      BY <1>0, <2>2, <2>3, <3>1
    <3> HIDE DEF p
    <3> QED
      BY <2>1, <3>1, WithIdIs
  <2> QED
    BY <2>1, <2>2, <2>4, <2>5
<1> DEFINE T == {n \in Nat : \A k \in 0..Len(B) : k < n => Paths(B)[k] = Paths(E)[k]}
<1>2. 0 \in T
  BY <1>0
<1>3. ASSUME NEW n \in Nat, n \in T PROVE n + 1 \in T
  <2> SUFFICES ASSUME n \in 0..Len(B) PROVE Paths(B)[n] = Paths(E)[n]
    BY <1>0, <1>3
  <2>1. /\ Paths(B)[n] = PathStep(B, Paths(B), n)
        /\ Paths(E)[n] = PathStep(E, Paths(E), n)
    <3>1. n \in 0..Len(E)
      BY <1>0
    <3> QED
      BY <3>1, PathsAre
  <2>2. CASE n = 0
    BY <2>1, <2>2 DEF PathStep
  <2>3. CASE n # 0
    <3> DEFINE q == WithId(E, E[n].parent)
    <3>1. WithId(B, B[n].parent) = q /\ q \in 0..(n - 1)
      BY <1>0, <1>1, <2>3
    <3>2. Paths(B)[q] = Paths(E)[q]
      BY <1>0, <1>3, <3>1
    <3> QED
      BY <2>1, <2>3, <3>1, <3>2 DEF PathStep
  <2> QED
    BY <2>2, <2>3
<1>4. Len(B) + 1 \in T
  <2>1. Len(B) + 1 \in Nat
    BY <1>0
  <2> HIDE DEF T
  <2> QED
    BY <1>2, <1>3, <2>1, Induction
<1> SUFFICES ASSUME NEW k \in 0..Len(B)
             PROVE  Paths(B)[k] = Paths(E)[k] /\ ShownPath(B, k) = ShownPath(E, k)
  OBVIOUS
<1>5. Paths(B)[k] = Paths(E)[k]
  BY <1>0, <1>4
<1> DEFINE path == Paths(B)[k]
           S == {j \in DOMAIN B : B[j].shown}
           R == {j \in DOMAIN E : E[j].shown}
<1>6. path \in Seq(1..k)
  <2>1. IsPath(B, k)
    BY PathIs
  <2> QED
    BY <2>1 DEF IsPath
<1>7. \A j \in 1..k : j \in S <=> j \in R
  BY <1>0
<1>8. ShownPath(B, k) = Those(path, S) /\ ShownPath(E, k) = Those(path, R)
  BY <1>5 DEF ShownPath, ShownOf
<1> HIDE DEF path, S, R
<1>9. Those(path, S) = Those(path, R)
  BY <1>6, <1>7, ThoseSame
<1> QED
  BY <1>5, <1>8, <1>9

IdsOf(E, w) == [i \in DOMAIN ShownPath(E, w) |-> E[ShownPath(E, w)[i]].id]

LEMMA IdsOfAre ==
    ASSUME NEW E, IsTree(E), \A k \in 1..Len(E) : E[k].id # 0, NEW w \in 0..Len(E)
    PROVE  /\ ShownPath(E, w) \in Seq(1..Len(E))
           /\ IdsOf(E, w) \in Seq(Nat) /\ Len(IdsOf(E, w)) = Len(ShownPath(E, w))
           /\ \A i \in 1..Len(ShownPath(E, w)) : IdsOf(E, w)[i] = E[ShownPath(E, w)[i]].id
           /\ \A i, j \in 1..Len(ShownPath(E, w)) : IdsOf(E, w)[i] = IdsOf(E, w)[j] => i = j
<1> DEFINE s == ShownPath(E, w)
           ids == IdsOf(E, w)
<1>0. Len(E) \in Nat /\ DOMAIN E = 1..Len(E)
  BY TreeIs
<1>1. /\ s \in Seq(1..w)
      /\ \A i \in 1..Len(s) : ShownPath(E, WithId(E, E[s[i]].parent)) = SubSeq(s, 1, i - 1)
  BY ShownPathIs
<1> HIDE DEF s
<1>2. s \in Seq(1..Len(E))
  <2>1. 1..w \subseteq 1..Len(E)
    BY <1>0
  <2> QED
    BY <1>1, <2>1, SeqMonotonic
<1>3. Len(s) \in Nat /\ DOMAIN s = 1..Len(s) /\ \A i \in 1..Len(s) : s[i] \in 1..Len(E)
  BY <1>2, LenProperties, ElementOfSeq
<1>4. \A i \in 1..Len(s) : E[s[i]].id \in Nat
  BY <1>3, TreeIs
<1>5. ids = [i \in 1..Len(s) |-> E[s[i]].id]
  BY <1>3 DEF IdsOf, s
<1>6. ids \in Seq(Nat) /\ Len(ids) = Len(s) /\ \A i \in 1..Len(s) : ids[i] = E[s[i]].id
  <2> HIDE DEF ids
  <2> QED
    BY <1>3, <1>4, <1>5
<1>7. ASSUME NEW i \in 1..Len(s), NEW j \in 1..Len(s), ids[i] = ids[j] PROVE i = j
  <2>1. s[i] = s[j]
    <3>1. E[s[i]].id = E[s[j]].id /\ E[s[i]].id # 0 /\ s[i] \in DOMAIN E /\ s[j] \in DOMAIN E
      BY <1>0, <1>3, <1>6, <1>7
    <3> QED
      BY <3>1 DEF IsTree
  <2>2. SubSeq(s, 1, i - 1) = SubSeq(s, 1, j - 1)
    BY <1>1, <2>1
  <2>3. Len(SubSeq(s, 1, i - 1)) = i - 1 /\ Len(SubSeq(s, 1, j - 1)) = j - 1
    BY <1>2, <1>3
  <2>4. i - 1 = j - 1
    BY <2>2, <2>3
  <2> QED
    BY <1>3, <2>4
<1> QED
  BY <1>2, <1>6, <1>7 DEF s

(* How many messages are older than a cursor. *)
OmpFrom(ids, before) ==
    IF \E i \in DOMAIN ids : ids[i] = before THEN (CHOOSE i \in DOMAIN ids : ids[i] = before) - 1 ELSE Len(ids)

OmpPageFits(lines, leaf, ids, before, limit) ==
    LET page == OmpPage(lines, leaf, before, limit)
        end == OmpFrom(ids, before)
    IN /\ end \in 0..Len(ids)
       /\ page.more <=> end > limit
       /\ page.messages \in Seq(Nat)
       /\ ~page.more => page.messages = SubSeq(ids, 1, end)
       /\ page.more => /\ page.before \in Nat
                       /\ page.before = ids[end - limit + 1]
                       /\ OmpFrom(ids, page.before) = end - limit
                       /\ SubSeq(ids, 1, end - limit) \o page.messages = SubSeq(ids, 1, end)

LEMMA OmpPageIs ==
    ASSUME NEW lines, NEW leaf, NEW ids \in Seq(Nat), ids = IdsShown(lines, leaf),
           \A i, j \in 1..Len(ids) : ids[i] = ids[j] => i = j,
           NEW before \in Nat, NEW limit \in Nat \ {0}
    PROVE  OmpPageFits(lines, leaf, ids, before, limit)
<1> DEFINE at == {i \in DOMAIN ids : ids[i] = before}
           end == IF at = {} THEN Len(ids) ELSE (CHOOSE i \in at : TRUE) - 1
           start == IF end > limit THEN end - limit ELSE 0
           page == OmpPage(lines, leaf, before, limit)
<1>0. Len(ids) \in Nat /\ DOMAIN ids = 1..Len(ids)
  BY LenProperties
<1>1. page = [messages |-> SubSeq(ids, start + 1, end), more |-> start > 0,
              before |-> IF start > 0 THEN ids[start + 1] ELSE 0]
  BY DEF OmpPage, PageBefore
<1>2. OmpFrom(ids, before) = end
  <2>1. CASE at = {}
    BY <2>1 DEF OmpFrom
  <2>2. CASE at # {}
    <3>1. PICK i \in DOMAIN ids : ids[i] = before
      BY <2>2
    <3>2. \A j \in DOMAIN ids : ids[j] = before => j = i
      BY <1>0, <3>1
    <3>3. (CHOOSE j \in DOMAIN ids : ids[j] = before) = i
      BY <3>1, <3>2
    <3>4. at = {i}
      BY <3>1, <3>2
    <3>5. (CHOOSE j \in at : TRUE) = i
      <4> HIDE DEF at
      <4> QED
        BY <3>4
    <3> QED
      BY <2>2, <3>1, <3>3, <3>5 DEF OmpFrom
  <2> QED
    BY <2>1, <2>2
<1>3. end \in 0..Len(ids)
  <2>1. at # {} => (CHOOSE i \in at : TRUE) \in 1..Len(ids)
    BY <1>0
  <2> HIDE DEF at
  <2> QED
    BY <1>0, <2>1
<1> HIDE DEF end
<1>4. start \in 0..end /\ (start > 0 <=> end > limit) /\ (end > limit => start = end - limit)
  BY <1>0, <1>3
<1> HIDE DEF start
<1> HIDE DEF page
<1>5. page.messages = SubSeq(ids, start + 1, end) /\ (page.more <=> start > 0)
      /\ page.before = IF start > 0 THEN ids[start + 1] ELSE 0
  BY <1>1, Zenon
<1>10. start \in Nat /\ end \in Nat /\ end <= Len(ids)
  BY <1>0, <1>3, <1>4
<1>6. page.more <=> end > limit
  BY <1>4, <1>5
<1>7. page.messages \in Seq(Nat)
  <2>1. start + 1 \in Int /\ end \in Int /\ \A i \in (start + 1)..end : ids[i] \in Nat
    BY <1>0, <1>10, ElementOfSeq
  <2>2. SubSeq(ids, start + 1, end) \in Seq(Nat)
    BY <2>1, SubSeqProperties
  <2> QED
    BY <1>5, <2>2
<1>8. ~page.more => page.messages = SubSeq(ids, 1, end)
  <2>1. ~page.more => start = 0 /\ start + 1 = 1
    BY <1>5, <1>10
  <2> QED
    BY <1>5, <2>1
<1>9. ASSUME page.more
      PROVE  /\ page.before \in Nat
             /\ page.before = ids[end - limit + 1]
             /\ OmpFrom(ids, page.before) = end - limit
             /\ SubSeq(ids, 1, end - limit) \o page.messages = SubSeq(ids, 1, end)
  <2>1. start = end - limit /\ start \in 1..end /\ start < end
    BY <1>0, <1>4, <1>6, <1>9, <1>10
  <2>2. start + 1 \in 1..Len(ids) /\ page.before = ids[start + 1]
    BY <1>0, <1>3, <1>5, <1>9, <2>1
  <2>3. OmpFrom(ids, page.before) = start
    <3>1. \A j \in DOMAIN ids : ids[j] = page.before <=> j = start + 1
      BY <1>0, <2>2
    <3> DEFINE c == CHOOSE j \in DOMAIN ids : ids[j] = page.before
    <3>2. c = start + 1
      BY <1>0, <2>2, <3>1
    <3>3. \E i \in DOMAIN ids : ids[i] = page.before
      BY <1>0, <2>2
    <3>4. (start + 1) - 1 = start
      BY <1>10
    <3>5. OmpFrom(ids, page.before) = c - 1
      BY <3>3 DEF OmpFrom
    <3> HIDE DEF c
    <3> QED
      BY <3>2, <3>4, <3>5, Zenon
  <2>4. SubSeq(ids, 1, start) \o SubSeq(ids, start + 1, end) = SubSeq(ids, 1, end)
    <3>1. 1 \in 1..Len(ids) + 1 /\ start \in (1 - 1)..Len(ids) /\ end \in start..Len(ids)
      BY <1>0, <1>3, <2>1
    <3> QED
      BY <3>1, ConcatAdjacentSubSeq
  <2>5. page.before \in Nat
    BY <2>2, ElementOfSeq
  <2> QED
    BY <1>5, <2>1, <2>2, <2>3, <2>4, <2>5
<1> QED
  BY <1>2, <1>3, <1>6, <1>7, <1>8, <1>9 DEF page, OmpPageFits

OmpPagesStep(lines, leaf, limit, pages, before) ==
    LET page == OmpPage(lines, leaf, before, limit)
    IN (IF page.more THEN pages[page.before] ELSE <<>>) \o page.messages

(* What OMP's older pages give is what is older on the branch. *)
LEMMA OmpPagesAre ==
    ASSUME NEW lines, NEW leaf, NEW ids \in Seq(Nat), ids = IdsShown(lines, leaf),
           \A i, j \in 1..Len(ids) : ids[i] = ids[j] => i = j,
           NEW limit \in Nat \ {0}
    PROVE  \A before \in Nat : OmpPages(lines, leaf, limit)[before] = SubSeq(ids, 1, OmpFrom(ids, before))
<1> DEFINE earlier == [before \in Nat |-> SubSeq(ids, 1, OmpFrom(ids, before))]
           Is(p) == p = [before \in Nat |-> OmpPagesStep(lines, leaf, limit, p, before)]
<1>0. Len(ids) \in Nat
  BY LenProperties
<1>1. ASSUME NEW before \in Nat, NEW p,
             LET page == OmpPage(lines, leaf, before, limit)
             IN page.more => p[page.before] = SubSeq(ids, 1, OmpFrom(ids, page.before))
      PROVE  OmpPagesStep(lines, leaf, limit, p, before) = SubSeq(ids, 1, OmpFrom(ids, before))
  <2> DEFINE page == OmpPage(lines, leaf, before, limit)
             end == OmpFrom(ids, before)
  <2>0. OmpPageFits(lines, leaf, ids, before, limit)
    BY OmpPageIs
  <2>1. end \in 0..Len(ids) /\ page.messages \in Seq(Nat)
    BY <2>0 DEF OmpPageFits
  <2>6. ~page.more => page.messages = SubSeq(ids, 1, end)
    BY <2>0 DEF OmpPageFits
  <2>7. page.more => OmpFrom(ids, page.before) = end - limit
    BY <2>0 DEF OmpPageFits
  <2>8. page.more => SubSeq(ids, 1, end - limit) \o page.messages = SubSeq(ids, 1, end)
    BY <2>0 DEF OmpPageFits
  <2>2. OmpPagesStep(lines, leaf, limit, p, before) = (IF page.more THEN p[page.before] ELSE <<>>) \o page.messages
    BY DEF OmpPagesStep
  <2>3. page.more => p[page.before] = SubSeq(ids, 1, OmpFrom(ids, page.before))
    BY <1>1
  <2> HIDE DEF page, end
  <2>4. CASE page.more
    BY <2>7, <2>8, <2>2, <2>3, <2>4 DEF end
  <2>5. CASE ~page.more
    BY <2>1, <2>6, <2>2, <2>5, ConcatEmptySeq DEF end
  <2> QED
    BY <2>4, <2>5
<1>2. Is(earlier)
  <2>1. ASSUME NEW before \in Nat
        PROVE  OmpPagesStep(lines, leaf, limit, earlier, before) = SubSeq(ids, 1, OmpFrom(ids, before))
    <3> DEFINE page == OmpPage(lines, leaf, before, limit)
    <3>1. page.more => page.before \in Nat
      BY OmpPageIs DEF OmpPageFits
    <3>2. page.more => earlier[page.before] = SubSeq(ids, 1, OmpFrom(ids, page.before))
      BY <3>1
    <3> HIDE DEF earlier
    <3> QED
      BY <1>1, <3>2
  <2> QED
    BY <2>1
<1>3. OmpPages(lines, leaf, limit) = CHOOSE p : Is(p)
  BY DEF OmpPages, OmpPagesStep
<1>4. Is(OmpPages(lines, leaf, limit))
  <2> HIDE DEF Is, earlier
  <2> QED
    BY <1>2, <1>3
<1> DEFINE pages == OmpPages(lines, leaf, limit)
<1>5. \A before \in Nat : pages[before] = OmpPagesStep(lines, leaf, limit, pages, before)
  BY <1>4
<1> HIDE DEF pages
<1> DEFINE T == {n \in Nat : \A before \in Nat : OmpFrom(ids, before) < n
                               => pages[before] = SubSeq(ids, 1, OmpFrom(ids, before))}
<1>6. \A before \in Nat : OmpFrom(ids, before) \in 0..Len(ids)
  BY OmpPageIs DEF OmpPageFits
<1>7. 0 \in T
  BY <1>0, <1>6
<1>8. ASSUME NEW n \in Nat, n \in T PROVE n + 1 \in T
  <2> SUFFICES ASSUME NEW before \in Nat, OmpFrom(ids, before) < n + 1
               PROVE  pages[before] = SubSeq(ids, 1, OmpFrom(ids, before))
    OBVIOUS
  <2> DEFINE page == OmpPage(lines, leaf, before, limit)
  <2>1. page.more => /\ page.before \in Nat
                     /\ OmpFrom(ids, page.before) = OmpFrom(ids, before) - limit
    BY OmpPageIs DEF OmpPageFits
  <2>2. page.more => OmpFrom(ids, page.before) < n
    BY <1>0, <1>6, <2>1
  <2>3. page.more => pages[page.before] = SubSeq(ids, 1, OmpFrom(ids, page.before))
    BY <1>8, <2>1, <2>2
  <2>4. OmpPagesStep(lines, leaf, limit, pages, before) = SubSeq(ids, 1, OmpFrom(ids, before))
    BY <1>1, <2>3
  <2> QED
    BY <1>5, <2>4
<1>9. Len(ids) + 1 \in T
  <2>1. Len(ids) + 1 \in Nat
    BY <1>0
  <2> HIDE DEF T
  <2> QED
    BY <1>7, <1>8, <2>1, Induction
<1>10. \A before \in Nat : OmpFrom(ids, before) < Len(ids) + 1
  BY <1>0, <1>6
<1> QED
  BY <1>9, <1>10 DEF pages

(* What is shown is the branch of some record. *)
LEMMA IdsShownAre ==
    ASSUME NEW lines, IsOmpJournal(lines), NEW leaf \in Nat
    PROVE  \E w \in 0..Len(Entries(lines)) : IdsShown(lines, leaf) = IdsOf(Entries(lines), w)
<1> DEFINE E == Entries(lines)
           last == IF WithId(E, leaf) # 0 THEN leaf ELSE IF E = <<>> THEN NoLeaf ELSE Last(E).id
           w == WithId(E, last)
<1>1. IsTree(E)
  BY EntriesAre
<1>2. IdsShown(lines, leaf) = IdsOf(E, w)
  BY DEF IdsShown, IdsOf, ShownPath, OmpBranch, BranchTo
<1> HIDE DEF E
<1>3. last \in Nat
  <2>1. E # <<>> => Last(E).id \in Nat
    <3>1. E # <<>> => Len(E) \in 1..Len(E)
      BY <1>1, EmptySeq DEF IsTree
    <3> QED
      BY <1>1, <3>1, TreeIs DEF Last
  <2> QED
    BY <2>1 DEF NoLeaf
<1> HIDE DEF last
<1>4. w \in 0..Len(E)
  BY <1>1, <1>3, WithIdIs
<1> QED
  BY <1>2, <1>4 DEF E

LEMMA HeadIs ==
    ASSUME NEW R, NEW s \in Seq(R), NEW n \in 0..Len(s)
    PROVE  /\ SubSeq(s, 1, n) \in Seq(R) /\ Len(SubSeq(s, 1, n)) = n
           /\ \A k \in 1..n : SubSeq(s, 1, n)[k] = s[k]
OBVIOUS

(* Two branches that show the same record show the same ones before it. *)
LEMMA IdsBefore ==
    ASSUME NEW E, IsTree(E), \A k \in 1..Len(E) : E[k].id # 0,
           NEW v \in 0..Len(E), NEW w \in 0..Len(E),
           NEW i \in 1..Len(IdsOf(E, v)), NEW j \in 1..Len(IdsOf(E, w)),
           IdsOf(E, v)[i] = IdsOf(E, w)[j]
    PROVE  SubSeq(IdsOf(E, v), 1, i - 1) = SubSeq(IdsOf(E, w), 1, j - 1)
<1> DEFINE s == ShownPath(E, v)
           t == ShownPath(E, w)
           a == IdsOf(E, v)
           b == IdsOf(E, w)
<1>1. /\ s \in Seq(1..Len(E)) /\ a \in Seq(Nat) /\ Len(a) = Len(s)
      /\ \A k \in 1..Len(s) : a[k] = E[s[k]].id
      /\ t \in Seq(1..Len(E)) /\ b \in Seq(Nat) /\ Len(b) = Len(t)
      /\ \A k \in 1..Len(t) : b[k] = E[t[k]].id
  BY IdsOfAre
<1>2. /\ ShownPath(E, WithId(E, E[s[i]].parent)) = SubSeq(s, 1, i - 1)
      /\ ShownPath(E, WithId(E, E[t[j]].parent)) = SubSeq(t, 1, j - 1)
  <2>1. i \in 1..Len(s) /\ j \in 1..Len(t)
    BY <1>1
  <2> QED
    BY <2>1, ShownPathIs
<1>0. DOMAIN E = 1..Len(E) /\ Len(E) \in Nat
  BY TreeIs
<1> HIDE DEF s, t, a, b
<1>3. Len(s) \in Nat /\ Len(t) \in Nat /\ i \in 1..Len(s) /\ j \in 1..Len(t) /\ a[i] = b[j]
      /\ s[i] \in DOMAIN E /\ t[j] \in DOMAIN E
  BY <1>0, <1>1, LenProperties, ElementOfSeq DEF a, b
<1>4. s[i] = t[j]
  <2>1. E[s[i]].id = E[t[j]].id /\ E[s[i]].id # 0
    BY <1>0, <1>1, <1>3
  <2> QED
    BY <1>3, <2>1 DEF IsTree
<1>5. SubSeq(s, 1, i - 1) = SubSeq(t, 1, j - 1)
  BY <1>2, <1>4
<1>6. /\ Len(SubSeq(s, 1, i - 1)) = i - 1 /\ Len(SubSeq(t, 1, j - 1)) = j - 1
      /\ \A k \in 1..(i - 1) : SubSeq(s, 1, i - 1)[k] = s[k]
      /\ \A k \in 1..(j - 1) : SubSeq(t, 1, j - 1)[k] = t[k]
  <2> DEFINE m == Len(s)
             l == Len(t)
  <2>0. m \in Nat /\ l \in Nat /\ i \in 1..m /\ j \in 1..l
    BY <1>3
  <2> HIDE DEF m, l
  <2>2. i - 1 \in 0..m /\ j - 1 \in 0..l
    BY <2>0
  <2>1. i - 1 \in 0..Len(s) /\ j - 1 \in 0..Len(t)
    BY <2>2 DEF m, l
  <2> QED
    BY <1>1, <2>1, HeadIs
<1>7. i = j
  <2>1. i - 1 = j - 1
    BY <1>5, <1>6
  <2>2. i \in Nat /\ j \in Nat
    BY <1>3
  <2> QED
    BY <2>1, <2>2
<1>8. \A k \in 1..(i - 1) : a[k] = b[k]
  <2> SUFFICES ASSUME NEW k \in 1..(i - 1) PROVE a[k] = b[k]
    OBVIOUS
  <2>1. s[k] = t[k]
    BY <1>5, <1>6, <1>7
  <2>2. k \in 1..Len(s) /\ k \in 1..Len(t)
    BY <1>3, <1>7
  <2> QED
    BY <1>1, <2>1, <2>2
<1>9. /\ SubSeq(a, 1, i - 1) \in Seq(Nat) /\ Len(SubSeq(a, 1, i - 1)) = i - 1
      /\ \A k \in 1..(i - 1) : SubSeq(a, 1, i - 1)[k] = a[k]
      /\ SubSeq(b, 1, i - 1) \in Seq(Nat) /\ Len(SubSeq(b, 1, i - 1)) = i - 1
      /\ \A k \in 1..(i - 1) : SubSeq(b, 1, i - 1)[k] = b[k]
  <2> DEFINE m == Len(a)
             l == Len(b)
  <2>0. m \in Nat /\ l \in Nat /\ i \in 1..m /\ i \in 1..l
    BY <1>1, <1>3, <1>7
  <2> HIDE DEF m, l
  <2>2. i - 1 \in 0..m /\ i - 1 \in 0..l
    <3> DEFINE k == i
    <3>1. k \in 1..m /\ k \in 1..l
      BY <2>0
    <3> HIDE DEF k
    <3>2. k - 1 \in 0..m /\ k - 1 \in 0..l
      BY <2>0, <3>1
    <3> QED
      BY <3>2 DEF k
  <2>1. i - 1 \in 0..Len(a) /\ i - 1 \in 0..Len(b)
    BY <2>2 DEF m, l
  <2>3. a \in Seq(Nat) /\ b \in Seq(Nat)
    BY <1>1
  <2> QED
    BY <2>1, <2>3, HeadIs
<1>10. SubSeq(a, 1, i - 1) = SubSeq(b, 1, i - 1)
  BY <1>8, <1>9, SeqEqual
<1> QED
  BY <1>7, <1>10 DEF a, b

LEMMA OlderOnTheBranch ==
    ASSUME NEW lines, IsOmpJournal(lines), NEW leaf \in Nat, NEW limit \in Nat \ {0}
    PROVE  \A before \in Nat :
             OmpPages(lines, leaf, limit)[before]
               = SubSeq(IdsShown(lines, leaf), 1, OmpFrom(IdsShown(lines, leaf), before))
<1> DEFINE ids == IdsShown(lines, leaf)
<1>1. PICK w \in 0..Len(Entries(lines)) : ids = IdsOf(Entries(lines), w)
  BY IdsShownAre
<1> HIDE DEF ids
<1>2. IsTree(Entries(lines)) /\ \A k \in 1..Len(Entries(lines)) : Entries(lines)[k].id # 0
  BY EntriesAre
<1>3. ids \in Seq(Nat) /\ \A i, j \in 1..Len(ids) : ids[i] = ids[j] => i = j
  BY <1>1, <1>2, IdsOfAre
<1>4. ids = IdsShown(lines, leaf)
  BY DEF ids
<1>5. \A before \in Nat : OmpPages(lines, leaf, limit)[before] = SubSeq(ids, 1, OmpFrom(ids, before))
  BY <1>3, <1>4, OmpPagesAre
<1> QED
  BY <1>4, <1>5

(* Whatever OMP has written since, and on whatever branch, its older pages *)
(* go on where the page before ended, when its oldest message is shown.    *)
THEOREM OmpPagesContinueAlways ==
    ASSUME NEW lines, IsOmpJournal(lines), NEW n \in 0..Len(lines), NEW leaf \in Nat,
           NEW limit \in Nat \ {0},
           OmpPage(UpTo(lines, n), NoLeaf, 0, limit).more,
           OmpPage(UpTo(lines, n), NoLeaf, 0, limit).before \in ToSet(IdsShown(lines, leaf))
    PROVE  OmpPages(lines, leaf, limit)[OmpPage(UpTo(lines, n), NoLeaf, 0, limit).before]
             \o OmpPage(UpTo(lines, n), NoLeaf, 0, limit).messages
           = IdsShown(UpTo(lines, n), NoLeaf)
<1> DEFINE before == UpTo(lines, n)
           page == OmpPage(before, NoLeaf, 0, limit)
           E == Entries(lines)
           B == Entries(before)
           now == IdsShown(lines, leaf)
           ids == IdsShown(before, NoLeaf)
<1>1. /\ IsOmpJournal(before) /\ Len(B) \in 0..Len(E) /\ \A k \in 1..Len(B) : B[k] = E[k]
      /\ IsTree(E) /\ IsTree(B) /\ \A k \in 1..Len(E) : E[k].id # 0
  BY EntriesGrow, EntriesAre
<1>2. PICK v \in 0..Len(E) : now = IdsOf(E, v)
  BY IdsShownAre
<1>3. PICK w \in 0..Len(B) : ids = IdsOf(B, w)
  BY <1>1, IdsShownAre DEF NoLeaf
<1>4. page.more /\ page.before \in ToSet(now)
  OBVIOUS
<1> HIDE DEF before, E, B, now, ids
<1>0. Len(E) \in Nat /\ Len(B) \in Nat /\ DOMAIN E = 1..Len(E)
  BY <1>1, TreeIs
<1>5. w \in 0..Len(E) /\ ids = IdsOf(E, w)
  <2>1. ShownPath(B, w) = ShownPath(E, w)
    BY <1>1, SamePaths
  <2>2. ShownPath(B, w) \in Seq(1..w)
    BY <1>1, ShownPathIs
  <2>3. \A i \in DOMAIN ShownPath(B, w) : B[ShownPath(B, w)[i]] = E[ShownPath(E, w)[i]]
    <3> DEFINE s == ShownPath(B, w)
    <3>1. \A i \in DOMAIN s : s[i] \in 1..Len(B)
      <4> HIDE DEF s
      <4>1. \A i \in DOMAIN s : s[i] \in 1..w
        BY <2>2, LenProperties, ElementOfSeq DEF s
      <4> QED
        BY <1>0, <4>1
    <3> QED
      BY <1>1, <2>1, <3>1
  <2>4. IdsOf(B, w) = IdsOf(E, w)
    BY <2>1, <2>3 DEF IdsOf
  <2>5. w \in 0..Len(E)
    BY <1>0, <1>1, <1>3
  <2> QED
    BY <1>3, <2>4, <2>5
<1>6. /\ now \in Seq(Nat) /\ \A i, j \in 1..Len(now) : now[i] = now[j] => i = j
      /\ ids \in Seq(Nat) /\ \A i, j \in 1..Len(ids) : ids[i] = ids[j] => i = j
  <2>0. ASSUME NEW u \in 0..Len(E)
        PROVE  IdsOf(E, u) \in Seq(Nat) /\ \A i, j \in 1..Len(IdsOf(E, u)) : IdsOf(E, u)[i] = IdsOf(E, u)[j] => i = j
    <3>1. IsTree(E) /\ \A k \in 1..Len(E) : E[k].id # 0
      BY <1>1
    <3>2. /\ IdsOf(E, u) \in Seq(Nat) /\ Len(IdsOf(E, u)) = Len(ShownPath(E, u))
          /\ \A i, j \in 1..Len(ShownPath(E, u)) : IdsOf(E, u)[i] = IdsOf(E, u)[j] => i = j
      BY <3>1, IdsOfAre
    <3> QED
      BY <3>2
  <2>1. IdsOf(E, v) \in Seq(Nat) /\ \A i, j \in 1..Len(IdsOf(E, v)) : IdsOf(E, v)[i] = IdsOf(E, v)[j] => i = j
    BY <2>0
  <2>2. IdsOf(E, w) \in Seq(Nat) /\ \A i, j \in 1..Len(IdsOf(E, w)) : IdsOf(E, w)[i] = IdsOf(E, w)[j] => i = j
    BY <1>5, <2>0
  <2> QED
    BY <1>2, <1>5, <2>1, <2>2
<1>7. Len(now) \in Nat /\ DOMAIN now = 1..Len(now) /\ Len(ids) \in Nat /\ DOMAIN ids = 1..Len(ids)
  BY <1>6, LenProperties
<1>8. \A i \in 1..Len(ids) : ids[i] # 0
  <2> SUFFICES ASSUME NEW i \in 1..Len(ids) PROVE ids[i] # 0
    OBVIOUS
  <2>1. /\ ShownPath(E, w) \in Seq(1..Len(E)) /\ Len(ids) = Len(ShownPath(E, w))
        /\ ids[i] = E[ShownPath(E, w)[i]].id
    BY <1>1, <1>5, IdsOfAre
  <2>2. ShownPath(E, w)[i] \in 1..Len(E)
    BY <2>1, ElementOfSeq
  <2> QED
    BY <1>1, <2>1, <2>2
<1>9. OmpFrom(ids, 0) = Len(ids)
  BY <1>7, <1>8 DEF OmpFrom
<1>10. OmpPageFits(before, NoLeaf, ids, 0, limit)
  <2>1. 0 \in Nat /\ ids = IdsShown(before, NoLeaf)
    BY DEF ids
  <2> QED
    BY <1>6, <2>1, OmpPageIs
<1> DEFINE c == Len(ids) - limit + 1
<1>11. /\ page.before \in Nat /\ page.before = ids[c] /\ Len(ids) > limit
       /\ SubSeq(ids, 1, Len(ids) - limit) \o page.messages = SubSeq(ids, 1, Len(ids))
  <2> DEFINE p == OmpPage(before, NoLeaf, 0, limit)
  <2> HIDE DEF p
  <2>1. p.more
    BY <1>4 DEF p
  <2> QED
    BY <1>9, <1>10, <2>1 DEF OmpPageFits, p
<1> HIDE DEF page
<1>12. c \in 1..Len(ids) /\ c - 1 = Len(ids) - limit
  <2>1. Len(ids) > limit
    BY <1>11
  <2> QED
    BY <1>7, <2>1
<1> HIDE DEF c
<1>13. PICK i \in 1..Len(now) : now[i] = page.before
  BY <1>4, <1>7 DEF ToSet
<1>14. SubSeq(now, 1, i - 1) = SubSeq(ids, 1, c - 1)
  <2>1. now[i] = ids[c]
    BY <1>11, <1>13
  <2>2. i \in 1..Len(IdsOf(E, v)) /\ c \in 1..Len(IdsOf(E, w)) /\ IdsOf(E, v)[i] = IdsOf(E, w)[c]
    BY <1>2, <1>5, <1>12, <1>13, <2>1
  <2>3. SubSeq(IdsOf(E, v), 1, i - 1) = SubSeq(IdsOf(E, w), 1, c - 1)
    BY <1>1, <1>5, <2>2, IdsBefore
  <2> QED
    BY <1>2, <1>5, <2>3
<1>15. OmpFrom(now, page.before) = i - 1
  <2>1. \A j \in DOMAIN now : now[j] = page.before <=> j = i
    BY <1>6, <1>7, <1>13
  <2> DEFINE k == CHOOSE j \in DOMAIN now : now[j] = page.before
  <2>2. k = i
    BY <1>7, <1>13, <2>1
  <2>3. \E j \in DOMAIN now : now[j] = page.before
    BY <1>7, <1>13
  <2>4. OmpFrom(now, page.before) = k - 1
    BY <2>3 DEF OmpFrom
  <2> HIDE DEF k
  <2> QED
    BY <2>2, <2>4, Zenon
<1>16. OmpPages(lines, leaf, limit)[page.before] = SubSeq(now, 1, i - 1)
  <2>1. now = IdsShown(lines, leaf)
    BY DEF now
  <2>2. \A b \in Nat : OmpPages(lines, leaf, limit)[b] = SubSeq(now, 1, OmpFrom(now, b))
    BY <2>1, OlderOnTheBranch
  <2>3. page.before \in Nat
    BY <1>11
  <2>4. OmpPages(lines, leaf, limit)[page.before] = SubSeq(now, 1, OmpFrom(now, page.before))
    BY <2>2, <2>3
  <2> QED
    BY <1>15, <2>4
<1>17. SubSeq(ids, 1, Len(ids)) = ids
  BY <1>6, SubSeqFull
<1>18. OmpPages(lines, leaf, limit)[page.before] \o page.messages = ids
  <2>1. OmpPages(lines, leaf, limit)[page.before] = SubSeq(ids, 1, Len(ids) - limit)
    BY <1>12, <1>14, <1>16
  <2>2. SubSeq(ids, 1, Len(ids) - limit) \o page.messages = SubSeq(ids, 1, Len(ids))
    BY <1>11
  <2> QED
    BY <1>17, <2>1, <2>2, Zenon
<1> QED
  BY <1>18 DEF page, before, ids

-----------------------------------------------------------------------------
(* Results of tool calls.  Parts are the places of the calls made last.    *)
Tables(calls) == UNION {[D -> Nat] : D \in SUBSET calls}
Statuses(kinds) == kinds \cup {"incomplete", "none"}
Seen(kinds, calls) == [parts : Tables(calls), status : Seq(Statuses(kinds))]

JoinedStep(branch, joins, n) ==
    IF n = 0 THEN [parts |-> <<>>, status |-> <<>>]
    ELSE LET record == branch[n]
             parts == joins[n - 1].parts
             statuses == joins[n - 1].status
         IN IF record.kind = "call"
            THEN [parts |-> Remember(parts, record, n), status |-> Append(statuses, "incomplete")]
            ELSE [parts |-> parts,
                  status |-> Append([k \in DOMAIN statuses |->
                                       IF record.call \in DOMAIN parts /\ k = parts[record.call]
                                       THEN record.kind ELSE statuses[k]], "none")]

Branching(kinds, calls) == Seq([kind : kinds, call : calls])

LEMMA BranchingIs ==
    ASSUME NEW kinds, NEW calls, NEW branch \in Branching(kinds, calls)
    PROVE  /\ Len(branch) \in Nat /\ DOMAIN branch = 1..Len(branch)
           /\ \A i \in 1..Len(branch) : branch[i].kind \in kinds /\ branch[i].call \in calls
           /\ \A i, j \in 1..Len(branch) :
                branch[i] = branch[j] <=> branch[i].kind = branch[j].kind /\ branch[i].call = branch[j].call
<1>1. Len(branch) \in Nat /\ DOMAIN branch = 1..Len(branch)
      /\ \A i \in 1..Len(branch) : branch[i] \in [kind : kinds, call : calls]
  BY LenProperties, ElementOfSeq DEF Branching
<1> QED
  BY <1>1

LEMMA JoinedStepType ==
    ASSUME NEW kinds, NEW calls, NEW branch \in Branching(kinds, calls), NEW n \in 1..Len(branch),
           NEW g, g[n - 1] \in Seen(kinds, calls)
    PROVE  JoinedStep(branch, g, n) \in Seen(kinds, calls)
<1> DEFINE record == branch[n]
           parts == g[n - 1].parts
           statuses == g[n - 1].status
           marked == [k \in DOMAIN statuses |-> IF record.call \in DOMAIN parts /\ k = parts[record.call]
                                              THEN record.kind ELSE statuses[k]]
<1>1. record.kind \in kinds /\ record.call \in calls /\ n \in Nat /\ n # 0
  BY BranchingIs
<1>2. parts \in Tables(calls) /\ statuses \in Seq(Statuses(kinds))
  BY DEF Seen
<1>3. JoinedStep(branch, g, n) = IF record.kind = "call"
                                 THEN [parts |-> Remember(parts, record, n), status |-> Append(statuses, "incomplete")]
                                 ELSE [parts |-> parts, status |-> Append(marked, "none")]
  BY <1>1 DEF JoinedStep
<1> HIDE DEF record, parts, statuses
<1>4. Remember(parts, record, n) \in Tables(calls)
  <2>1. PICK D \in SUBSET calls : parts \in [D -> Nat]
    BY <1>2 DEF Tables
  <2>2. Remember(parts, record, n) \in [D \cup {record.call} -> Nat]
    BY <1>1, <2>1 DEF Remember
  <2>3. D \cup {record.call} \in SUBSET calls
    BY <1>1, <2>1
  <2> QED
    BY <2>2, <2>3 DEF Tables
<1>5. marked \in Seq(Statuses(kinds))
  <2>1. DOMAIN statuses = 1..Len(statuses) /\ Len(statuses) \in Nat /\ \A k \in 1..Len(statuses) : statuses[k] \in Statuses(kinds)
    BY <1>2, LenProperties, ElementOfSeq
  <2>2. \A k \in 1..Len(statuses) : marked[k] \in Statuses(kinds)
    BY <1>1, <2>1 DEF Statuses
  <2>3. marked = [k \in 1..Len(statuses) |-> marked[k]]
    BY <2>1
  <2> HIDE DEF marked
  <2> QED
    BY <2>1, <2>2, <2>3
<1> HIDE DEF marked
<1>6. "incomplete" \in Statuses(kinds) /\ "none" \in Statuses(kinds)
  BY DEF Statuses
<1>7. Append(statuses, "incomplete") \in Seq(Statuses(kinds)) /\ Append(marked, "none") \in Seq(Statuses(kinds))
  BY <1>2, <1>5, <1>6, AppendProperties
<1> QED
  BY <1>2, <1>3, <1>4, <1>7 DEF Seen

LEMMA JoinedIs ==
    ASSUME NEW kinds, NEW calls, NEW branch \in Branching(kinds, calls)
    PROVE  /\ \A n \in 0..Len(branch) : Joined(branch)[n] = JoinedStep(branch, Joined(branch), n)
           /\ \A n \in 0..Len(branch) : Joined(branch)[n] \in Seen(kinds, calls)
<1> DEFINE D == 0..Len(branch)
           C == Seen(kinds, calls)
           rank == [n \in D |-> n]
           step == [x \in D \X [D -> C] |-> JoinedStep(branch, x[2], x[1])]
           Is(s) == s = [n \in D |-> JoinedStep(branch, s, n)]
           nothing == [parts |-> <<>>, status |-> <<>>]
<1>0. Len(branch) \in Nat
  BY BranchingIs
<1>1. nothing \in C
  <2>1. <<>> \in [{} -> Nat]
    <3>1. <<>> \in Seq(Nat) /\ Len(<<>>) = 0
      OBVIOUS
    <3>2. <<>> \in [1..Len(<<>>) -> Nat]
      BY <3>1, LenProperties
    <3>3. 1..0 = {}
      OBVIOUS
    <3> QED
      BY <3>1, <3>2, <3>3, Zenon
  <2>2. {} \in SUBSET calls
    OBVIOUS
  <2>3. <<>> \in Tables(calls)
    BY <2>1, <2>2 DEF Tables
  <2>4. <<>> \in Seq(Statuses(kinds))
    OBVIOUS
  <2> QED
    BY <2>3, <2>4 DEF Seen
<1> HIDE DEF C
<1>2. ASSUME NEW n \in D, NEW g \in [D -> C]
      PROVE  JoinedStep(branch, g, n) \in C
  <2>1. CASE n = 0
    BY <1>1, <2>1 DEF JoinedStep
  <2>2. CASE n # 0
    <3>1. n \in 1..Len(branch) /\ g[n - 1] \in C
      BY <1>0, <2>2
    <3> QED
      BY <3>1, JoinedStepType DEF C
  <2> QED
    BY <2>1, <2>2
<1>3. step \in [D \X [D -> C] -> C]
  BY <1>2
<1>4. LooksBelow(step, rank, D, C)
  <2>0. \A a \in D, g \in [D -> C] : step[<<a, g>>] = JoinedStep(branch, g, a)
    OBVIOUS
  <2> SUFFICES ASSUME NEW a \in D, NEW g \in [D -> C], NEW h \in [D -> C],
                      \A b \in D : rank[b] < rank[a] => g[b] = h[b]
               PROVE  JoinedStep(branch, g, a) = JoinedStep(branch, h, a)
    <3> HIDE DEF D, rank, step
    <3> QED
      BY <2>0 DEF LooksBelow
  <2>1. a # 0 => g[a - 1] = h[a - 1]
    BY <1>0
  <2> QED
    BY <2>1 DEF JoinedStep
<1>5. rank \in [D -> 0..Len(branch)]
  BY <1>0
<1>6. PICK f \in [D -> C] : Solves(f, step, D)
  <2> HIDE DEF D, rank, step, nothing
  <2> QED
    BY <1>0, <1>1, <1>3, <1>4, <1>5, Recursion
<1>7. Is(f)
  <2>1. \A n \in D : f[n] = JoinedStep(branch, f, n)
    BY <1>6 DEF Solves
  <2> QED
    BY <2>1
<1>8. Joined(branch) = CHOOSE s : Is(s)
  BY DEF Joined, JoinedStep
<1>9. Is(Joined(branch))
  <2> HIDE DEF Is
  <2> QED
    BY <1>7, <1>8
<1>10. \A n \in D : Joined(branch)[n] = JoinedStep(branch, Joined(branch), n)
  BY <1>9
<1> DEFINE T == {n \in Nat : n <= Len(branch) => Joined(branch)[n] \in C}
<1>11. 0 \in T
  <2>1. Joined(branch)[0] = JoinedStep(branch, Joined(branch), 0)
    BY <1>0, <1>10
  <2>2. JoinedStep(branch, Joined(branch), 0) = nothing
    BY Zenon DEF JoinedStep
  <2> QED
    BY <1>1, <2>1, <2>2
<1>12. ASSUME NEW n \in Nat, n \in T PROVE n + 1 \in T
  <2> SUFFICES ASSUME n + 1 <= Len(branch) PROVE Joined(branch)[n + 1] \in C
    OBVIOUS
  <2>1. n + 1 \in 1..Len(branch) /\ n + 1 \in D /\ Joined(branch)[(n + 1) - 1] \in C
    BY <1>0, <1>12
  <2> QED
    BY <1>10, <2>1, JoinedStepType DEF C
<1>13. Nat \subseteq T
  <2> HIDE DEF T
  <2> QED
    BY <1>11, <1>12, Induction
<1>14. \A n \in D : n \in T
  <2> HIDE DEF T
  <2> QED
    BY <1>0, <1>13
<1> QED
  BY <1>0, <1>10, <1>14 DEF C

Own(branch, k, n) ==
    LET again == {i \in (k + 1)..n : branch[i] = branch[k]}
    IN {i \in (k + 1)..n : branch[i].call = branch[k].call /\ \A j \in again : i < j}

StatusOf(branch, k, n) ==
    IF Own(branch, k, n) = {} THEN "incomplete" ELSE branch[WrittenLast(Own(branch, k, n))].kind

OwnGrown(branch, k, n) ==
    Own(branch, k, n + 1) =
      IF /\ branch[n + 1].kind # "call" /\ branch[n + 1].call = branch[k].call
         /\ \A j \in (k + 1)..n : branch[j] # branch[k]
      THEN Own(branch, k, n) \cup {n + 1} ELSE Own(branch, k, n)

LEMMA OwnGrows ==
    ASSUME NEW kinds, NEW calls, NEW branch \in Branching(kinds, calls),
           NEW n \in Nat, n + 1 \in 1..Len(branch), NEW k \in 1..n, branch[k].kind = "call"
    PROVE  OwnGrown(branch, k, n)
<1>1. branch[n + 1] = branch[k] <=> branch[n + 1].kind = "call" /\ branch[n + 1].call = branch[k].call
  <2>1. n + 1 \in 1..Len(branch) /\ k \in 1..Len(branch)
    BY BranchingIs
  <2> QED
    BY <2>1, BranchingIs
<1>0. n \in Nat /\ k \in Nat /\ k <= n
  OBVIOUS
<1>2. (k + 1)..(n + 1) = ((k + 1)..n) \cup {n + 1} /\ n + 1 \notin (k + 1)..n
      /\ \A i \in (k + 1)..n : i < n + 1
  BY <1>0
<1> DEFINE again == {i \in (k + 1)..n : branch[i] = branch[k]}
           more == {i \in (k + 1)..(n + 1) : branch[i] = branch[k]}
<1>3. more = IF branch[n + 1] = branch[k] THEN again \cup {n + 1} ELSE again
  BY <1>2
<1>4. ASSUME NEW i \in (k + 1)..n
      PROVE  (\A j \in more : i < j) <=> \A j \in again : i < j
  BY <1>2, <1>3
<1>5. (\A j \in more : n + 1 < j) <=> branch[n + 1] # branch[k] /\ again = {}
  BY <1>2, <1>3
<1>6. Own(branch, k, n) = {i \in (k + 1)..n : branch[i].call = branch[k].call /\ \A j \in again : i < j}
  BY DEF Own
<1>7. Own(branch, k, n + 1) = {i \in (k + 1)..(n + 1) : branch[i].call = branch[k].call /\ \A j \in more : i < j}
  BY DEF Own
<1>8. again = {} <=> \A j \in (k + 1)..n : branch[j] # branch[k]
  OBVIOUS
<1> HIDE DEF again, more
<1>9. Own(branch, k, n + 1) =
        IF branch[n + 1].kind # "call" /\ branch[n + 1].call = branch[k].call /\ again = {}
        THEN Own(branch, k, n) \cup {n + 1} ELSE Own(branch, k, n)
  BY <1>1, <1>2, <1>4, <1>5, <1>6, <1>7
<1> QED
  BY <1>8, <1>9 DEF OwnGrown

(* The table has the last call of each id. *)
Placed(branch, parts, n) ==
    /\ \A c \in DOMAIN parts :
         parts[c] \in 1..n /\ branch[parts[c]].kind = "call" /\ branch[parts[c]].call = c
    /\ \A k \in 1..n : branch[k].kind = "call"
         => branch[k].call \in DOMAIN parts /\ k <= parts[branch[k].call]

JoinedWell(branch, n) ==
    LET joins == Joined(branch)[n]
    IN /\ Placed(branch, joins.parts, n)
       /\ Len(joins.status) = n
       /\ \A k \in 1..n : branch[k].kind = "call" => joins.status[k] = StatusOf(branch, k, n)

LEMMA JoinedACall ==
    ASSUME NEW kinds, NEW calls, NEW branch \in Branching(kinds, calls),
           NEW n \in Nat, n + 1 \in 1..Len(branch), JoinedWell(branch, n),
           branch[n + 1].kind = "call"
    PROVE  JoinedWell(branch, n + 1)
<1> DEFINE record == branch[n + 1]
           parts == Joined(branch)[n].parts
           statuses == Joined(branch)[n].status
           joins == Joined(branch)[n + 1]
<1>0. Len(branch) \in Nat /\ record.call \in calls
  BY BranchingIs
<1>1. joins = [parts |-> Remember(parts, record, n + 1), status |-> Append(statuses, "incomplete")]
  <2>1. n + 1 \in 0..Len(branch) /\ n + 1 # 0 /\ (n + 1) - 1 = n
    BY <1>0
  <2>2. joins = JoinedStep(branch, Joined(branch), n + 1)
    BY <2>1, JoinedIs
  <2> QED
    BY <2>1, <2>2 DEF JoinedStep
<1>2. parts \in Tables(calls) /\ statuses \in Seq(Statuses(kinds))
  <2>1. n \in 0..Len(branch)
    BY <1>0
  <2>2. Joined(branch)[n] \in Seen(kinds, calls)
    BY <2>1, JoinedIs
  <2> QED
    BY <2>2 DEF Seen
<1>3. Placed(branch, parts, n) /\ Len(statuses) = n
      /\ \A k \in 1..n : branch[k].kind = "call" => statuses[k] = StatusOf(branch, k, n)
  BY DEF JoinedWell
<1> HIDE DEF joins, parts, statuses
<1>4. joins.parts = Remember(parts, record, n + 1) /\ joins.status = Append(statuses, "incomplete")
  BY <1>1
<1>5. Placed(branch, joins.parts, n + 1)
  <2>1. DOMAIN joins.parts = DOMAIN parts \cup {record.call}
        /\ \A c \in DOMAIN joins.parts : joins.parts[c] = IF c = record.call THEN n + 1 ELSE parts[c]
    BY <1>4 DEF Remember
  <2> QED
    BY <1>3, <2>1 DEF Placed
<1>6. Len(joins.status) = n + 1 /\ joins.status[n + 1] = "incomplete" /\ \A k \in 1..n : joins.status[k] = statuses[k]
  <2>1. "incomplete" \in Statuses(kinds)
    BY DEF Statuses
  <2> QED
    BY <1>2, <1>3, <1>4, <2>1, AppendProperties
<1>7. ASSUME NEW k \in 1..(n + 1), branch[k].kind = "call"
      PROVE  joins.status[k] = StatusOf(branch, k, n + 1)
  <2>1. CASE k = n + 1
    <3>1. Own(branch, n + 1, n + 1) = {}
      BY DEF Own
    <3> QED
      BY <1>6, <2>1, <3>1 DEF StatusOf
  <2>2. CASE k # n + 1
    <3>1. k \in 1..n
      BY <2>2
    <3>2. Own(branch, k, n + 1) = Own(branch, k, n)
      <4>1. OwnGrown(branch, k, n)
        BY <1>7, <3>1, OwnGrows
      <4> QED
        BY <4>1, Zenon DEF OwnGrown
    <3>3. StatusOf(branch, k, n + 1) = StatusOf(branch, k, n)
      BY <3>2 DEF StatusOf
    <3> QED
      BY <1>3, <1>6, <1>7, <3>1, <3>3
  <2> QED
    BY <2>1, <2>2
<1> QED
  BY <1>5, <1>6, <1>7 DEF JoinedWell, joins

LEMMA JoinedAResult ==
    ASSUME NEW kinds, NEW calls, NEW branch \in Branching(kinds, calls),
           NEW n \in Nat, n + 1 \in 1..Len(branch), JoinedWell(branch, n),
           branch[n + 1].kind # "call"
    PROVE  JoinedWell(branch, n + 1)
<1> DEFINE record == branch[n + 1]
           parts == Joined(branch)[n].parts
           statuses == Joined(branch)[n].status
           joins == Joined(branch)[n + 1]
           marked == [k \in DOMAIN statuses |-> IF record.call \in DOMAIN parts /\ k = parts[record.call]
                                              THEN record.kind ELSE statuses[k]]
<1>0. Len(branch) \in Nat
  BY BranchingIs
<1>9. record.kind \in kinds
  BY BranchingIs
<1>1. joins = [parts |-> parts, status |-> Append(marked, "none")]
  <2>1. n + 1 \in 0..Len(branch) /\ n + 1 # 0 /\ (n + 1) - 1 = n
    BY <1>0
  <2>2. joins = JoinedStep(branch, Joined(branch), n + 1)
    BY <2>1, JoinedIs
  <2> QED
    BY <2>1, <2>2 DEF JoinedStep
<1>2. parts \in Tables(calls) /\ statuses \in Seq(Statuses(kinds))
  <2>1. n \in 0..Len(branch)
    BY <1>0
  <2>2. Joined(branch)[n] \in Seen(kinds, calls)
    BY <2>1, JoinedIs
  <2> QED
    BY <2>2 DEF Seen
<1>3. Placed(branch, parts, n) /\ Len(statuses) = n
      /\ \A k \in 1..n : branch[k].kind = "call" => statuses[k] = StatusOf(branch, k, n)
  BY DEF JoinedWell
<1> HIDE DEF joins, parts, statuses
<1>4. DOMAIN statuses = 1..n /\ \A k \in 1..n : statuses[k] \in Statuses(kinds)
  BY <1>2, <1>3, LenProperties, ElementOfSeq
<1>5. marked \in Seq(Statuses(kinds)) /\ Len(marked) = n
      /\ \A k \in 1..n : marked[k] = IF record.call \in DOMAIN parts /\ k = parts[record.call]
                                     THEN record.kind ELSE statuses[k]
  <2>1. \A k \in 1..n : marked[k] = IF record.call \in DOMAIN parts /\ k = parts[record.call]
                                    THEN record.kind ELSE statuses[k]
    BY <1>4
  <2>2. \A k \in 1..n : marked[k] \in Statuses(kinds)
    BY <1>4, <1>9, <2>1 DEF Statuses
  <2>3. marked = [k \in 1..n |-> marked[k]]
    BY <1>4
  <2> HIDE DEF marked
  <2>4. marked \in Seq(Statuses(kinds)) /\ Len(marked) = n
    BY <2>2, <2>3
  <2> QED
    BY <2>1, <2>4
<1> HIDE DEF marked
<1>6. joins.parts = parts /\ joins.status = Append(marked, "none")
  BY <1>1
<1>7. Placed(branch, joins.parts, n + 1)
  BY <1>3, <1>6 DEF Placed
<1>8. Len(joins.status) = n + 1 /\ \A k \in 1..n : joins.status[k] = marked[k]
  <2>1. "none" \in Statuses(kinds)
    BY DEF Statuses
  <2> QED
    BY <1>5, <1>6, <2>1, AppendProperties
<1>10. ASSUME NEW k \in 1..(n + 1), branch[k].kind = "call"
       PROVE  joins.status[k] = StatusOf(branch, k, n + 1)
  <2>1. k \in 1..n
    BY <1>10
  <2> DEFINE ours == record.call \in DOMAIN parts /\ k = parts[record.call]
             fits == record.call = branch[k].call /\ \A j \in (k + 1)..n : branch[j] # branch[k]
  <2>2. ours <=> fits
    <3>1. ASSUME ours PROVE fits
      <4>1. record.call = branch[k].call
        BY <1>3, <3>1 DEF Placed
      <4>2. ASSUME NEW j \in (k + 1)..n PROVE branch[j] # branch[k]
        <5>1. SUFFICES ASSUME branch[j] = branch[k] PROVE FALSE
          OBVIOUS
        <5>2. j \in 1..n /\ branch[j].kind = "call" /\ branch[j].call = record.call
          BY <1>10, <2>1, <4>1, <5>1
        <5>3. j <= k
          BY <1>3, <3>1, <5>2 DEF Placed
        <5> QED
          BY <2>1, <5>3
      <4> QED
        BY <4>1, <4>2
    <3>2. ASSUME fits PROVE ours
      <4> DEFINE p == parts[record.call]
      <4>1. record.call \in DOMAIN parts /\ k <= p /\ p \in 1..n
            /\ branch[p].kind = "call" /\ branch[p].call = record.call
        BY <1>3, <1>10, <2>1, <3>2 DEF Placed
      <4>2. p # k => p \in (k + 1)..n /\ branch[p] = branch[k]
        <5>1. branch[p] = branch[k]
          <6>1. p \in 1..Len(branch) /\ k \in 1..Len(branch)
            BY <1>0, <2>1, <4>1
          <6>2. branch[p].kind = branch[k].kind /\ branch[p].call = branch[k].call
            BY <1>10, <3>2, <4>1
          <6> QED
            BY <6>1, <6>2, BranchingIs
        <5> QED
          BY <2>1, <4>1, <5>1
      <4> QED
        BY <3>2, <4>1, <4>2
    <3> QED
      BY <3>1, <3>2
  <2> HIDE DEF fits, ours
  <2>3. Own(branch, k, n + 1) = IF fits THEN Own(branch, k, n) \cup {n + 1} ELSE Own(branch, k, n)
    <3>1. OwnGrown(branch, k, n)
      BY <1>10, <2>1, OwnGrows
    <3> QED
      BY <3>1, Zenon DEF fits, OwnGrown
  <2>4. joins.status[k] = IF ours THEN record.kind ELSE statuses[k]
    BY <1>5, <1>8, <2>1 DEF ours
  <2>5. CASE fits
    <3> DEFINE own == Own(branch, k, n + 1)
    <3>1. own \in SUBSET (1..(n + 1)) /\ n + 1 \in own
      BY <2>1, <2>3, <2>5 DEF Own
    <3> HIDE DEF own
    <3>2. WrittenLast(own) \in own /\ \A j \in own : j <= WrittenLast(own)
      <4>1. n + 1 \in Nat /\ own # {}
        BY <3>1
      <4> QED
        BY <3>1, <4>1, WrittenLastIs, Zenon
    <3>3. WrittenLast(own) = n + 1
      <4> DEFINE w == WrittenLast(own)
      <4>1. w \in 1..(n + 1) /\ n + 1 <= w
        BY <3>1, <3>2
      <4> HIDE DEF w
      <4>2. w = n + 1
        BY <4>1
      <4> QED
        BY <4>2 DEF w
    <3>4. StatusOf(branch, k, n + 1) = record.kind
      BY <3>1, <3>3 DEF StatusOf, own
    <3> QED
      BY <2>2, <2>4, <2>5, <3>4
  <2>6. CASE ~fits
    <3>1. StatusOf(branch, k, n + 1) = StatusOf(branch, k, n)
      BY <2>3, <2>6 DEF StatusOf
    <3> QED
      BY <1>3, <1>10, <2>1, <2>2, <2>4, <2>6, <3>1
  <2> QED
    BY <2>5, <2>6
<1> QED
  BY <1>7, <1>8, <1>10 DEF JoinedWell, joins

(* A tool call has the status of the last result that names it, up to the  *)
(* next call that takes the same id, on a branch of any length.            *)
THEOREM ResultsJoinTheirCallsAlways ==
    ASSUME NEW kinds, NEW calls, NEW branch \in Branching(kinds, calls),
           NEW k \in DOMAIN branch, branch[k].kind = "call"
    PROVE  LET again == {i \in (k + 1)..Len(branch) : branch[i] = branch[k]}
               own == {i \in (k + 1)..Len(branch) :
                          branch[i].call = branch[k].call /\ \A j \in again : i < j}
           IN ToolStatus(branch)[k] = IF own = {} THEN "incomplete" ELSE branch[WrittenLast(own)].kind
<1> DEFINE T == {n \in Nat : n <= Len(branch) => JoinedWell(branch, n)}
<1>0. Len(branch) \in Nat /\ k \in 1..Len(branch)
  BY BranchingIs
<1>1. 0 \in T
  <2>1. 0 \in 0..Len(branch)
    BY <1>0
  <2>2. Joined(branch)[0] = JoinedStep(branch, Joined(branch), 0)
    BY <2>1, JoinedIs
  <2>3. JoinedStep(branch, Joined(branch), 0) = [parts |-> <<>>, status |-> <<>>]
    BY Zenon DEF JoinedStep
  <2>4. Joined(branch)[0].parts = <<>> /\ Joined(branch)[0].status = <<>>
    BY <2>2, <2>3
  <2>5. DOMAIN <<>> = {} /\ Len(<<>>) = 0 /\ 1..0 = {}
    OBVIOUS
  <2> QED
    BY <2>4, <2>5 DEF JoinedWell, Placed
<1>2. ASSUME NEW n \in Nat, n \in T PROVE n + 1 \in T
  <2> SUFFICES ASSUME n + 1 <= Len(branch) PROVE JoinedWell(branch, n + 1)
    OBVIOUS
  <2>1. n + 1 \in 1..Len(branch) /\ JoinedWell(branch, n)
    BY <1>0, <1>2
  <2>2. CASE branch[n + 1].kind = "call"
    BY <2>1, <2>2, JoinedACall
  <2>3. CASE branch[n + 1].kind # "call"
    BY <2>1, <2>3, JoinedAResult
  <2> QED
    BY <2>2, <2>3
<1>3. Len(branch) \in T
  <2> HIDE DEF T
  <2> QED
    BY <1>0, <1>1, <1>2, Induction
<1>4. JoinedWell(branch, Len(branch))
  BY <1>0, <1>3
<1>5. ToolStatus(branch)[k] = StatusOf(branch, k, Len(branch))
  BY <1>0, <1>4 DEF JoinedWell, ToolStatus
<1> QED
  BY <1>5 DEF StatusOf, Own

-----------------------------------------------------------------------------
(* Codex's rollout.  Lines grow a byte at a time. *)
NoLine(offset) == [text |-> <<>>, offset |-> offset]

LineStep(lines, byte, next) ==
    IF byte = Break THEN Append(lines, NoLine(next))
    ELSE Append(Front(lines), [text |-> Append(Last(lines).text, byte), offset |-> Last(lines).offset])

LEMMA NoLineIs ==
    \A n \in Nat : NoLine(n) \in Lines /\ NoLine(n) \notin MessageLines /\ NoLine(n).text = <<>>
                   /\ NoLine(n).offset = n
<1> SUFFICES ASSUME NEW n \in Nat
             PROVE  NoLine(n) \in Lines /\ NoLine(n) \notin MessageLines /\ NoLine(n).text = <<>>
                    /\ NoLine(n).offset = n
  OBVIOUS
<1>1. <<>> \in Seq(Bytes)
  OBVIOUS
<1> QED
  BY <1>1 DEF NoLine, Lines, MessageLines

LEMMA FrontLast ==
    ASSUME NEW R, NEW s \in Seq(R), s # <<>>
    PROVE  /\ Front(s) \in Seq(R) /\ Last(s) \in R /\ s = Append(Front(s), Last(s))
           /\ Head(s) \in R /\ Tail(s) \in Seq(R) /\ s = <<Head(s)>> \o Tail(s)
           /\ Len(s) \in Nat /\ Len(s) > 0 /\ Len(Front(s)) = Len(s) - 1
           /\ Front(s) = SubSeq(s, 1, Len(s) - 1) /\ Last(s) = s[Len(s)]
<1>1. Len(s) \in Nat /\ Len(s) > 0
  BY EmptySeq, LenProperties
<1>2. Front(s) = SubSeq(s, 1, Len(s) - 1) /\ Last(s) = s[Len(s)]
  BY DEF Front, Last
<1>3. Len(s) - 1 \in 0..Len(s) /\ Len(s) \in 1..Len(s)
  BY <1>1
<1>4. Front(s) \in Seq(R) /\ Len(Front(s)) = Len(s) - 1 /\ \A k \in 1..(Len(s) - 1) : Front(s)[k] = s[k]
  BY <1>2, <1>3, HeadIs
<1>5. Last(s) \in R
  BY <1>2, <1>3, ElementOfSeq
<1>6. s = Append(Front(s), Last(s))
  <2> DEFINE f == Front(s)
             x == Last(s)
  <2>1. f \in Seq(R) /\ x \in R /\ Len(f) = Len(s) - 1 /\ (\A k \in 1..(Len(s) - 1) : f[k] = s[k]) /\ x = s[Len(s)]
    BY <1>2, <1>4, <1>5
  <2> HIDE DEF f, x
  <2>2. Append(f, x) \in Seq(R) /\ Len(Append(f, x)) = Len(s) /\ \A k \in 1..Len(s) : Append(f, x)[k] = s[k]
    BY <1>1, <2>1
  <2>3. Append(f, x) = s
    BY <2>2, SeqEqual
  <2> QED
    BY <2>3 DEF f, x
<1>7. Head(s) \in R /\ Tail(s) \in Seq(R)
  BY HeadTailProperties
<1>8. s = <<Head(s)>> \o Tail(s)
  <2> DEFINE h == Head(s)
             t == Tail(s)
  <2>1. h = s[1] /\ t \in Seq(R) /\ Len(t) = Len(s) - 1 /\ (\A k \in 1..(Len(s) - 1) : t[k] = s[k + 1]) /\ h \in R
    BY <1>1, <1>7, HeadTailProperties
  <2> HIDE DEF h, t
  <2>2. <<h>> \o t \in Seq(R) /\ Len(<<h>> \o t) = Len(s) /\ \A k \in 1..Len(s) : (<<h>> \o t)[k] = s[k]
    BY <1>1, <2>1
  <2>3. <<h>> \o t = s
    BY <2>2, SeqEqual
  <2> QED
    BY <2>3 DEF h, t
<1> QED
  BY <1>1, <1>2, <1>4, <1>5, <1>6, <1>7, <1>8

LEMMA FrontLastOfAppend ==
    ASSUME NEW R, NEW s \in Seq(R), NEW x \in R
    PROVE  /\ Append(s, x) \in Seq(R) /\ Append(s, x) # <<>>
           /\ Front(Append(s, x)) = s /\ Last(Append(s, x)) = x
<1> DEFINE u == Append(s, x)
<1>1. u \in Seq(R) /\ Len(u) = Len(s) + 1 /\ u[Len(s) + 1] = x /\ Len(s) \in Nat /\ \A k \in 1..Len(s) : u[k] = s[k]
  BY AppendProperties
<1> HIDE DEF u
<1>2. u # <<>>
  BY <1>1, EmptySeq
<1>3. Len(s) + 1 - 1 = Len(s) /\ Len(s) \in 0..Len(u)
  BY <1>1
<1>4. Front(u) = SubSeq(u, 1, Len(s)) /\ Last(u) = x
  BY <1>1, <1>3 DEF Front, Last
<1>5. SubSeq(u, 1, Len(s)) = s
  BY <1>1, <1>3, HeadIs, SeqEqual
<1> QED
  BY <1>1, <1>2, <1>4, <1>5 DEF u

LEMMA HeadTailOfConcat ==
    ASSUME NEW R, NEW x \in R, NEW s \in Seq(R)
    PROVE  Head(<<x>> \o s) = x /\ Tail(<<x>> \o s) = s /\ <<x>> \o s \in Seq(R) /\ <<x>> \o s # <<>>
<1> DEFINE u == <<x>> \o s
<1>1. u \in Seq(R) /\ Len(u) = Len(s) + 1 /\ u[1] = x /\ Len(s) \in Nat /\ \A k \in 1..Len(s) : u[k + 1] = s[k]
  OBVIOUS
<1> HIDE DEF u
<1>2. u # <<>>
  BY <1>1, EmptySeq
<1>3. Head(u) = x
  BY <1>1
<1>4. Tail(u) \in Seq(R) /\ Len(Tail(u)) = Len(s) /\ \A k \in 1..Len(s) : Tail(u)[k] = s[k]
  BY <1>1, <1>2, HeadTailProperties
<1>5. Tail(u) = s
  BY <1>4, SeqEqual
<1> QED
  BY <1>1, <1>2, <1>3, <1>5 DEF u

LEMMA LineStepIs ==
    ASSUME NEW s \in Seq(Lines), s # <<>>, NEW byte \in Bytes, NEW next \in Nat
    PROVE  LineStep(s, byte, next) \in Seq(Lines) /\ LineStep(s, byte, next) # <<>>
<1>1. Front(s) \in Seq(Lines) /\ Last(s) \in Lines
  BY FrontLast
<1>2. Append(Last(s).text, byte) \in Seq(Bytes) /\ Last(s).offset \in Nat
  <2>1. Last(s).text \in Seq(Bytes) /\ Last(s).offset \in Nat
    BY <1>1 DEF Lines
  <2> QED
    BY <2>1, AppendProperties
<1>3. [text |-> Append(Last(s).text, byte), offset |-> Last(s).offset] \in Lines
  BY <1>2 DEF Lines
<1>4. NoLine(next) \in Lines
  BY NoLineIs
<1> QED
  BY <1>1, <1>3, <1>4, FrontLastOfAppend DEF LineStep

LEMMA ConcatAppend ==
    ASSUME NEW R, NEW r \in Seq(R), NEW s \in Seq(R), NEW x \in R
    PROVE  r \o Append(s, x) = Append(r \o s, x) /\ r \o s \in Seq(R)
OBVIOUS

(* Lines before the last one stay as they are. *)
LEMMA LineStepConcat ==
    ASSUME NEW r \in Seq(Lines), NEW s \in Seq(Lines), s # <<>>, NEW byte \in Bytes, NEW next \in Nat
    PROVE  LineStep(r \o s, byte, next) = r \o LineStep(s, byte, next)
<1>1. Front(s) \in Seq(Lines) /\ Last(s) \in Lines /\ s = Append(Front(s), Last(s))
  BY FrontLast
<1> DEFINE f == Front(s)
           x == Last(s)
           u == r \o f
<1>2. r \o s = Append(u, x) /\ u \in Seq(Lines)
  <2>1. r \o Append(f, x) = Append(r \o f, x) /\ r \o f \in Seq(Lines)
    BY <1>1, ConcatAppend
  <2> QED
    BY <1>1, <2>1
<1>3. Front(r \o s) = r \o Front(s) /\ Last(r \o s) = Last(s)
  <2>1. Front(Append(u, x)) = u /\ Last(Append(u, x)) = x
    <3>1. x \in Lines /\ u \in Seq(Lines)
      BY <1>1, <1>2
    <3> HIDE DEF u, x
    <3> QED
      BY <3>1, FrontLastOfAppend
  <2> QED
    BY <1>2, <2>1
<1>4. NoLine(next) \in Lines
  BY NoLineIs
<1>5. \A y : r \o Append(s, y) = Append(r \o s, y) /\ r \o Append(Front(s), y) = Append(r \o Front(s), y)
  <2> TAKE y
  <2>1. r \in Seq(Lines \cup {y}) /\ s \in Seq(Lines \cup {y}) /\ Front(s) \in Seq(Lines \cup {y}) /\ y \in Lines \cup {y}
    BY <1>1, SeqMonotonic
  <2> QED
    BY <2>1, ConcatAppend
<1> QED
  BY <1>3, <1>5 DEF LineStep

SplitStep(data, at, split, i) ==
    IF i = 0 THEN <<NoLine(at)>> ELSE LineStep(split[i - 1], data[i], at + i)

LEMMA SplitIs ==
    ASSUME NEW data \in Seq(Bytes), NEW at \in Nat
    PROVE  /\ \A i \in 0..Len(data) : Split(data, at)[i] = SplitStep(data, at, Split(data, at), i)
           /\ \A i \in 0..Len(data) : Split(data, at)[i] \in Seq(Lines) /\ Split(data, at)[i] # <<>>
<1> DEFINE D == 0..Len(data)
           C == {s \in Seq(Lines) : s # <<>>}
           rank == [i \in D |-> i]
           step == [x \in D \X [D -> C] |-> SplitStep(data, at, x[2], x[1])]
           Is(k) == k = [i \in D |-> SplitStep(data, at, k, i)]
<1>0. Len(data) \in Nat /\ \A i \in 1..Len(data) : data[i] \in Bytes
  BY LenProperties, ElementOfSeq
<1>1. <<NoLine(at)>> \in C
  <2>1. NoLine(at) \in Lines
    BY NoLineIs
  <2> QED
    BY <2>1
<1>2. ASSUME NEW i \in D, NEW g, i # 0 => g[i - 1] \in C
      PROVE  SplitStep(data, at, g, i) \in C
  <2>1. CASE i = 0
    BY <1>1, <2>1 DEF SplitStep
  <2>2. CASE i # 0
    <3>1. g[i - 1] \in Seq(Lines) /\ g[i - 1] # <<>>
      BY <1>2, <2>2
    <3>2. data[i] \in Bytes /\ at + i \in Nat
      BY <1>0, <2>2
    <3> QED
      BY <2>2, <3>1, <3>2, LineStepIs DEF SplitStep
  <2> QED
    BY <2>1, <2>2
<1> HIDE DEF C
<1>3. step \in [D \X [D -> C] -> C] /\ \A a \in D, g \in [D -> C] : step[<<a, g>>] = SplitStep(data, at, g, a)
  <2>1. ASSUME NEW a \in D, NEW g \in [D -> C] PROVE SplitStep(data, at, g, a) \in C
    <3>1. a # 0 => g[a - 1] \in C
      BY <1>0
    <3> QED
      BY <1>2, <3>1
  <2> QED
    BY <2>1
<1>4. LooksBelow(step, rank, D, C)
  <2> SUFFICES ASSUME NEW a \in D, NEW g \in [D -> C], NEW h \in [D -> C],
                      \A b \in D : rank[b] < rank[a] => g[b] = h[b]
               PROVE  SplitStep(data, at, g, a) = SplitStep(data, at, h, a)
    <3> HIDE DEF D, rank, step
    <3> QED
      BY <1>3 DEF LooksBelow
  <2>1. a # 0 => g[a - 1] = h[a - 1]
    BY <1>0
  <2> QED
    BY <2>1 DEF SplitStep
<1>5. rank \in [D -> 0..Len(data)]
  BY <1>0
<1>6. PICK k \in [D -> C] : Solves(k, step, D)
  <2> HIDE DEF D, rank, step
  <2> QED
    BY <1>0, <1>1, <1>3, <1>4, <1>5, Recursion
<1>7. Is(k)
  <2>1. \A i \in D : k[i] = SplitStep(data, at, k, i)
    <3> HIDE DEF D, step
    <3> QED
      BY <1>3, <1>6 DEF Solves
  <2> QED
    BY <2>1
<1>8. Split(data, at) = CHOOSE s : Is(s)
  BY DEF Split, SplitStep, LineStep, NoLine
<1>9. Is(Split(data, at))
  <2> HIDE DEF Is
  <2> QED
    BY <1>7, <1>8
<1>10. \A i \in D : Split(data, at)[i] = SplitStep(data, at, Split(data, at), i)
  BY <1>9
<1> DEFINE T == {n \in Nat : n <= Len(data) => Split(data, at)[n] \in C}
<1>11. 0 \in T
  BY <1>0, <1>1, <1>10 DEF SplitStep
<1>12. ASSUME NEW n \in Nat, n \in T PROVE n + 1 \in T
  <2> SUFFICES ASSUME n + 1 <= Len(data) PROVE Split(data, at)[n + 1] \in C
    OBVIOUS
  <2>1. n + 1 \in D /\ Split(data, at)[(n + 1) - 1] \in C
    BY <1>0, <1>12
  <2> QED
    BY <1>2, <1>10, <2>1
<1>13. \A i \in D : i \in T
  <2>1. Nat \subseteq T
    <3> HIDE DEF T
    <3> QED
      BY <1>11, <1>12, Induction
  <2> HIDE DEF T
  <2> QED
    BY <1>0, <2>1
<1> QED
  BY <1>0, <1>10, <1>13 DEF C

LEMMA LinesOfType ==
    ASSUME NEW data \in Seq(Bytes), NEW at \in Nat
    PROVE  LinesOf(data, at) \in Seq(Lines) /\ LinesOf(data, at) # <<>>
<1>1. Len(data) \in 0..Len(data)
  BY LenProperties
<1> QED
  BY <1>1, SplitIs DEF LinesOf

LEMMA LinesOfEmpty ==
    ASSUME NEW at \in Nat
    PROVE  LinesOf(<<>>, at) = <<NoLine(at)>>
<1>1. <<>> \in Seq(Bytes) /\ Len(<<>>) = 0 /\ 0 \in 0..0
  OBVIOUS
<1>2. Split(<<>>, at)[0] = SplitStep(<<>>, at, Split(<<>>, at), 0)
  BY <1>1, SplitIs
<1> QED
  BY <1>1, <1>2 DEF LinesOf, SplitStep

LEMMA LinesOfAppend ==
    ASSUME NEW data \in Seq(Bytes), NEW byte \in Bytes, NEW at \in Nat
    PROVE  LinesOf(Append(data, byte), at) = LineStep(LinesOf(data, at), byte, at + Len(data) + 1)
<1> DEFINE t == Append(data, byte)
           same == {i \in Nat : i <= Len(data) => Split(t, at)[i] = Split(data, at)[i]}
<1>1. t \in Seq(Bytes) /\ Len(t) = Len(data) + 1 /\ t[Len(data) + 1] = byte /\ Len(data) \in Nat
      /\ \A i \in 1..Len(data) : t[i] = data[i]
  BY AppendProperties
<1> HIDE DEF t
<1>2. /\ \A i \in 0..Len(data) : Split(data, at)[i] = SplitStep(data, at, Split(data, at), i)
      /\ \A i \in 0..(Len(data) + 1) : Split(t, at)[i] = SplitStep(t, at, Split(t, at), i)
  BY <1>1, SplitIs
<1>3. 0 \in same
  BY <1>1, <1>2 DEF SplitStep
<1>4. ASSUME NEW n \in Nat, n \in same PROVE n + 1 \in same
  <2> SUFFICES ASSUME n + 1 <= Len(data) PROVE Split(t, at)[n + 1] = Split(data, at)[n + 1]
    OBVIOUS
  <2>1. n + 1 \in 0..Len(data) /\ n + 1 \in 0..(Len(data) + 1) /\ n + 1 \in 1..Len(data) /\ n + 1 # 0 /\ (n + 1) - 1 = n
    BY <1>1
  <2>2. Split(t, at)[n] = Split(data, at)[n] /\ t[n + 1] = data[n + 1]
    BY <1>1, <1>4, <2>1
  <2>3. Split(t, at)[n + 1] = SplitStep(t, at, Split(t, at), n + 1)
        /\ Split(data, at)[n + 1] = SplitStep(data, at, Split(data, at), n + 1)
    BY <1>2, <2>1
  <2> QED
    BY <2>1, <2>2, <2>3 DEF SplitStep
<1>5. Split(t, at)[Len(data)] = Split(data, at)[Len(data)]
  <2>1. Nat \subseteq same
    <3> HIDE DEF same
    <3> QED
      BY <1>3, <1>4, Induction
  <2> QED
    BY <1>1, <2>1
<1>6. Split(t, at)[Len(data) + 1] = SplitStep(t, at, Split(t, at), Len(data) + 1)
  BY <1>1, <1>2
<1>7. Len(data) + 1 # 0 /\ (Len(data) + 1) - 1 = Len(data) /\ at + (Len(data) + 1) = at + Len(data) + 1
  BY <1>1
<1>8. LinesOf(t, at) = LineStep(LinesOf(data, at), byte, at + Len(data) + 1)
  BY <1>1, <1>5, <1>6, <1>7 DEF SplitStep, LinesOf
<1> QED
  BY <1>8 DEF t

(* The bytes of the last line are those after the last break. *)
TextsOf == Seq(Bytes \ {Break})

LEMMA LastLineIs ==
    ASSUME NEW at \in Nat
    PROVE  \A data \in Seq(Bytes) :
             /\ Last(LinesOf(data, at)).text \in TextsOf /\ Last(LinesOf(data, at)).offset \in Nat
             /\ Last(LinesOf(data, at)).offset + Len(Last(LinesOf(data, at)).text) = at + Len(data)
             /\ Last(LinesOf(data, at)) = [text |-> Last(LinesOf(data, at)).text, offset |-> Last(LinesOf(data, at)).offset]
<1> DEFINE Fits(d) == /\ Last(LinesOf(d, at)).text \in TextsOf
                      /\ Last(LinesOf(d, at)).offset + Len(Last(LinesOf(d, at)).text) = at + Len(d)
           T == {d \in Seq(Bytes) : Fits(d)}
<1>1. <<>> \in T
  <2>1. Last(LinesOf(<<>>, at)) = NoLine(at)
    <3>1. Append(<<>>, NoLine(at)) = <<NoLine(at)>> /\ <<>> \in Seq(Lines) /\ NoLine(at) \in Lines
      BY NoLineIs
    <3>2. Last(Append(<<>>, NoLine(at))) = NoLine(at)
      BY <3>1, FrontLastOfAppend
    <3> QED
      BY <3>1, <3>2, LinesOfEmpty
  <2>2. <<>> \in Seq(Bytes) /\ <<>> \in TextsOf /\ Len(<<>>) = 0
    BY DEF TextsOf
  <2>3. NoLine(at).text = <<>> /\ NoLine(at).offset = at
    BY NoLineIs
  <2> QED
    BY <2>1, <2>2, <2>3
<1>2. ASSUME NEW d \in Seq(Bytes), NEW b \in Bytes, d \in T PROVE Append(d, b) \in T
  <2> DEFINE L == LinesOf(d, at)
             M == LinesOf(Append(d, b), at)
             x == Last(L)
  <2>1. L \in Seq(Lines) /\ L # <<>> /\ M = LineStep(L, b, at + Len(d) + 1)
        /\ Append(d, b) \in Seq(Bytes) /\ Len(Append(d, b)) = Len(d) + 1 /\ Len(d) \in Nat
    <3>1. L \in Seq(Lines) /\ L # <<>>
      BY LinesOfType
    <3>2. M = LineStep(L, b, at + Len(d) + 1)
      BY LinesOfAppend
    <3> HIDE DEF L, M
    <3> QED
      BY <3>1, <3>2, AppendProperties
  <2>2. x \in Lines /\ Front(L) \in Seq(Lines) /\ x.text \in TextsOf /\ x.offset + Len(x.text) = at + Len(d)
    BY <1>2, <2>1, FrontLast
  <2> HIDE DEF L, M, x
  <2>3. CASE b = Break
    <3>1. NoLine(at + Len(d) + 1) \in Lines /\ NoLine(at + Len(d) + 1).text = <<>>
          /\ NoLine(at + Len(d) + 1).offset = at + Len(d) + 1
      BY <2>1, NoLineIs
    <3>2. Last(M) = NoLine(at + Len(d) + 1)
      BY <2>1, <2>3, <3>1, FrontLastOfAppend DEF LineStep
    <3>3. <<>> \in TextsOf /\ Len(<<>>) = 0
      BY DEF TextsOf
    <3> QED
      BY <2>1, <3>1, <3>2, <3>3 DEF M
  <2>4. CASE b # Break
    <3> DEFINE u == Append(x.text, b)
               y == [text |-> u, offset |-> x.offset]
    <3>1. u \in TextsOf /\ Len(u) = Len(x.text) + 1 /\ u \in Seq(Bytes)
      <4>1. x.text \in Seq(Bytes \ {Break}) /\ b \in Bytes \ {Break} /\ x.text \in Seq(Bytes)
        BY <2>2, <2>4 DEF TextsOf, Lines
      <4> QED
        BY <4>1, AppendProperties DEF TextsOf
    <3>2. y \in Lines /\ y.text = u /\ y.offset = x.offset /\ x.offset \in Nat
      BY <2>2, <3>1 DEF Lines
    <3>3. M = Append(Front(L), y)
      BY <2>1, <2>4 DEF LineStep, x
    <3> HIDE DEF y, u
    <3>4. Last(M) = y
      BY <2>2, <3>2, <3>3, FrontLastOfAppend
    <3>5. Len(x.text) \in Nat
      BY <2>2, LenProperties DEF TextsOf
    <3>6. x.offset + Len(u) = at + (Len(d) + 1)
      <4> DEFINE p == Len(x.text)
                 q == Len(d)
                 r == x.offset
      <4>1. p \in Nat /\ q \in Nat /\ r \in Nat /\ r + p = at + q /\ Len(u) = p + 1
        BY <2>1, <2>2, <3>1, <3>2, <3>5
      <4> HIDE DEF p, q, r
      <4>2. r + (p + 1) = at + (q + 1)
        BY <4>1
      <4> QED
        BY <4>1, <4>2 DEF q, r
    <3>7. Last(M).text \in TextsOf /\ Last(M).offset + Len(Last(M).text) = at + Len(Append(d, b))
      BY <2>1, <3>1, <3>2, <3>4, <3>6
    <3> QED
      BY <2>1, <3>7 DEF M
  <2> QED
    BY <2>3, <2>4
<1>3. Seq(Bytes) \subseteq T
  <2> HIDE DEF T
  <2> QED
    BY <1>1, <1>2, SeqInduction
<1>4. ASSUME NEW data \in Seq(Bytes)
      PROVE  /\ Last(LinesOf(data, at)).offset \in Nat
             /\ Last(LinesOf(data, at)) = [text |-> Last(LinesOf(data, at)).text, offset |-> Last(LinesOf(data, at)).offset]
  <2> DEFINE x == Last(LinesOf(data, at))
  <2>1. x \in Lines
    BY LinesOfType, FrontLast
  <2> HIDE DEF x
  <2>2. x.offset \in Nat /\ x = [text |-> x.text, offset |-> x.offset]
    BY <2>1 DEF Lines
  <2> QED
    BY <2>2 DEF x
<1> QED
  BY <1>3, <1>4

LEMMA LineOfText ==
    ASSUME NEW at \in Nat
    PROVE  \A u \in TextsOf : LinesOf(u, at) = <<[text |-> u, offset |-> at]>>
<1> DEFINE T == {u \in TextsOf : LinesOf(u, at) = <<[text |-> u, offset |-> at]>>}
<1>1. <<>> \in T
  <2>1. <<>> \in TextsOf
    BY DEF TextsOf
  <2> QED
    BY <2>1, LinesOfEmpty DEF NoLine
<1>2. ASSUME NEW u \in Seq(Bytes \ {Break}), NEW b \in Bytes \ {Break}, u \in T PROVE Append(u, b) \in T
  <2> DEFINE line == [text |-> u, offset |-> at]
             long == [text |-> Append(u, b), offset |-> at]
  <2>1. u \in Seq(Bytes) /\ Append(u, b) \in TextsOf
    <3>1. u \in Seq(Bytes)
      BY SeqMonotonic
    <3> QED
      BY <3>1, AppendProperties DEF TextsOf
  <2>2. LinesOf(Append(u, b), at) = LineStep(<<line>>, b, at + Len(u) + 1)
    BY <1>2, <2>1, LinesOfAppend
  <2>3. line \in Lines /\ line.text = u /\ line.offset = at
    BY <2>1 DEF Lines
  <2> HIDE DEF line
  <2>4. <<line>> = Append(<<>>, line) /\ <<>> \in Seq(Lines)
    OBVIOUS
  <2>5. Front(<<line>>) = <<>> /\ Last(<<line>>) = line
    <3>1. Front(Append(<<>>, line)) = <<>> /\ Last(Append(<<>>, line)) = line
      BY <2>3, <2>4, FrontLastOfAppend, Zenon
    <3> QED
      BY <2>4, <3>1
  <2>6. LineStep(<<line>>, b, at + Len(u) + 1) = Append(<<>>, long)
    BY <2>3, <2>5 DEF LineStep
  <2>7. Append(<<>>, long) = <<long>>
    OBVIOUS
  <2> QED
    BY <2>1, <2>2, <2>6, <2>7
<1>3. Seq(Bytes \ {Break}) \subseteq T
  <2> HIDE DEF T
  <2> QED
    BY <1>1, <1>2, SeqInduction
<1> QED
  BY <1>3 DEF TextsOf

(* What follows a part of a file is read on from the part's last line. *)
LEMMA LinesCut ==
    ASSUME NEW a \in Seq(Bytes), NEW at \in Nat
    PROVE  \A b \in Seq(Bytes) :
             LinesOf(a \o b, at) = Front(LinesOf(a, at))
                                     \o LinesOf(Last(LinesOf(a, at)).text \o b, Last(LinesOf(a, at)).offset)
<1> DEFINE A == LinesOf(a, at)
           line == Last(A)
           u == line.text
           o == line.offset
           T == {b \in Seq(Bytes) : LinesOf(a \o b, at) = Front(A) \o LinesOf(u \o b, o)}
<1>0. A \in Seq(Lines) /\ A # <<>>
  BY LinesOfType
<1>1. u \in TextsOf /\ o \in Nat /\ o + Len(u) = at + Len(a) /\ line = [text |-> u, offset |-> o]
  BY LastLineIs
<1>2. Front(A) \in Seq(Lines) /\ A = Append(Front(A), line) /\ line \in Lines
  BY <1>0, FrontLast
<1>3. u \in Seq(Bytes)
  BY <1>1, SeqMonotonic DEF TextsOf
<1>4. LinesOf(u, o) = <<line>>
  BY <1>1, LineOfText
<1> HIDE DEF A, line, u, o
<1>5. <<>> \in T
  <2>1. a \o <<>> = a /\ u \o <<>> = u /\ <<>> \in Seq(Bytes)
    BY <1>3, ConcatEmptySeq
  <2>2. Front(A) \o <<line>> = Append(Front(A), line)
    BY <1>2, AppendIsConcat
  <2> QED
    BY <1>2, <1>4, <2>1, <2>2 DEF A
<1>6. ASSUME NEW b \in Seq(Bytes), NEW x \in Bytes, b \in T PROVE Append(b, x) \in T
  <2> DEFINE c == a \o b
             d == u \o b
  <2>1. a \o Append(b, x) = Append(c, x) /\ c \in Seq(Bytes) /\ u \o Append(b, x) = Append(d, x) /\ d \in Seq(Bytes)
    BY <1>3, ConcatAppend
  <2>2. Len(c) = Len(a) + Len(b) /\ Len(d) = Len(u) + Len(b) /\ Len(a) \in Nat /\ Len(b) \in Nat /\ Len(u) \in Nat
    BY <1>3, ConcatProperties, LenProperties
  <2> HIDE DEF c, d
  <2> DEFINE next == at + Len(c) + 1
             B == LinesOf(d, o)
  <2>3. next = o + Len(d) + 1 /\ next \in Nat
    <3> DEFINE p == Len(a)
               q == Len(b)
               r == Len(u)
    <3>1. p \in Nat /\ q \in Nat /\ r \in Nat /\ o \in Nat /\ o + r = at + p /\ Len(c) = p + q /\ Len(d) = r + q
      BY <1>1, <2>2
    <3> HIDE DEF p, q, r
    <3> QED
      BY <3>1
  <2>4. LinesOf(Append(c, x), at) = LineStep(LinesOf(c, at), x, next)
    BY <2>1, LinesOfAppend
  <2>5. LinesOf(Append(d, x), o) = LineStep(B, x, next)
    <3>1. LinesOf(Append(d, x), o) = LineStep(B, x, o + Len(d) + 1)
      BY <1>1, <2>1, LinesOfAppend
    <3> QED
      BY <2>3, <3>1
  <2>6. LinesOf(c, at) = Front(A) \o B
    BY <1>6 DEF c, d
  <2>7. B \in Seq(Lines) /\ B # <<>>
    BY <1>1, <2>1, LinesOfType
  <2> HIDE DEF next, B
  <2>8. LineStep(Front(A) \o B, x, next) = Front(A) \o LineStep(B, x, next)
    BY <1>2, <2>3, <2>7, LineStepConcat
  <2>9. Append(b, x) \in Seq(Bytes)
    BY AppendProperties
  <2> QED
    BY <2>1, <2>4, <2>5, <2>6, <2>8, <2>9
<1>7. Seq(Bytes) \subseteq T
  <2> HIDE DEF T
  <2> QED
    BY <1>5, <1>6, SeqInduction
<1> QED
  BY <1>7 DEF A, line, u, o

LEMMA LineStepHead ==
    ASSUME NEW s \in Seq(Lines), s # <<>>, NEW byte \in Bytes, NEW next \in Nat
    PROVE  LET t == LineStep(s, byte, next)
           IN /\ Head(t).offset = Head(s).offset
              /\ byte = Break => Head(t) = Head(s) /\ Tail(t) = Append(Tail(s), NoLine(next)) /\ Tail(t) # <<>>
              /\ byte # Break /\ Tail(s) # <<>> => Head(t) = Head(s) /\ Tail(t) = LineStep(Tail(s), byte, next) /\ Tail(t) # <<>>
              /\ byte # Break /\ Tail(s) = <<>> => Head(t).text = Append(Head(s).text, byte) /\ Tail(t) = <<>>
<1> DEFINE h == Head(s)
           r == Tail(s)
           t == LineStep(s, byte, next)
<1>1. h \in Lines /\ r \in Seq(Lines) /\ s = <<h>> \o r /\ <<h>> \in Seq(Lines)
  <2>1. h \in Lines /\ r \in Seq(Lines) /\ s = <<h>> \o r
    BY FrontLast
  <2> HIDE DEF h, r
  <2> QED
    BY <2>1
<1> HIDE DEF h, r
<1>2. NoLine(next) \in Lines
  BY NoLineIs
<1>3. CASE byte = Break
  <2>1. t = Append(<<h>> \o r, NoLine(next))
    BY <1>1, <1>3 DEF LineStep
  <2>2. t = <<h>> \o Append(r, NoLine(next))
    <3> DEFINE g == <<h>>
    <3>1. g \in Seq(Lines)
      BY <1>1
    <3> HIDE DEF g
    <3>2. g \o Append(r, NoLine(next)) = Append(g \o r, NoLine(next))
      BY <1>1, <1>2, <3>1, ConcatAppend
    <3> QED
      BY <2>1, <3>2 DEF g
  <2>3. Append(r, NoLine(next)) \in Seq(Lines) /\ Append(r, NoLine(next)) # <<>>
    BY <1>1, <1>2, FrontLastOfAppend
  <2>4. Head(t) = h /\ Tail(t) = Append(r, NoLine(next))
    BY <1>1, <2>2, <2>3, HeadTailOfConcat
  <2> QED
    BY <1>3, <2>3, <2>4 DEF h, r
<1>4. CASE byte # Break /\ r # <<>>
  <2>1. t = <<h>> \o LineStep(r, byte, next)
    BY <1>1, <1>4, LineStepConcat
  <2>2. LineStep(r, byte, next) \in Seq(Lines) /\ LineStep(r, byte, next) # <<>>
    BY <1>1, <1>4, LineStepIs
  <2>3. Head(t) = h /\ Tail(t) = LineStep(r, byte, next)
    BY <1>1, <2>1, <2>2, HeadTailOfConcat
  <2> QED
    BY <1>4, <2>2, <2>3 DEF h, r
<1>5. CASE byte # Break /\ r = <<>>
  <2> DEFINE long == [text |-> Append(h.text, byte), offset |-> h.offset]
  <2>1. s = Append(<<>>, h) /\ <<>> \in Seq(Lines)
    BY <1>1, <1>5
  <2>2. Front(s) = <<>> /\ Last(s) = h
    BY <1>1, <2>1, FrontLastOfAppend
  <2>3. t = Append(<<>>, long)
    BY <1>5, <2>2 DEF LineStep
  <2>4. long.text = Append(h.text, byte) /\ long.offset = h.offset
    OBVIOUS
  <2> HIDE DEF long
  <2>5. t = <<long>> /\ Head(<<long>>) = long /\ Tail(<<long>>) = <<>>
    BY <2>3
  <2> QED
    BY <1>5, <2>4, <2>5 DEF h, r
<1> QED
  BY <1>3, <1>4, <1>5 DEF r

(* What precedes a chunk ends its first line. *)
LEMMA LinesJoin ==
    ASSUME NEW a \in Seq(Bytes)
    PROVE  \A d \in Seq(Bytes) :
             /\ Carried(d) \in Seq(Bytes)
             /\ Carried(d) = Head(LinesOf(d, Len(a))).text
             /\ Head(LinesOf(d, Len(a))).offset = Len(a)
             /\ LinesOf(a \o d, 0) = LinesOf(a \o Carried(d), 0) \o Tail(LinesOf(d, Len(a)))
<1> DEFINE n == Len(a)
           h(d) == Head(LinesOf(d, n))
           T == {d \in Seq(Bytes) : /\ Carried(d) = h(d).text
                                    /\ h(d).offset = n
                                    /\ (Tail(LinesOf(d, 0)) = <<>> <=> Tail(LinesOf(d, n)) = <<>>)
                                    /\ LinesOf(a \o d, 0) = LinesOf(a \o Carried(d), 0) \o Tail(LinesOf(d, n))}
<1>0. n \in Nat
  BY LenProperties
<1>9. ASSUME NEW d \in Seq(Bytes) PROVE Carried(d) \in Seq(Bytes)
  <2>1. Head(LinesOf(d, 0)) \in Lines
    BY LinesOfType, FrontLast
  <2> QED
    BY <2>1 DEF Carried, Lines
<1>1. <<>> \in T
  <2>1. \A m \in Nat : LinesOf(<<>>, m) = <<NoLine(m)>> /\ Head(<<NoLine(m)>>) = NoLine(m) /\ Tail(<<NoLine(m)>>) = <<>>
    BY LinesOfEmpty
  <2>2. \A m \in Nat : NoLine(m).text = <<>> /\ NoLine(m).offset = m
    BY NoLineIs
  <2>3. a \o <<>> = a /\ <<>> \in Seq(Bytes) /\ 0 \in Nat
    BY ConcatEmptySeq
  <2>4. \A m \in Nat : Head(LinesOf(<<>>, m)).text = <<>> /\ Head(LinesOf(<<>>, m)).offset = m
                       /\ Tail(LinesOf(<<>>, m)) = <<>>
    <3> TAKE m \in Nat
    <3> DEFINE line == NoLine(m)
    <3>1. LinesOf(<<>>, m) = <<line>> /\ line.text = <<>> /\ line.offset = m
      BY <2>1, <2>2
    <3> HIDE DEF line
    <3>2. Head(<<line>>) = line /\ Tail(<<line>>) = <<>>
      OBVIOUS
    <3> QED
      BY <3>1, <3>2
  <2>6. Carried(<<>>) = <<>>
    BY <2>3, <2>4 DEF Carried
  <2>5. LinesOf(a, 0) \o <<>> = LinesOf(a, 0)
    BY LinesOfType, ConcatEmptySeq
  <2> QED
    BY <1>0, <2>3, <2>4, <2>5, <2>6
<1>2. ASSUME NEW d \in Seq(Bytes), NEW x \in Bytes, d \in T PROVE Append(d, x) \in T
  <2> DEFINE e == Append(d, x)
             L == LinesOf(d, n)
             K == LinesOf(d, 0)
             W == LinesOf(a \o d, 0)
             H == LinesOf(a \o Carried(d), 0)
             next == n + Len(d) + 1
  <2>1. e \in Seq(Bytes) /\ a \o d \in Seq(Bytes) /\ a \o e = Append(a \o d, x) /\ Len(d) \in Nat
        /\ Len(a \o d) = n + Len(d)
    BY ConcatAppend, AppendProperties, ConcatProperties, LenProperties
  <2>2. /\ LinesOf(e, n) = LineStep(L, x, next)
        /\ LinesOf(e, 0) = LineStep(K, x, 0 + Len(d) + 1)
        /\ LinesOf(a \o e, 0) = LineStep(W, x, next)
    <3>1. LinesOf(e, n) = LineStep(L, x, next) /\ LinesOf(e, 0) = LineStep(K, x, 0 + Len(d) + 1)
      BY <1>0, LinesOfAppend
    <3>2. LinesOf(Append(a \o d, x), 0) = LineStep(W, x, 0 + Len(a \o d) + 1)
      BY <2>1, LinesOfAppend
    <3>3. 0 + Len(a \o d) + 1 = next
      BY <1>0, <2>1
    <3> QED
      BY <2>1, <3>1, <3>2, <3>3
  <2>3. L \in Seq(Lines) /\ L # <<>> /\ K \in Seq(Lines) /\ K # <<>>
    BY <1>0, LinesOfType
  <2>4. H \in Seq(Lines) /\ H # <<>> /\ Carried(d) \in Seq(Bytes) /\ a \o Carried(d) \in Seq(Bytes)
    <3>1. Carried(d) \in Seq(Bytes)
      BY <1>9
    <3>2. a \o Carried(d) \in Seq(Bytes)
      BY <3>1, ConcatProperties
    <3> QED
      BY <3>1, <3>2, LinesOfType
  <2>5. /\ Carried(d) = Head(L).text /\ Head(L).offset = n /\ W = H \o Tail(L) /\ Carried(d) = Head(K).text
        /\ (Tail(K) = <<>> <=> Tail(L) = <<>>)
    BY <1>2 DEF Carried
  <2>6. Carried(e) = Head(LineStep(K, x, 0 + Len(d) + 1)).text
    BY <2>2 DEF Carried
  <2>7. next \in Nat /\ 0 + Len(d) + 1 \in Nat
    BY <1>0, <2>1
  <2> HIDE DEF e, L, K, W, H, next
  <2>10. NoLine(next) \in Lines
    BY <2>7, NoLineIs
  <2>11. Tail(L) \in Seq(Lines)
    BY <2>3, FrontLast
  <2> DEFINE L1 == LineStep(L, x, next)
             K1 == LineStep(K, x, 0 + Len(d) + 1)
             W1 == LineStep(W, x, next)
  <2>12. /\ Head(L1).offset = Head(L).offset
         /\ x = Break => Head(L1) = Head(L) /\ Tail(L1) = Append(Tail(L), NoLine(next)) /\ Tail(L1) # <<>>
         /\ x # Break /\ Tail(L) # <<>> => Head(L1) = Head(L) /\ Tail(L1) = LineStep(Tail(L), x, next) /\ Tail(L1) # <<>>
         /\ x # Break /\ Tail(L) = <<>> => Head(L1).text = Append(Head(L).text, x) /\ Tail(L1) = <<>>
    BY <2>3, <2>7, LineStepHead
  <2>13. /\ x = Break => Head(K1) = Head(K) /\ Tail(K1) # <<>>
         /\ x # Break /\ Tail(K) # <<>> => Head(K1) = Head(K) /\ Tail(K1) # <<>>
         /\ x # Break /\ Tail(K) = <<>> => Head(K1).text = Append(Head(K).text, x) /\ Tail(K1) = <<>>
    BY <2>3, <2>7, LineStepHead
  <2> HIDE DEF L1, K1
  <2>14. Carried(e) = Head(L1).text /\ Head(L1).offset = n /\ (Tail(K1) = <<>> <=> Tail(L1) = <<>>)
    BY <2>5, <2>6, <2>12, <2>13 DEF K1
  <2>15. W1 = LinesOf(a \o Carried(e), 0) \o Tail(L1)
    <3>1. CASE x = Break
      <4>1. Carried(e) = Carried(d) /\ Tail(L1) = Append(Tail(L), NoLine(next))
        BY <2>5, <2>12, <2>14, <3>1
      <4>2. W1 = Append(H \o Tail(L), NoLine(next))
        BY <2>5, <3>1 DEF LineStep
      <4>3. H \o Append(Tail(L), NoLine(next)) = Append(H \o Tail(L), NoLine(next))
        BY <2>4, <2>10, <2>11, ConcatAppend
      <4> QED
        BY <4>1, <4>2, <4>3 DEF H
    <3>2. CASE x # Break /\ Tail(L) # <<>>
      <4>1. Carried(e) = Carried(d) /\ Tail(L1) = LineStep(Tail(L), x, next)
        BY <2>5, <2>12, <2>14, <3>2
      <4>2. W1 = H \o LineStep(Tail(L), x, next)
        BY <2>4, <2>5, <2>7, <2>11, <3>2, LineStepConcat
      <4> QED
        BY <4>1, <4>2 DEF H
    <3>3. CASE x # Break /\ Tail(L) = <<>>
      <4> DEFINE c == Carried(d)
                 m == 0 + Len(a \o c) + 1
      <4>1. Carried(e) = Append(c, x) /\ Tail(L1) = <<>>
        BY <2>5, <2>12, <2>14, <3>3
      <4>2. W = H
        BY <2>4, <2>5, <3>3, ConcatEmptySeq
      <4>3. a \o Append(c, x) = Append(a \o c, x)
        BY <2>4, ConcatAppend
      <4>4. LinesOf(Append(a \o c, x), 0) = LineStep(H, x, m)
        BY <2>4, LinesOfAppend DEF H
      <4> HIDE DEF m, c
      <4>5. LineStep(H, x, m) = W1
        BY <3>3, <4>2 DEF LineStep
      <4>6. LinesOf(a \o Carried(e), 0) = W1
        BY <4>1, <4>3, <4>4, <4>5
      <4>7. W1 \in Seq(Lines)
        BY <2>4, <2>7, <4>2, LineStepIs
      <4> QED
        BY <4>1, <4>6, <4>7, ConcatEmptySeq
    <3> QED
      BY <3>1, <3>2, <3>3
  <2> QED
    BY <2>1, <2>2, <2>14, <2>15 DEF L1, K1, e, L, K, W
<1>3. Seq(Bytes) \subseteq T
  <2> HIDE DEF T
  <2> QED
    BY <1>1, <1>2, SeqInduction
<1> QED
  BY <1>3, <1>9

(* The lines before a line are those of the file up to its offset. *)
LEMMA LinesBefore ==
    \A data \in Seq(Bytes) : \A j \in 1..Len(LinesOf(data, 0)) :
        /\ LinesOf(data, 0)[j].offset \in 0..Len(data)
        /\ LinesOf(UpTo(data, LinesOf(data, 0)[j].offset), 0)
             = Append(SubSeq(LinesOf(data, 0), 1, j - 1), NoLine(LinesOf(data, 0)[j].offset))
<1> DEFINE L(d) == LinesOf(d, 0)
           Fits(d, j) == /\ L(d)[j].offset \in 0..Len(d)
                         /\ L(UpTo(d, L(d)[j].offset)) = Append(SubSeq(L(d), 1, j - 1), NoLine(L(d)[j].offset))
           T == {d \in Seq(Bytes) : \A j \in 1..Len(L(d)) : Fits(d, j)}
<1>1. <<>> \in T
  <2> DEFINE line == NoLine(0)
  <2>1. L(<<>>) = <<line>> /\ line.offset = 0
    BY LinesOfEmpty, NoLineIs
  <2> HIDE DEF line
  <2>2. Len(<<line>>) = 1 /\ <<line>>[1] = line /\ UpTo(<<>>, 0) = <<>> /\ SubSeq(<<line>>, 1, 0) = <<>>
        /\ Append(<<>>, line) = <<line>> /\ Len(<<>>) = 0 /\ <<>> \in Seq(Bytes)
    BY DEF UpTo
  <2>3. Fits(<<>>, 1)
    BY <2>1, <2>2 DEF line
  <2>4. Len(L(<<>>)) = 1
    BY <2>1, <2>2
  <2>5. \A j \in 1..Len(L(<<>>)) : j = 1
    <3>1. \A j \in 1..1 : j = 1
      OBVIOUS
    <3> QED
      BY <2>4, <3>1, Zenon
  <2> HIDE DEF Fits, L
  <2>6. \A j \in 1..Len(L(<<>>)) : Fits(<<>>, j)
    BY <2>3, <2>5
  <2> QED
    BY <2>2, <2>6
<1>2. ASSUME NEW d \in Seq(Bytes), NEW x \in Bytes, d \in T PROVE Append(d, x) \in T
  <2> DEFINE e == Append(d, x)
             A == L(d)
             B == L(e)
             next == Len(d) + 1
  <2>1. e \in Seq(Bytes) /\ Len(e) = Len(d) + 1 /\ Len(d) \in Nat /\ \A o \in 0..Len(d) : UpTo(e, o) = UpTo(d, o)
    <3>1. e \in Seq(Bytes) /\ Len(e) = Len(d) + 1 /\ Len(d) \in Nat /\ \A i \in 1..Len(d) : e[i] = d[i]
      BY AppendProperties
    <3> HIDE DEF e
    <3>2. ASSUME NEW o \in 0..Len(d) PROVE SubSeq(e, 1, o) = SubSeq(d, 1, o)
      <4>1. o \in 0..Len(e)
        BY <3>1
      <4>2. \A i \in 1..o : e[i] = d[i]
        BY <3>1
      <4> QED
        BY <3>1, <4>1, <4>2, HeadIs, SeqEqual
    <3> QED
      BY <3>1, <3>2 DEF UpTo
  <2>2. A \in Seq(Lines) /\ A # <<>> /\ B \in Seq(Lines) /\ B # <<>>
    <3>1. A \in Seq(Lines) /\ A # <<>>
      BY LinesOfType
    <3>2. B \in Seq(Lines) /\ B # <<>>
      BY <2>1, LinesOfType
    <3> QED
      BY <3>1, <3>2
  <2>3. B = LineStep(A, x, next)
    <3>1. B = LineStep(A, x, 0 + Len(d) + 1)
      BY LinesOfAppend
    <3>2. 0 + Len(d) + 1 = next
      BY <2>1
    <3> HIDE DEF A, B, next
    <3> QED
      BY <3>1, <3>2
  <2>4. \A j \in 1..Len(A) : A[j].offset \in 0..Len(d)
          /\ L(UpTo(d, A[j].offset)) = Append(SubSeq(A, 1, j - 1), NoLine(A[j].offset))
    BY <1>2
  <2>5. next \in Nat
    BY <2>1
  <2> HIDE DEF next, A, B
  <2>6. ASSUME NEW j \in 1..Len(A), B[j].offset = A[j].offset,
               SubSeq(B, 1, j - 1) = SubSeq(A, 1, j - 1)
        PROVE  /\ B[j].offset \in 0..Len(e)
               /\ L(UpTo(e, B[j].offset)) = Append(SubSeq(B, 1, j - 1), NoLine(B[j].offset))
    <3> DEFINE o == B[j].offset
    <3>1. o \in 0..Len(d) /\ L(UpTo(d, o)) = Append(SubSeq(A, 1, j - 1), NoLine(o))
      BY <2>4, <2>6
    <3>2. UpTo(e, o) = UpTo(d, o)
      BY <2>1, <3>1
    <3>3. o \in 0..Len(e)
      BY <2>1, <3>1
    <3> HIDE DEF o, e
    <3> QED
      BY <2>6, <3>1, <3>2, <3>3 DEF o
  <2>7. CASE x = Break
    <3> DEFINE line == NoLine(next)
    <3>1. line \in Lines /\ line.offset = next
      BY <2>5, NoLineIs
    <3>2. B = Append(A, line)
      BY <2>3, <2>7 DEF LineStep
    <3> HIDE DEF line
    <3>3. Len(B) = Len(A) + 1 /\ B[Len(A) + 1] = line /\ (\A j \in 1..Len(A) : B[j] = A[j]) /\ Len(A) \in Nat
      BY <2>2, <3>1, <3>2, AppendProperties
    <3>4. \A k \in 0..Len(A) : SubSeq(B, 1, k) = SubSeq(A, 1, k)
      <4> TAKE k \in 0..Len(A)
      <4>1. k \in 0..Len(B) /\ \A i \in 1..k : B[i] = A[i]
        BY <3>3
      <4> QED
        BY <2>2, <4>1, HeadIs, SeqEqual
    <3>5. ASSUME NEW j \in 1..Len(B)
          PROVE  /\ B[j].offset \in 0..Len(e)
                 /\ L(UpTo(e, B[j].offset)) = Append(SubSeq(B, 1, j - 1), NoLine(B[j].offset))
      <4>1. CASE j \in 1..Len(A)
        <5>1. j - 1 \in 0..Len(A)
          BY <3>3, <4>1
        <5>2. SubSeq(B, 1, j - 1) = SubSeq(A, 1, j - 1) /\ B[j].offset = A[j].offset
          BY <3>3, <3>4, <4>1, <5>1
        <5> QED
          BY <2>6, <4>1, <5>2
      <4>2. CASE j = Len(A) + 1
        <5>1. B[j] = line /\ j - 1 = Len(A) /\ B[j].offset = next /\ next = Len(e) /\ next \in 0..Len(e)
          BY <2>1, <3>1, <3>3, <4>2 DEF next
        <5>2. UpTo(e, next) = e
          BY <2>1, <5>1, SubSeqFull DEF UpTo
        <5>3. SubSeq(B, 1, Len(A)) = A
          <6>1. Len(A) \in 0..Len(A)
            BY <3>3
          <6> QED
            BY <2>2, <3>4, <6>1, SubSeqFull
        <5>4. L(UpTo(e, next)) = Append(SubSeq(B, 1, j - 1), NoLine(next))
          BY <3>2, <5>1, <5>2, <5>3 DEF line, B
        <5> HIDE DEF e
        <5> QED
          BY <5>1, <5>4
      <4> QED
        BY <3>3, <4>1, <4>2
    <3> QED
      BY <2>1, <3>5 DEF B
  <2>8. CASE x # Break
    <3> DEFINE f == Front(A)
               long == [text |-> Append(Last(A).text, x), offset |-> Last(A).offset]
    <3>1. f \in Seq(Lines) /\ A = Append(f, Last(A)) /\ Len(A) \in Nat /\ Len(f) = Len(A) - 1 /\ Last(A) \in Lines
          /\ Last(A) = A[Len(A)] /\ Len(A) > 0
      BY <2>2, FrontLast
    <3>2. B = Append(f, long) /\ long.offset = A[Len(A)].offset
      BY <2>3, <2>8, <3>1 DEF LineStep
    <3>3. long \in Lines
      <4>1. Last(A).text \in Seq(Bytes) /\ Last(A).offset \in Nat
        BY <3>1 DEF Lines
      <4>2. Append(Last(A).text, x) \in Seq(Bytes)
        BY <4>1, AppendProperties
      <4> QED
        BY <4>1, <4>2 DEF Lines
    <3> HIDE DEF f, long
    <3>4. Len(B) = Len(A) /\ B[Len(A)] = long /\ (\A j \in 1..(Len(A) - 1) : B[j] = f[j] /\ A[j] = f[j])
      <4> DEFINE y == Last(A)
      <4>1. y \in Lines /\ A = Append(f, y)
        BY <3>1
      <4> HIDE DEF y
      <4>2. Len(B) = Len(f) + 1 /\ B[Len(f) + 1] = long /\ \A j \in 1..Len(f) : B[j] = f[j]
        BY <3>1, <3>2, <3>3, AppendProperties
      <4>3. \A j \in 1..Len(f) : A[j] = f[j]
        BY <3>1, <4>1, AppendProperties
      <4>4. Len(f) + 1 = Len(A)
        BY <3>1
      <4> QED
        BY <3>1, <4>2, <4>3, <4>4
    <3>5. ASSUME NEW j \in 1..Len(B)
          PROVE  /\ B[j].offset \in 0..Len(e)
                 /\ L(UpTo(e, B[j].offset)) = Append(SubSeq(B, 1, j - 1), NoLine(B[j].offset))
      <4>1. j \in 1..Len(A) /\ j - 1 \in 0..Len(A) /\ j - 1 \in 0..Len(B) /\ \A i \in 1..(j - 1) : i \in 1..(Len(A) - 1)
        BY <3>1, <3>4
      <4>2. \A i \in 1..(j - 1) : B[i] = A[i]
        BY <3>4, <4>1
      <4>3. SubSeq(B, 1, j - 1) = SubSeq(A, 1, j - 1)
        BY <2>2, <4>1, <4>2, HeadIs, SeqEqual
      <4>4. B[j].offset = A[j].offset
        <5>1. CASE j = Len(A)
          BY <3>2, <3>4, <5>1
        <5>2. CASE j # Len(A)
          <6>1. j \in 1..(Len(A) - 1)
            BY <3>1, <4>1, <5>2
          <6> QED
            BY <3>4, <6>1
        <5> QED
          BY <5>1, <5>2
      <4> QED
        BY <2>6, <4>1, <4>3, <4>4
    <3> QED
      BY <2>1, <3>5 DEF B
  <2> QED
    BY <2>7, <2>8
<1>3. Seq(Bytes) \subseteq T
  <2> HIDE DEF T
  <2> QED
    BY <1>1, <1>2, SeqInduction
<1> QED
  BY <1>3

LEMMA ConcatThree ==
    ASSUME NEW R, NEW a \in Seq(R), NEW b \in Seq(R), NEW c \in Seq(R)
    PROVE  (a \o b) \o c = a \o (b \o c)
BY ConcatAssociative

(* Reading back. *)
BackTo(cursor, chunk) == IF cursor > chunk THEN cursor - chunk ELSE 0

BackLines(file, cursor, carry) == IF cursor = 0 THEN <<>> ELSE Reverse(LinesOf(UpTo(file, cursor) \o carry, 0))

BackStep(file, chunk, read, at) ==
    LET start == IF at[1] > chunk THEN at[1] - chunk ELSE 0
        data == Data(file, at[1], at[2], chunk)
    IN IF at[1] = 0 THEN <<>>
       ELSE Reverse(LinesAfterBreaks(data, start))
            \o IF start = 0 THEN <<[text |-> Carried(data), offset |-> 0]>>
               ELSE read[<<start, Carried(data)>>]

LEMMA BackDataIs ==
    ASSUME NEW file \in Seq(Bytes), NEW chunk \in Nat \ {0}, NEW cursor \in 1..Len(file), NEW carry \in Seq(Bytes)
    PROVE  LET start == BackTo(cursor, chunk)
               data == Data(file, cursor, carry, chunk)
           IN /\ start \in 0..(cursor - 1)
              /\ data \in Seq(Bytes) /\ Carried(data) \in Seq(Bytes)
              /\ UpTo(file, start) \in Seq(Bytes) /\ Len(UpTo(file, start)) = start
              /\ UpTo(file, start) \o data = UpTo(file, cursor) \o carry
<1> DEFINE start == BackTo(cursor, chunk)
           data == Data(file, cursor, carry, chunk)
           seg == SubSeq(file, start + 1, cursor)
           head == SubSeq(file, 1, start)
<1>0. Len(file) \in Nat /\ cursor \in Nat /\ cursor <= Len(file) /\ cursor > 0
  BY LenProperties
<1>1. start \in 0..(cursor - 1)
  BY <1>0 DEF BackTo
<1>2. data = seg \o carry
  BY DEF Data, BackTo
<1> HIDE DEF start, data
<1>3. head \in Seq(Bytes) /\ Len(head) = start
  <2>1. start \in 0..Len(file)
    BY <1>0, <1>1
  <2> QED
    BY <2>1, HeadIs
<1>4. seg \in Seq(Bytes)
  <2>1. \A i \in (start + 1)..cursor : file[i] \in Bytes
    BY <1>0, <1>1, ElementOfSeq
  <2> QED
    BY <1>0, <1>1, <2>1, SubSeqProperties
<1>5. head \o seg = SubSeq(file, 1, cursor)
  <2>1. 1 \in 1..Len(file) + 1 /\ start \in (1 - 1)..Len(file) /\ cursor \in start..Len(file)
    BY <1>0, <1>1
  <2> QED
    BY <2>1, ConcatAdjacentSubSeq
<1> HIDE DEF head, seg
<1>6. data \in Seq(Bytes) /\ head \o data = (head \o seg) \o carry
  <2>1. seg \o carry \in Seq(Bytes)
    BY <1>4, ConcatProperties
  <2>2. (head \o seg) \o carry = head \o (seg \o carry)
    <3>1. head \in Seq(Bytes)
      BY <1>3
    <3> QED
      BY <1>4, <3>1, ConcatThree
  <2> QED
    BY <1>2, <2>1, <2>2
<1>7. Carried(data) \in Seq(Bytes)
  BY <1>3, <1>6, LinesJoin
<1> QED
  BY <1>1, <1>3, <1>5, <1>6, <1>7 DEF start, data, head, UpTo

LEMMA BackStepIs ==
    ASSUME NEW file \in Seq(Bytes), NEW chunk \in Nat \ {0}, NEW cursor \in 0..Len(file), NEW carry \in Seq(Bytes),
           NEW read,
           \A c \in 0..Len(file), u \in Seq(Bytes) : c < cursor => read[<<c, u>>] = BackLines(file, c, u)
    PROVE  BackStep(file, chunk, read, <<cursor, carry>>) = BackLines(file, cursor, carry)
<1>1. CASE cursor = 0
  BY <1>1 DEF BackStep, BackLines
<1>2. CASE cursor # 0
  <2> DEFINE start == BackTo(cursor, chunk)
             data == Data(file, cursor, carry, chunk)
             rest == IF start = 0 THEN <<[text |-> Carried(data), offset |-> 0]>> ELSE read[<<start, Carried(data)>>]
             a == UpTo(file, start)
             r == Tail(LinesOf(data, start))
             k == LinesOf(a \o Carried(data), 0)
  <2>0. Len(file) \in Nat /\ cursor \in 1..Len(file)
    BY <1>2, LenProperties
  <2>1. BackStep(file, chunk, read, <<cursor, carry>>) = Reverse(r) \o rest
    BY <1>2 DEF BackStep, BackTo, LinesAfterBreaks
  <2>2. /\ start \in 0..(cursor - 1) /\ data \in Seq(Bytes) /\ Carried(data) \in Seq(Bytes)
        /\ a \in Seq(Bytes) /\ Len(a) = start /\ a \o data = UpTo(file, cursor) \o carry
    BY <2>0, BackDataIs
  <2>3. BackLines(file, cursor, carry) = Reverse(LinesOf(a \o data, 0))
    BY <1>2, <2>2 DEF BackLines
  <2> HIDE DEF start, data, a
  <2>4. start \in Nat /\ start \in 0..Len(file) /\ start < cursor
    <3>1. start \in 0..(cursor - 1)
      BY <2>2
    <3> QED
      BY <2>0, <3>1
  <2>5. LinesOf(a \o data, 0) = k \o r /\ Head(LinesOf(data, start)).offset = start
        /\ Carried(data) = Head(LinesOf(data, start)).text
    BY <2>2, LinesJoin
  <2>6. LinesOf(data, start) \in Seq(Lines) /\ LinesOf(data, start) # <<>>
    BY <2>2, <2>4, LinesOfType
  <2>7. r \in Seq(Lines) /\ Head(LinesOf(data, start)) \in Lines
    BY <2>6, FrontLast
  <2>8. k \in Seq(Lines) /\ k # <<>>
    <3>1. a \o Carried(data) \in Seq(Bytes)
      BY <2>2, ConcatProperties
    <3> QED
      BY <3>1, LinesOfType
  <2>9. rest = Reverse(k)
    <3>1. CASE start = 0
      <4>1. a = <<>>
        BY <2>2, <3>1, EmptySeq
      <4>2. a \o data = data /\ a \o Carried(data) = Carried(data)
        BY <2>2, <4>1, ConcatEmptySeq
      <4> DEFINE h == Head(LinesOf(data, 0))
      <4>3. LinesOf(data, 0) = <<h>> \o r /\ h \in Lines /\ h.offset = 0 /\ h.text = Carried(data)
        BY <2>5, <2>6, <2>7, <3>1, FrontLast
      <4> HIDE DEF h
      <4>4. h = [text |-> Carried(data), offset |-> 0]
        BY <4>3 DEF Lines
      <4>5. k \o r = <<h>> \o r
        BY <2>5, <4>2, <4>3
      <4>6. <<h>> \in Seq(Lines)
        BY <4>3
      <4>7. k = <<h>>
        BY <2>7, <2>8, <4>5, <4>6, ConcatSimplifications
      <4> QED
        BY <3>1, <4>4, <4>7, ReverseSmall
    <3>2. CASE start # 0
      BY <2>2, <2>4, <3>2 DEF BackLines, a
    <3> QED
      BY <3>1, <3>2
  <2> HIDE DEF k, r, rest
  <2>10. Reverse(k \o r) = Reverse(r) \o Reverse(k)
    BY <2>7, <2>8, ReverseConcat
  <2> QED
    BY <2>1, <2>3, <2>5, <2>9, <2>10
<1> QED
  BY <1>1, <1>2

LEMMA ReadBackIs ==
    ASSUME NEW file \in Seq(Bytes), NEW chunk \in Nat \ {0}, NEW cursor \in 0..Len(file)
    PROVE  ReadBack(file, cursor, chunk) = IF cursor = 0 THEN <<>> ELSE Reverse(LinesOf(UpTo(file, cursor), 0))
<1> DEFINE D == (0..Len(file)) \X Seq(Bytes)
           Is(f) == f = [at \in D |-> BackStep(file, chunk, f, at)]
           lines == [at \in D |-> BackLines(file, at[1], at[2])]
           read == Backward(file, chunk)
<1>0. Len(file) \in Nat
  BY LenProperties
<1>1. \A at \in D : at[1] \in 0..Len(file) /\ at[2] \in Seq(Bytes) /\ at = <<at[1], at[2]>>
  OBVIOUS
<1>2. Is(lines)
  <2>1. \A c \in 0..Len(file), u \in Seq(Bytes) : lines[<<c, u>>] = BackLines(file, c, u)
    OBVIOUS
  <2>2. ASSUME NEW at \in D PROVE BackStep(file, chunk, lines, at) = BackLines(file, at[1], at[2])
    <3> DEFINE c == at[1]
               u == at[2]
    <3>1. c \in 0..Len(file) /\ u \in Seq(Bytes) /\ at = <<c, u>>
      BY <1>1
    <3> HIDE DEF c, u, lines
    <3>2. BackStep(file, chunk, lines, <<c, u>>) = BackLines(file, c, u)
      BY <2>1, <3>1, BackStepIs
    <3> QED
      BY <3>1, <3>2 DEF c, u
  <2> QED
    BY <2>2
<1>3. read = CHOOSE f : Is(f)
  BY DEF Backward, BackStep
<1>4. Is(read)
  <2> HIDE DEF Is, lines, read
  <2> QED
    BY <1>2, <1>3
<1>5. \A c \in 0..Len(file), u \in Seq(Bytes) : read[<<c, u>>] = BackStep(file, chunk, read, <<c, u>>)
  <2>1. \A at \in D : read[at] = BackStep(file, chunk, read, at)
    BY <1>4
  <2>2. \A c \in 0..Len(file), u \in Seq(Bytes) : <<c, u>> \in D
    OBVIOUS
  <2> SUFFICES ASSUME NEW c \in 0..Len(file), NEW u \in Seq(Bytes)
               PROVE  read[<<c, u>>] = BackStep(file, chunk, read, <<c, u>>)
    BY Zenon
  <2> HIDE DEF D, read
  <2>3. <<c, u>> \in D
    BY <2>2
  <2> DEFINE at == <<c, u>>
  <2> HIDE DEF at
  <2>4. read[at] = BackStep(file, chunk, read, at)
    BY <2>1, <2>3 DEF at
  <2> QED
    BY <2>4 DEF at
<1> HIDE DEF read
<1> DEFINE T == {n \in Nat : \A c \in 0..Len(file), u \in Seq(Bytes) : c < n => read[<<c, u>>] = BackLines(file, c, u)}
<1>6. 0 \in T
  BY <1>0
<1>7. ASSUME NEW n \in Nat, n \in T PROVE n + 1 \in T
  <2> SUFFICES ASSUME n \in 0..Len(file), NEW u \in Seq(Bytes)
               PROVE  read[<<n, u>>] = BackLines(file, n, u)
    BY <1>0, <1>7
  <2>1. BackStep(file, chunk, read, <<n, u>>) = BackLines(file, n, u)
    BY <1>7, BackStepIs
  <2> QED
    BY <1>5, <2>1
<1>8. cursor + 1 \in T
  <2>1. cursor + 1 \in Nat
    BY <1>0
  <2> HIDE DEF T
  <2> QED
    BY <1>6, <1>7, <2>1, Induction
<1>9. read[<<cursor, <<>>>>] = BackLines(file, cursor, <<>>)
  <2>1. <<>> \in Seq(Bytes) /\ cursor < cursor + 1
    BY <1>0
  <2> QED
    BY <1>8, <2>1
<1>10. UpTo(file, cursor) \o <<>> = UpTo(file, cursor)
  <2>1. UpTo(file, cursor) \in Seq(Bytes)
    BY HeadIs DEF UpTo
  <2> QED
    BY <2>1, ConcatEmptySeq
<1> QED
  BY <1>9, <1>10 DEF BackLines, ReadBack, read

(* Reading on. *)
OnTo(file, pos, chunk) == IF pos + chunk < Len(file) THEN pos + chunk ELSE Len(file)

OnLines(file, pos, carry, offset) ==
    IF pos >= Len(file) THEN <<[text |-> carry, offset |-> offset]>>
    ELSE LinesOf(carry \o SubSeq(file, pos + 1, Len(file)), offset)

OnStep(file, chunk, read, at) ==
    LET end == IF at[1] + chunk < Len(file) THEN at[1] + chunk ELSE Len(file)
        lines == LinesOf(at[2] \o SubSeq(file, at[1] + 1, end), at[3])
    IN IF at[1] >= Len(file) THEN <<[text |-> at[2], offset |-> at[3]]>>
       ELSE Front(lines) \o read[<<end, Last(lines).text, Last(lines).offset>>]

LEMMA PartIs ==
    ASSUME NEW file \in Seq(Bytes), NEW i \in Nat, NEW j \in Nat, i <= j, j <= Len(file)
    PROVE  SubSeq(file, i + 1, j) \in Seq(Bytes)
<1>1. \A k \in (i + 1)..j : file[k] \in Bytes
  BY ElementOfSeq
<1> QED
  BY <1>1, SubSeqProperties

LEMMA OnStepIs ==
    ASSUME NEW file \in Seq(Bytes), NEW chunk \in Nat \ {0},
           NEW pos \in Nat, NEW carry \in Seq(Bytes), NEW offset \in Nat, NEW read,
           \A p \in Nat, u \in Seq(Bytes), o \in Nat :
             p > pos /\ pos < Len(file) => read[<<p, u, o>>] = OnLines(file, p, u, o)
    PROVE  OnStep(file, chunk, read, <<pos, carry, offset>>) = OnLines(file, pos, carry, offset)
<1>0. Len(file) \in Nat
  BY LenProperties
<1>1. CASE pos >= Len(file)
  BY <1>1 DEF OnStep, OnLines
<1>2. CASE ~(pos >= Len(file))
  <2> DEFINE end == OnTo(file, pos, chunk)
             seg == SubSeq(file, pos + 1, end)
             rest == SubSeq(file, end + 1, Len(file))
             a == carry \o seg
             A == LinesOf(a, offset)
             x == Last(A)
  <2>1. end \in Nat /\ end > pos /\ end <= Len(file) /\ pos < Len(file)
    BY <1>0, <1>2 DEF OnTo
  <2>2. OnStep(file, chunk, read, <<pos, carry, offset>>) = Front(A) \o read[<<end, x.text, x.offset>>]
    BY <1>2 DEF OnStep, OnTo
  <2> HIDE DEF end
  <2>3. seg \in Seq(Bytes) /\ rest \in Seq(Bytes) /\ SubSeq(file, pos + 1, Len(file)) = seg \o rest
    <3>1. seg \in Seq(Bytes)
      <4>1. pos <= end /\ end <= Len(file)
        BY <2>1
      <4> QED
        BY <2>1, <4>1, PartIs
    <3>2. rest \in Seq(Bytes)
      BY <1>0, <2>1, PartIs
    <3>3. pos + 1 \in 1..(Len(file) + 1) /\ end \in ((pos + 1) - 1)..Len(file) /\ Len(file) \in end..Len(file)
      BY <1>0, <2>1
    <3>4. seg \o rest = SubSeq(file, pos + 1, Len(file))
      BY <3>3, ConcatAdjacentSubSeq
    <3> QED
      BY <3>1, <3>2, <3>4
  <2> HIDE DEF seg, rest
  <2>4. a \in Seq(Bytes) /\ carry \o (seg \o rest) = a \o rest
    <3>0. seg \in Seq(Bytes) /\ rest \in Seq(Bytes)
      BY <2>3
    <3>1. (carry \o seg) \o rest = carry \o (seg \o rest)
      BY <3>0, ConcatThree
    <3> QED
      BY <2>3, <3>1, ConcatProperties
  <2> HIDE DEF a
  <2>5. A \in Seq(Lines) /\ A # <<>>
    BY <2>4, LinesOfType
  <2>6. x.text \in TextsOf /\ x.offset \in Nat /\ x = [text |-> x.text, offset |-> x.offset]
    BY <2>4, LastLineIs
  <2>7. x.text \in Seq(Bytes)
    BY <2>6, SeqMonotonic DEF TextsOf
  <2>8. LinesOf(a \o rest, offset) = Front(A) \o LinesOf(x.text \o rest, x.offset)
    BY <2>3, <2>4, LinesCut
  <2>9. Front(A) \in Seq(Lines) /\ A = Append(Front(A), x) /\ x \in Lines
    BY <2>5, FrontLast
  <2> HIDE DEF A, x
  <2>10. read[<<end, x.text, x.offset>>] = OnLines(file, end, x.text, x.offset)
    BY <2>1, <2>6, <2>7
  <2>11. Front(A) \o OnLines(file, end, x.text, x.offset) = LinesOf(a \o rest, offset)
    <3>1. CASE end = Len(file)
      <4>1. rest = <<>>
        <5>1. rest = SubSeq(file, Len(file) + 1, Len(file))
          BY <3>1 DEF rest
        <5> QED
          BY <1>0, <5>1, SubSeqEmpty
      <4>2. a \o rest = a
        BY <2>4, <4>1, ConcatEmptySeq
      <4>3. OnLines(file, end, x.text, x.offset) = <<x>>
        BY <1>0, <2>6, <3>1 DEF OnLines
      <4>4. Front(A) \o <<x>> = A
        BY <2>9, AppendIsConcat
      <4> QED
        BY <4>2, <4>3, <4>4 DEF A
    <3>2. CASE end # Len(file)
      <4>1. ~(end >= Len(file))
        BY <1>0, <2>1, <3>2
      <4>2. OnLines(file, end, x.text, x.offset) = LinesOf(x.text \o rest, x.offset)
        BY <4>1 DEF OnLines, rest
      <4> QED
        BY <2>8, <4>2
    <3> QED
      BY <3>1, <3>2
  <2>12. OnLines(file, pos, carry, offset) = LinesOf(a \o rest, offset)
    BY <1>2, <2>3, <2>4 DEF OnLines
  <2> QED
    BY <2>2, <2>10, <2>11, <2>12
<1> QED
  BY <1>1, <1>2

LEMMA ReadOnIs ==
    ASSUME NEW file \in Seq(Bytes), NEW chunk \in Nat \ {0}
    PROVE  ReadOn(file, chunk) = LinesOf(file, 0)
<1> DEFINE D == Nat \X Seq(Bytes) \X Nat
           Is(f) == f = [at \in D |-> OnStep(file, chunk, f, at)]
           lines == [at \in D |-> OnLines(file, at[1], at[2], at[3])]
           read == Forward(file, chunk)
<1>0. Len(file) \in Nat
  BY LenProperties
<1>1. \A at \in D : at[1] \in Nat /\ at[2] \in Seq(Bytes) /\ at[3] \in Nat /\ at = <<at[1], at[2], at[3]>>
  OBVIOUS
<1>2. Is(lines)
  <2>1. \A p \in Nat, u \in Seq(Bytes), o \in Nat : lines[<<p, u, o>>] = OnLines(file, p, u, o)
    OBVIOUS
  <2>2. ASSUME NEW at \in D PROVE OnStep(file, chunk, lines, at) = OnLines(file, at[1], at[2], at[3])
    <3> DEFINE p == at[1]
               u == at[2]
               o == at[3]
    <3>1. p \in Nat /\ u \in Seq(Bytes) /\ o \in Nat /\ at = <<p, u, o>>
      BY <1>1
    <3> HIDE DEF p, u, o, lines
    <3>2. OnStep(file, chunk, lines, <<p, u, o>>) = OnLines(file, p, u, o)
      BY <2>1, <3>1, OnStepIs
    <3> QED
      BY <3>1, <3>2 DEF p, u, o
  <2> QED
    BY <2>2
<1>3. read = CHOOSE f : Is(f)
  BY DEF Forward, OnStep
<1>4. Is(read)
  <2> HIDE DEF Is, lines, read
  <2> QED
    BY <1>2, <1>3
<1>5. \A p \in Nat, u \in Seq(Bytes), o \in Nat : read[<<p, u, o>>] = OnStep(file, chunk, read, <<p, u, o>>)
  <2>1. \A at \in D : read[at] = OnStep(file, chunk, read, at)
    BY <1>4
  <2>2. \A p \in Nat, u \in Seq(Bytes), o \in Nat : <<p, u, o>> \in D
    OBVIOUS
  <2> SUFFICES ASSUME NEW p \in Nat, NEW u \in Seq(Bytes), NEW o \in Nat
               PROVE  read[<<p, u, o>>] = OnStep(file, chunk, read, <<p, u, o>>)
    BY Zenon
  <2> HIDE DEF D, read
  <2>3. <<p, u, o>> \in D
    BY <2>2
  <2> DEFINE at == <<p, u, o>>
  <2> HIDE DEF at
  <2>4. read[at] = OnStep(file, chunk, read, at)
    BY <2>1, <2>3 DEF at
  <2> QED
    BY <2>4 DEF at
<1> HIDE DEF read
<1> DEFINE T == {n \in Nat : \A p \in Nat, u \in Seq(Bytes), o \in Nat :
                               p + n >= Len(file) => read[<<p, u, o>>] = OnLines(file, p, u, o)}
<1>6. 0 \in T
  <2> SUFFICES ASSUME NEW p \in Nat, NEW u \in Seq(Bytes), NEW o \in Nat, p + 0 >= Len(file)
               PROVE  read[<<p, u, o>>] = OnLines(file, p, u, o)
    OBVIOUS
  <2>1. ~(p < Len(file))
    BY <1>0
  <2>2. OnStep(file, chunk, read, <<p, u, o>>) = OnLines(file, p, u, o)
    BY <2>1, OnStepIs
  <2> QED
    BY <1>5, <2>2
<1>7. ASSUME NEW n \in Nat, n \in T PROVE n + 1 \in T
  <2> SUFFICES ASSUME NEW p \in Nat, NEW u \in Seq(Bytes), NEW o \in Nat, p + (n + 1) >= Len(file)
               PROVE  read[<<p, u, o>>] = OnLines(file, p, u, o)
    OBVIOUS
  <2>1. \A q \in Nat, v \in Seq(Bytes), w \in Nat :
          q > p /\ p < Len(file) => read[<<q, v, w>>] = OnLines(file, q, v, w)
    <3> TAKE q \in Nat, v \in Seq(Bytes), w \in Nat
    <3>1. q > p => q + n >= Len(file)
      BY <1>0
    <3> QED
      BY <1>7, <3>1
  <2>2. OnStep(file, chunk, read, <<p, u, o>>) = OnLines(file, p, u, o)
    BY <2>1, OnStepIs
  <2> QED
    BY <1>5, <2>2
<1>8. Len(file) \in T
  <2> HIDE DEF T
  <2> QED
    BY <1>0, <1>6, <1>7, Induction
<1>9. read[<<0, <<>>, 0>>] = OnLines(file, 0, <<>>, 0)
  <2>1. <<>> \in Seq(Bytes) /\ 0 + Len(file) >= Len(file)
    BY <1>0
  <2> QED
    BY <1>8, <2>1
<1>10. OnLines(file, 0, <<>>, 0) = LinesOf(file, 0)
  <2>1. CASE Len(file) = 0
    <3>1. file = <<>>
      BY <2>1, EmptySeq
    <3>2. OnLines(file, 0, <<>>, 0) = <<NoLine(0)>>
      BY <2>1 DEF OnLines, NoLine
    <3> QED
      BY <3>1, <3>2, LinesOfEmpty
  <2>2. CASE Len(file) # 0
    <3>1. ~(0 >= Len(file)) /\ 0 + 1 = 1
      BY <1>0, <2>2
    <3>2. SubSeq(file, 1, Len(file)) = file /\ <<>> \o file = file
      BY SubSeqFull, ConcatEmptySeq
    <3> QED
      BY <3>1, <3>2 DEF OnLines
  <2> QED
    BY <2>1, <2>2
<1> QED
  BY <1>9, <1>10 DEF ReadOn, read

(* What is kept before an element is what was kept of the part before it. *)
LEMMA ThosePlace ==
    ASSUME NEW R, NEW S
    PROVE  \A s \in Seq(R) : \A i \in 1..Len(Those(s, S)) : \E j \in 1..Len(s) :
             s[j] = Those(s, S)[i] /\ Those(SubSeq(s, 1, j - 1), S) = SubSeq(Those(s, S), 1, i - 1)
<1> DEFINE LiesAt(s, i, j) == s[j] = Those(s, S)[i] /\ Those(SubSeq(s, 1, j - 1), S) = SubSeq(Those(s, S), 1, i - 1)
           T == {s \in Seq(R) : \A i \in 1..Len(Those(s, S)) : \E j \in 1..Len(s) : LiesAt(s, i, j)}
<1>1. <<>> \in T
  <2>1. Those(<<>>, S) = <<>> /\ Len(<<>>) = 0 /\ <<>> \in Seq(R)
    BY ThoseEmpty
  <2>2. 1..0 = {}
    OBVIOUS
  <2> HIDE DEF LiesAt
  <2> QED
    BY <2>1, <2>2
<1>2. ASSUME NEW s \in Seq(R), NEW x \in R, s \in T PROVE Append(s, x) \in T
  <2> DEFINE t == Append(s, x)
             a == Those(s, S)
             b == Those(t, S)
  <2>1. t \in Seq(R) /\ Len(t) = Len(s) + 1 /\ Len(s) \in Nat /\ t[Len(s) + 1] = x /\ \A j \in 1..Len(s) : t[j] = s[j]
    BY AppendProperties
  <2>2. b = (IF x \in S THEN Append(a, x) ELSE a) /\ a \in Seq(R)
    BY ThoseAppend, ThoseType
  <2>3. \A i \in 1..Len(a) : \E j \in 1..Len(s) : s[j] = a[i] /\ Those(SubSeq(s, 1, j - 1), S) = SubSeq(a, 1, i - 1)
    BY <1>2
  <2> HIDE DEF t, a, b
  <2>4. \A k \in 0..Len(s) : SubSeq(t, 1, k) = SubSeq(s, 1, k)
    <3> TAKE k \in 0..Len(s)
    <3>1. k \in 0..Len(t) /\ \A i \in 1..k : t[i] = s[i]
      BY <2>1
    <3> QED
      BY <2>1, <3>1, HeadIs, SeqEqual
  <2>5. Len(a) \in Nat
    BY <2>2, LenProperties
  <2>6. ASSUME NEW i \in 1..Len(a), b[i] = a[i], SubSeq(b, 1, i - 1) = SubSeq(a, 1, i - 1)
        PROVE  \E j \in 1..Len(t) : t[j] = b[i] /\ Those(SubSeq(t, 1, j - 1), S) = SubSeq(b, 1, i - 1)
    <3>1. PICK j \in 1..Len(s) : s[j] = a[i] /\ Those(SubSeq(s, 1, j - 1), S) = SubSeq(a, 1, i - 1)
      BY <2>3
    <3>2. j - 1 \in 0..Len(s) /\ j \in 1..Len(t)
      BY <2>1
    <3>3. SubSeq(t, 1, j - 1) = SubSeq(s, 1, j - 1) /\ t[j] = s[j]
      BY <2>1, <2>4, <3>2
    <3> QED
      BY <2>6, <3>1, <3>2, <3>3
  <2>7. ASSUME NEW i \in 1..Len(b)
        PROVE  \E j \in 1..Len(t) : t[j] = b[i] /\ Those(SubSeq(t, 1, j - 1), S) = SubSeq(b, 1, i - 1)
    <3>1. CASE x \notin S
      BY <2>2, <2>6, <2>7, <3>1
    <3>2. CASE x \in S
      <4>1. b = Append(a, x)
        BY <2>2, <3>2
      <4>2. Len(b) = Len(a) + 1 /\ b[Len(a) + 1] = x /\ b \in Seq(R) /\ \A j \in 1..Len(a) : b[j] = a[j]
        BY <2>2, <4>1, AppendProperties
      <4>3. \A k \in 0..Len(a) : SubSeq(b, 1, k) = SubSeq(a, 1, k)
        <5> TAKE k \in 0..Len(a)
        <5>1. k \in 0..Len(b) /\ \A j \in 1..k : b[j] = a[j]
          BY <2>5, <4>2
        <5> QED
          BY <2>2, <4>2, <5>1, HeadIs, SeqEqual
      <4>4. CASE i \in 1..Len(a)
        <5>1. i - 1 \in 0..Len(a)
          BY <2>5, <4>4
        <5> QED
          BY <2>6, <4>2, <4>3, <4>4, <5>1
      <4>5. CASE i = Len(a) + 1
        <5>1. i - 1 = Len(a) /\ Len(a) \in 0..Len(a) /\ Len(s) \in 0..Len(s) /\ (Len(s) + 1) - 1 = Len(s)
              /\ Len(s) + 1 \in 1..Len(t)
          BY <2>1, <2>5, <4>5
        <5>2. SubSeq(b, 1, Len(a)) = a
          BY <2>2, <4>3, <5>1, SubSeqFull
        <5>3. SubSeq(t, 1, Len(s)) = s
          BY <2>4, <5>1, SubSeqFull
        <5>4. t[Len(s) + 1] = b[i] /\ Those(SubSeq(t, 1, (Len(s) + 1) - 1), S) = SubSeq(b, 1, i - 1)
          BY <2>1, <4>2, <4>5, <5>1, <5>2, <5>3 DEF a
        <5> QED
          BY <5>1, <5>4
      <4> QED
        BY <2>5, <2>7, <4>2, <4>4, <4>5
    <3> QED
      BY <3>1, <3>2
  <2>8. \A i \in 1..Len(b) : \E j \in 1..Len(t) : LiesAt(t, i, j)
    BY <2>7 DEF b
  <2> HIDE DEF LiesAt
  <2> QED
    BY <2>1, <2>8 DEF b, t
<1>3. Seq(R) \subseteq T
  <2> HIDE DEF T
  <2> QED
    BY <1>1, <1>2, SeqInduction
<1> QED
  BY <1>3

(* The messages before a place of the file. *)
MessagesBefore(file, before) == Those(LinesOf(UpTo(file, before), 0), MessageLines)

LEMMA NoLineIsNoMessage ==
    ASSUME NEW a \in Seq(Lines), NEW o \in Nat
    PROVE  Those(Append(a, NoLine(o)), MessageLines) = Those(a, MessageLines)
<1> DEFINE line == NoLine(o)
<1>1. line \in Lines /\ line \notin MessageLines
  BY NoLineIs
<1> HIDE DEF line
<1>2. \A R, S : \A s \in Seq(R) : \A x \in R : x \notin S => Those(Append(s, x), S) = Those(s, S)
  BY ThoseAppend
<1>3. Those(Append(a, line), MessageLines) = Those(a, MessageLines)
  BY <1>1, <1>2, Zenon
<1> QED
  BY <1>3 DEF line

CodexPageFits(file, before, limit, chunk) ==
    LET page == CodexPage(file, before, limit, chunk)
        ms == MessagesBefore(file, before)
    IN /\ page.messages \in Seq(Lines) /\ ms \in Seq(Lines)
       /\ ~page.more => page.messages = ms
       /\ page.more => /\ page.before \in 0..Len(file)
                       /\ Len(MessagesBefore(file, page.before)) < Len(ms)
                       /\ MessagesBefore(file, page.before) \o page.messages = ms

LEMMA CodexPageIs ==
    ASSUME NEW file \in Seq(Bytes), NEW before \in 0..Len(file), NEW limit \in Nat \ {0}, NEW chunk \in Nat \ {0}
    PROVE  CodexPageFits(file, before, limit, chunk)
<1> DEFINE page == CodexPage(file, before, limit, chunk)
           data == UpTo(file, before)
           L == LinesOf(data, 0)
           ms == Those(L, MessageLines)
           found == Those(ReadBack(file, before, chunk), MessageLines)
<1>0. Len(file) \in Nat
  BY LenProperties
<1>1. data \in Seq(Bytes) /\ Len(data) = before
  BY HeadIs DEF UpTo
<1> HIDE DEF data
<1>2. L \in Seq(Lines) /\ L # <<>> /\ ms \in Seq(Lines)
  BY <1>1, LinesOfType, ThoseType
<1>3. found = Reverse(ms)
  <2>1. CASE before = 0
    <3>1. data = <<>>
      BY <1>1, <2>1, EmptySeq
    <3>2. L = <<NoLine(0)>>
      BY <3>1, LinesOfEmpty
    <3>3. ms = <<>>
      <4>2. <<NoLine(0)>> = Append(<<>>, NoLine(0)) /\ <<>> \in Seq(Lines)
        OBVIOUS
      <4>3. Those(Append(<<>>, NoLine(0)), MessageLines) = Those(<<>>, MessageLines)
        BY <4>2, NoLineIsNoMessage
      <4> QED
        BY <3>2, <4>2, <4>3, ThoseEmpty
    <3>4. ReadBack(file, before, chunk) = <<>>
      BY <2>1, ReadBackIs
    <3> QED
      BY <3>3, <3>4, ThoseEmpty, ReverseSmall
  <2>2. CASE before # 0
    <3>1. ReadBack(file, before, chunk) = Reverse(L)
      BY <2>2, ReadBackIs DEF data
    <3> QED
      BY <1>2, <3>1, ThoseReverse
  <2> QED
    BY <2>1, <2>2
<1>4. page = IF Len(found) <= limit THEN [messages |-> Reverse(found), more |-> FALSE, before |-> 0]
             ELSE [messages |-> Reverse(UpTo(found, limit)), more |-> TRUE, before |-> found[limit].offset]
  BY DEF CodexPage
<1> HIDE DEF page, found, ms
<1>5. found \in Seq(Lines) /\ Len(found) = Len(ms) /\ Len(ms) \in Nat
  BY <1>2, <1>3, ReverseIs
<1>6. CASE Len(found) <= limit
  <2>1. page.messages = Reverse(found) /\ page.more = FALSE
    BY <1>4, <1>6
  <2>2. page.messages = ms
    BY <1>2, <1>3, <2>1, ReverseTwice
  <2> QED
    BY <1>2, <2>1, <2>2 DEF CodexPageFits, MessagesBefore, page, ms, L, data
<1>7. CASE ~(Len(found) <= limit)
  <2> DEFINE n == Len(ms)
             i == n - limit + 1
             o == ms[i].offset
  <2>1. page.messages = Reverse(SubSeq(found, 1, limit)) /\ page.more = TRUE /\ page.before = found[limit].offset
    BY <1>4, <1>7 DEF UpTo
  <2>2. n \in Nat /\ limit \in 1..n /\ limit < n /\ i \in 1..n /\ i - 1 = n - limit /\ n + 1 - limit = i
    BY <1>5, <1>7
  <2>3. found[limit] = ms[i]
    <3>1. found[limit] = ms[n + 1 - limit]
      BY <1>2, <1>3, <2>2, ReverseIs
    <3> QED
      BY <2>2, <3>1
  <2>4. Reverse(SubSeq(found, 1, limit)) = SubSeq(ms, i, n) /\ SubSeq(ms, 1, n - limit) \o SubSeq(ms, i, n) = ms
    <3>1. limit \in 1..Len(ms)
      BY <2>2
    <3>2. /\ Reverse(SubSeq(Reverse(ms), 1, limit)) = SubSeq(ms, Len(ms) - limit + 1, Len(ms))
          /\ SubSeq(ms, 1, Len(ms) - limit) \o SubSeq(ms, Len(ms) - limit + 1, Len(ms)) = ms
      BY <1>2, <3>1, LastOfReverse
    <3> QED
      BY <1>3, <3>2
  <2>5. PICK j \in 1..Len(L) : L[j] = ms[i] /\ Those(SubSeq(L, 1, j - 1), MessageLines) = SubSeq(ms, 1, i - 1)
    <3> HIDE DEF L, n, i
    <3>1. L \in Seq(Lines)
      BY <1>2
    <3>2. \A m \in 1..Len(Those(L, MessageLines)) : \E k \in 1..Len(L) :
            L[k] = Those(L, MessageLines)[m]
            /\ Those(SubSeq(L, 1, k - 1), MessageLines) = SubSeq(Those(L, MessageLines), 1, m - 1)
      BY <3>1, ThosePlace
    <3>3. i \in 1..Len(ms)
      BY <2>2 DEF n
    <3>4. ms = Those(L, MessageLines)
      BY DEF ms
    <3> QED
      BY <3>2, <3>3, <3>4
  <2>6. o \in 0..before /\ LinesOf(UpTo(data, o), 0) = Append(SubSeq(L, 1, j - 1), NoLine(o))
    BY <1>1, <2>5, LinesBefore
  <2> HIDE DEF n, i, o, L
  <2>7. UpTo(data, o) = UpTo(file, o) /\ o \in 0..Len(file) /\ o \in Nat
    <3>1. o \in 0..Len(file) /\ o \in 0..Len(data) /\ o \in Nat /\ \A k \in 1..o : k \in 1..before
      BY <1>0, <1>1, <2>6
    <3>2. \A k \in 1..before : data[k] = file[k]
      BY HeadIs DEF data, UpTo
    <3>3. \A k \in 1..o : data[k] = file[k]
      BY <3>1, <3>2
    <3>4. SubSeq(data, 1, o) = SubSeq(file, 1, o)
      BY <1>1, <3>1, <3>3, HeadIs, SeqEqual
    <3> QED
      BY <3>1, <3>4 DEF UpTo
  <2>8. MessagesBefore(file, o) = SubSeq(ms, 1, n - limit)
    <3>2. SubSeq(L, 1, j - 1) \in Seq(Lines)
      <4>1. Len(L) \in Nat /\ j - 1 \in 0..Len(L)
        BY <1>2, LenProperties
      <4> QED
        BY <1>2, <4>1, HeadIs
    <3>3. Those(Append(SubSeq(L, 1, j - 1), NoLine(o)), MessageLines) = Those(SubSeq(L, 1, j - 1), MessageLines)
      BY <2>7, <3>2, NoLineIsNoMessage
    <3> QED
      BY <2>2, <2>5, <2>6, <2>7, <3>3 DEF MessagesBefore
  <2>9. Len(SubSeq(ms, 1, n - limit)) = n - limit /\ SubSeq(ms, i, n) \in Seq(Lines)
    <3>1. n - limit \in 0..Len(ms) /\ n - limit \in Nat /\ n - limit <= n /\ n <= Len(ms) /\ n \in Nat
          /\ i = (n - limit) + 1
      BY <2>2 DEF n, i
    <3>2. \A k \in i..n : ms[k] \in Lines
      BY <1>2, <2>2, <3>1, ElementOfSeq
    <3>3. SubSeq(ms, i, n) \in Seq(Lines)
      BY <2>2, <3>1, <3>2, SubSeqProperties
    <3> QED
      BY <1>2, <3>1, <3>3, HeadIs
  <2>10. page.before = o /\ page.messages = SubSeq(ms, i, n)
    BY <2>1, <2>3, <2>4 DEF o
  <2>11. Len(MessagesBefore(file, o)) < n
    BY <2>2, <2>8, <2>9
  <2>12. ms = MessagesBefore(file, before)
    BY DEF MessagesBefore, ms, L, data
  <2> QED
    BY <1>2, <2>1, <2>4, <2>7, <2>8, <2>9, <2>10, <2>11, <2>12 DEF CodexPageFits, page, n
<1> QED
  BY <1>6, <1>7
CodexPagesStep(file, limit, chunk, pages, before) ==
    LET page == CodexPage(file, before, limit, chunk)
    IN (IF page.more THEN pages[page.before] ELSE <<>>) \o page.messages

(* The pages that end at a place are the messages before it. *)
LEMMA CodexPagesAre ==
    ASSUME NEW file \in Seq(Bytes), NEW limit \in Nat \ {0}, NEW chunk \in Nat \ {0}
    PROVE  \A before \in 0..Len(file) : CodexPages(file, limit, chunk)[before] = MessagesBefore(file, before)
<1> DEFINE D == 0..Len(file)
           whole == [before \in D |-> MessagesBefore(file, before)]
           Is(p) == p = [before \in D |-> CodexPagesStep(file, limit, chunk, p, before)]
<1>1. ASSUME NEW before \in D, NEW p,
             LET page == CodexPage(file, before, limit, chunk)
             IN page.more => p[page.before] = MessagesBefore(file, page.before)
      PROVE  CodexPagesStep(file, limit, chunk, p, before) = MessagesBefore(file, before)
  <2> DEFINE page == CodexPage(file, before, limit, chunk)
             ms == MessagesBefore(file, before)
  <2>0. CodexPageFits(file, before, limit, chunk)
    BY CodexPageIs
  <2>1. ms \in Seq(Lines)
    BY <2>0 DEF CodexPageFits
  <2>2. ~page.more => page.messages = ms
    BY <2>0 DEF CodexPageFits
  <2>3. page.more => MessagesBefore(file, page.before) \o page.messages = ms
    BY <2>0 DEF CodexPageFits
  <2>4. CodexPagesStep(file, limit, chunk, p, before) = (IF page.more THEN p[page.before] ELSE <<>>) \o page.messages
    BY DEF CodexPagesStep
  <2>5. page.more => p[page.before] = MessagesBefore(file, page.before)
    BY <1>1
  <2> HIDE DEF page, ms
  <2>6. CASE page.more
    BY <2>3, <2>4, <2>5, <2>6 DEF ms
  <2>7. CASE ~page.more
    BY <2>1, <2>2, <2>4, <2>7, ConcatEmptySeq DEF ms
  <2> QED
    BY <2>6, <2>7
<1>2. Is(whole)
  <2>1. ASSUME NEW before \in D
        PROVE  CodexPagesStep(file, limit, chunk, whole, before) = MessagesBefore(file, before)
    <3> DEFINE page == CodexPage(file, before, limit, chunk)
    <3>1. page.more => page.before \in D
      BY CodexPageIs DEF CodexPageFits
    <3>2. page.more => whole[page.before] = MessagesBefore(file, page.before)
      BY <3>1
    <3> HIDE DEF whole
    <3> QED
      BY <1>1, <3>2
  <2> QED
    BY <2>1
<1>3. CodexPages(file, limit, chunk) = CHOOSE p : Is(p)
  BY DEF CodexPages, CodexPagesStep
<1>4. Is(CodexPages(file, limit, chunk))
  <2> HIDE DEF Is, whole
  <2> QED
    BY <1>2, <1>3
<1> DEFINE pages == CodexPages(file, limit, chunk)
<1>5. \A before \in D : pages[before] = CodexPagesStep(file, limit, chunk, pages, before)
  BY <1>4
<1> HIDE DEF pages
<1> DEFINE count(before) == Len(MessagesBefore(file, before))
           T == {n \in Nat : \A before \in D : count(before) < n => pages[before] = MessagesBefore(file, before)}
<1>6. \A before \in D : count(before) \in Nat
  <2>1. \A before \in D : MessagesBefore(file, before) \in Seq(Lines)
    BY CodexPageIs DEF CodexPageFits
  <2> QED
    BY <2>1, LenProperties
<1>7. 0 \in T
  BY <1>6
<1>8. ASSUME NEW n \in Nat, n \in T PROVE n + 1 \in T
  <2> SUFFICES ASSUME NEW before \in D, count(before) < n + 1
               PROVE  pages[before] = MessagesBefore(file, before)
    OBVIOUS
  <2> DEFINE page == CodexPage(file, before, limit, chunk)
  <2>1. page.more => page.before \in D /\ count(page.before) < count(before)
    BY CodexPageIs DEF CodexPageFits
  <2>2. page.more => count(page.before) < n
    BY <1>6, <2>1
  <2>3. page.more => pages[page.before] = MessagesBefore(file, page.before)
    BY <1>8, <2>1, <2>2
  <2>4. CodexPagesStep(file, limit, chunk, pages, before) = MessagesBefore(file, before)
    BY <1>1, <2>3
  <2> QED
    BY <1>5, <2>4
<1>9. ASSUME NEW before \in D PROVE pages[before] = MessagesBefore(file, before)
  <2>1. count(before) + 1 \in Nat /\ count(before) < count(before) + 1
    BY <1>6
  <2>2. count(before) + 1 \in T
    <3> HIDE DEF T, count
    <3> QED
      BY <1>7, <1>8, <2>1, Induction
  <2> QED
    BY <2>1, <2>2
<1> QED
  BY <1>9 DEF pages

(* codex-session-history.js: whatever the chunks a rollout is read in, the *)
(* reader of the whole file finds the same messages under the same ids,    *)
(* and the pages read from the file's end, put one before the other, are   *)
(* these messages, each once.                                              *)
THEOREM RolloutPagesAreTheFileAlways ==
    ASSUME NEW file \in Seq(Bytes), NEW chunk \in Nat \ {0}, NEW other \in Nat \ {0}, NEW limit \in Nat \ {0}
    PROVE  /\ CodexMessages(file, chunk) = CodexMessages(file, other)
           /\ CodexPages(file, limit, chunk)[Len(file)] = CodexMessages(file, other)
<1>1. \A c \in Nat \ {0} : CodexMessages(file, c) = Those(LinesOf(file, 0), MessageLines)
  BY ReadOnIs DEF CodexMessages
<1>2. Len(file) \in 0..Len(file)
  BY LenProperties
<1>3. CodexPages(file, limit, chunk)[Len(file)] = MessagesBefore(file, Len(file))
  BY <1>2, CodexPagesAre
<1>4. UpTo(file, Len(file)) = file
  BY SubSeqFull DEF UpTo
<1>5. MessagesBefore(file, Len(file)) = Those(LinesOf(file, 0), MessageLines)
  BY <1>4 DEF MessagesBefore
<1> QED
  BY <1>1, <1>3, <1>5

-----------------------------------------------------------------------------
(* The journals that a run reads are such trees: the k-th record, if it    *)
(* can be read, has k for its id and a parent before it.                   *)
RecordsUpTo(n) ==
    {s \in Seq(JournalRecord) : Len(s) = n /\ \A k \in 1..n : s[k] \in Records(k) \cup {Unreadable}}

LEMMA RecordsAre ==
    ASSUME NEW k \in Nat \ {0}, NEW r \in Records(k) \cup {Unreadable}
    PROVE  /\ r \in JournalRecord
           /\ r.readable => r.id = k /\ r.parent \in 0..(k - 1)
           /\ r.id # 0 => r.id = k
           /\ r.parent \in 0..(k - 1)
<1>1. CASE r \in Records(k)
  <2>1. r \in [id : {k}, parent : 0..(k - 1), shown : BOOLEAN, readable : {TRUE}]
    BY <1>1 DEF Records
  <2>2. r.id = k /\ r.parent \in 0..(k - 1) /\ r.readable = TRUE
    BY <2>1
  <2>3. \A x \in 0..(k - 1) : x \in Nat
    OBVIOUS
  <2>4. r \in JournalRecord
    BY <2>1, <2>3 DEF JournalRecord
  <2> QED
    BY <2>2, <2>4
<1>2. CASE r = Unreadable
  <2>1. r = [id |-> 0, parent |-> 0, shown |-> FALSE, readable |-> FALSE]
    BY <1>2 DEF Unreadable
  <2> QED
    BY <2>1 DEF JournalRecord
<1> QED
  BY <1>1, <1>2

Grown(trees, n) == {Append(s, r) : s \in trees, r \in Records(n) \cup {Unreadable}}

LEMMA RecordsStep ==
    ASSUME NEW n \in Nat
    PROVE  RecordsUpTo(n + 1) = Grown(RecordsUpTo(n), n + 1)
<1> DEFINE New == Records(n + 1) \cup {Unreadable}
<1>1. \A r \in New : r \in JournalRecord
  BY RecordsAre
<1>2. ASSUME NEW s \in RecordsUpTo(n), NEW r \in New PROVE Append(s, r) \in RecordsUpTo(n + 1)
  <2>1. s \in Seq(JournalRecord) /\ Len(s) = n /\ r \in JournalRecord
    BY <1>1 DEF RecordsUpTo
  <2>2. /\ Append(s, r) \in Seq(JournalRecord) /\ Len(Append(s, r)) = n + 1 /\ Append(s, r)[n + 1] = r
        /\ \A k \in 1..n : Append(s, r)[k] = s[k]
    BY <2>1, AppendProperties
  <2>3. ASSUME NEW k \in 1..(n + 1) PROVE Append(s, r)[k] \in Records(k) \cup {Unreadable}
    <3>1. CASE k = n + 1
      <4>1. Append(s, r)[k] = r
        BY <2>2, <3>1
      <4>2. r \in Records(k) \cup {Unreadable}
        BY <3>1
      <4> QED
        BY <4>1, <4>2
    <3>2. CASE k \in 1..n
      <4>1. Append(s, r)[k] = s[k]
        BY <2>2, <3>2
      <4>2. s[k] \in Records(k) \cup {Unreadable}
        BY <3>2 DEF RecordsUpTo
      <4> QED
        BY <4>1, <4>2
    <3>3. k = n + 1 \/ k \in 1..n
      OBVIOUS
    <3> HIDE DEF New
    <3> QED
      BY <3>1, <3>2, <3>3, Zenon
  <2> QED
    BY <2>2, <2>3 DEF RecordsUpTo
<1>3. ASSUME NEW t \in RecordsUpTo(n + 1)
      PROVE  \E s \in RecordsUpTo(n) : \E r \in New : t = Append(s, r)
  <2> DEFINE s == SubSeq(t, 1, n)
             r == t[n + 1]
  <2>1. t \in Seq(JournalRecord) /\ Len(t) = n + 1 /\ n \in 0..Len(t) /\ n + 1 \in 1..(n + 1)
    BY DEF RecordsUpTo
  <2>2. s \in Seq(JournalRecord) /\ Len(s) = n /\ \A k \in 1..n : s[k] = t[k]
    BY <2>1, HeadIs
  <2>3. r \in New /\ \A k \in 1..n : t[k] \in Records(k) \cup {Unreadable}
    BY <2>1 DEF RecordsUpTo
  <2> HIDE DEF s, r
  <2>4. s \in RecordsUpTo(n)
    BY <2>2, <2>3 DEF RecordsUpTo
  <2>5. r \in JournalRecord
    BY <1>1, <2>3
  <2>6. /\ Append(s, r) \in Seq(JournalRecord) /\ Len(Append(s, r)) = n + 1 /\ Append(s, r)[n + 1] = r
        /\ \A k \in 1..n : Append(s, r)[k] = s[k]
    BY <2>2, <2>5, AppendProperties
  <2>7. \A k \in 1..Len(t) : t[k] = Append(s, r)[k]
    BY <2>1, <2>2, <2>6 DEF r
  <2>8. t = Append(s, r)
    BY <2>1, <2>6, <2>7, SeqEqual
  <2> QED
    BY <2>3, <2>4, <2>8
<1>4. \A t : t \in Grown(RecordsUpTo(n), n + 1) <=> \E s \in RecordsUpTo(n) : \E r \in New : t = Append(s, r)
  BY DEF Grown
<1> QED
  <2> HIDE DEF New
  <2> QED
    BY <1>2, <1>3, <1>4

TreesStep(f, n) == IF n = 0 THEN {<<>>} ELSE Grown(f[n - 1], n)

LEMMA TreesAre ==
    \A n \in Nat : Trees[n] = RecordsUpTo(n)
<1> DEFINE Is(f) == f = [n \in Nat |-> TreesStep(f, n)]
           all == [n \in Nat |-> RecordsUpTo(n)]
<1>1. RecordsUpTo(0) = {<<>>}
  <2>1. \A s \in RecordsUpTo(0) : s = <<>>
    BY EmptySeq DEF RecordsUpTo
  <2>2. <<>> \in RecordsUpTo(0)
    BY DEF RecordsUpTo
  <2> QED
    BY <2>1, <2>2
<1>2. ASSUME NEW n \in Nat PROVE TreesStep(all, n) = RecordsUpTo(n)
  <2>1. CASE n = 0
    BY <1>1, <2>1 DEF TreesStep
  <2>2. CASE n # 0
    <3> DEFINE m == n - 1
    <3>1. m \in Nat /\ m + 1 = n
      BY <2>2
    <3>2. all[m] = RecordsUpTo(m)
      BY <3>1
    <3>3. TreesStep(all, n) = Grown(all[m], n)
      BY <2>2 DEF TreesStep
    <3> HIDE DEF m, all
    <3>4. RecordsUpTo(m + 1) = Grown(RecordsUpTo(m), m + 1)
      BY <3>1, RecordsStep
    <3> QED
      BY <3>1, <3>2, <3>3, <3>4, Zenon
  <2> QED
    BY <2>1, <2>2
<1>3. Is(all)
  <2> HIDE DEF all
  <2>1. all = [n \in Nat |-> RecordsUpTo(n)]
    BY DEF all
  <2> QED
    BY <1>2, <2>1
<1>4. Trees = CHOOSE f : Is(f)
  BY DEF Trees, TreesStep, Grown
<1>5. Is(Trees)
  <2> HIDE DEF Is, all
  <2> QED
    BY <1>3, <1>4
<1> DEFINE trees == Trees
<1> HIDE DEF trees
<1>6. \A n \in Nat : trees[n] = TreesStep(trees, n)
  <2>1. trees = [n \in Nat |-> TreesStep(trees, n)]
    BY <1>5 DEF trees
  <2> HIDE DEF Is
  <2> QED
    BY <2>1
<1> DEFINE T == {n \in Nat : trees[n] = RecordsUpTo(n)}
<1>7. 0 \in T
  <2>1. trees[0] = {<<>>}
    <3>1. trees[0] = TreesStep(trees, 0)
      BY <1>6
    <3> QED
      BY <3>1 DEF TreesStep
  <2> QED
    BY <1>1, <2>1
<1>8. ASSUME NEW n \in Nat, n \in T PROVE n + 1 \in T
  <2> DEFINE m == n + 1
  <2>1. m \in Nat /\ m # 0 /\ m - 1 = n /\ m = n + 1
    OBVIOUS
  <2>2. trees[n] = RecordsUpTo(n)
    BY <1>8
  <2> HIDE DEF m
  <2>3. trees[m] = TreesStep(trees, m)
    BY <1>6, <2>1
  <2>4. TreesStep(trees, m) = Grown(trees[n], m)
    BY <2>1 DEF TreesStep
  <2>5. RecordsUpTo(n + 1) = Grown(RecordsUpTo(n), n + 1)
    BY RecordsStep
  <2>6. trees[m] = RecordsUpTo(m)
    BY <2>1, <2>2, <2>3, <2>4, <2>5, Zenon
  <2> QED
    BY <2>1, <2>6
<1> QED
  <2> HIDE DEF T
  <2>1. Nat \subseteq T
    BY <1>7, <1>8, Induction
  <2> QED
    BY <2>1 DEF T, trees

LEMMA RecordsAreATree ==
    ASSUME NEW n \in Nat, NEW s \in RecordsUpTo(n)
    PROVE  IsTree(s)
<1>1. s \in Seq(JournalRecord) /\ DOMAIN s = 1..n /\ \A k \in 1..n : s[k] \in Records(k) \cup {Unreadable}
  BY LenProperties DEF RecordsUpTo
<1>2. \A k \in 1..n : /\ s[k].id # 0 => s[k].id = k
                      /\ s[k].parent \in 0..(k - 1)
  BY <1>1, RecordsAre
<1>3. \A j, k \in 1..n : s[j].id = s[k].id /\ s[j].id # 0 => j = k
  BY <1>2
<1>4. \A j, k \in 1..n : s[j].id # 0 /\ s[k].parent = s[j].id => j < k
  BY <1>2
<1> QED
  BY <1>1, <1>3, <1>4 DEF IsTree

LEMMA ReadableIs ==
    ASSUME NEW u \in Seq(JournalRecord)
    PROVE  ReadableOf(u) = Those(u, {r \in JournalRecord : r.readable})
<1> DEFINE S == {r \in JournalRecord : r.readable}
           R == {u[k] : k \in 1..Len(u)}
           Q == {u[k] : k \in {j \in DOMAIN u : u[j].readable}}
<1>1. u \in Seq(R) /\ R \subseteq JournalRecord /\ DOMAIN u = 1..Len(u)
  OBVIOUS
<1>2. \A x \in R : x \in Q <=> x \in S
  BY <1>1
<1>3. ReadableOf(u) = Those(u, Q)
  BY DEF ReadableOf
<1> HIDE DEF R, Q, S
<1>4. Those(u, Q) = Those(u, S)
  BY <1>1, <1>2, ThoseSame
<1> QED
  BY <1>3, <1>4 DEF S

Rising(r, n) ==
    /\ r \in Seq(JournalRecord)
    /\ \A k \in 1..Len(r) : r[k].id \in 1..n /\ r[k].parent < r[k].id
    /\ \A j, k \in 1..Len(r) : j < k => r[j].id < r[k].id

LEMMA ReadableRises ==
    \A n \in Nat : \A s \in RecordsUpTo(n) : Rising(ReadableOf(s), n)
<1> DEFINE S == {r \in JournalRecord : r.readable}
           T == {n \in Nat : \A s \in RecordsUpTo(n) : Rising(Those(s, S), n)}
<1>1. 0 \in T
  <2>1. \A s \in RecordsUpTo(0) : s = <<>>
    BY EmptySeq DEF RecordsUpTo
  <2>2. Rising(<<>>, 0)
    BY DEF Rising
  <2>3. \A s \in RecordsUpTo(0) : Rising(Those(s, S), 0)
    BY <2>1, <2>2, ThoseEmpty
  <2> QED
    BY <2>3
<1>2. ASSUME NEW n \in Nat, n \in T PROVE n + 1 \in T
  <2> SUFFICES ASSUME NEW t \in RecordsUpTo(n + 1) PROVE Rising(Those(t, S), n + 1)
    OBVIOUS
  <2>1. PICK s \in RecordsUpTo(n), x \in Records(n + 1) \cup {Unreadable} : t = Append(s, x)
    <3>1. t \in Grown(RecordsUpTo(n), n + 1)
      BY RecordsStep
    <3> QED
      BY <3>1 DEF Grown
  <2> DEFINE a == Those(s, S)
  <2>2. n + 1 \in Nat \ {0} /\ (n + 1) - 1 = n
    OBVIOUS
  <2>3. x \in JournalRecord /\ (x.readable => x.id = n + 1 /\ x.parent \in 0..n)
    BY <2>2, RecordsAre
  <2>4. s \in Seq(JournalRecord)
    BY DEF RecordsUpTo
  <2>5. Rising(a, n)
    BY <1>2
  <2>6. x \in S <=> x.readable
    BY <2>3
  <2>7. Those(t, S) = IF x \in S THEN Append(a, x) ELSE a
    BY <2>1, <2>3, <2>4, ThoseAppend
  <2> HIDE DEF a, S
  <2>8. a \in Seq(JournalRecord) /\ Len(a) \in Nat
        /\ (\A k \in 1..Len(a) : a[k].id \in 1..n /\ a[k].parent < a[k].id)
        /\ \A j, k \in 1..Len(a) : j < k => a[j].id < a[k].id
    BY <2>5, LenProperties DEF Rising
  <2>9. CASE x \notin S
    BY <2>7, <2>8, <2>9 DEF Rising
  <2>10. CASE x \in S
    <3> DEFINE b == Append(a, x)
    <3>1. b \in Seq(JournalRecord) /\ Len(b) = Len(a) + 1 /\ b[Len(a) + 1] = x /\ \A k \in 1..Len(a) : b[k] = a[k]
      BY <2>3, <2>8, AppendProperties
    <3>2. x.id = n + 1 /\ x.parent \in 0..n
      BY <2>3, <2>6, <2>10
    <3> HIDE DEF b
    <3>3. \A k \in 1..Len(b) : k \in 1..Len(a) \/ k = Len(a) + 1
      BY <2>8, <3>1
    <3>4. \A k \in 1..Len(b) : b[k].id \in 1..(n + 1) /\ b[k].parent < b[k].id
      BY <2>8, <3>1, <3>2, <3>3
    <3>5. \A j, k \in 1..Len(b) : j < k => b[j].id < b[k].id
      BY <2>8, <3>1, <3>2, <3>3
    <3>6. Rising(b, n + 1)
      BY <3>1, <3>4, <3>5 DEF Rising
    <3> QED
      BY <2>7, <2>10, <3>6 DEF b
  <2> QED
    BY <2>9, <2>10
<1>3. Nat \subseteq T
  <2> HIDE DEF T
  <2> QED
    BY <1>1, <1>2, Induction
<1>4. \A n \in Nat : \A s \in RecordsUpTo(n) : ReadableOf(s) = Those(s, S)
  BY ReadableIs DEF RecordsUpTo
<1> QED
  BY <1>3, <1>4

LEMMA RisingIsATree ==
    ASSUME NEW n \in Nat, NEW r, Rising(r, n)
    PROVE  IsTree(r) /\ \A k \in DOMAIN r : r[k].id # 0
<1>1. r \in Seq(JournalRecord) /\ Len(r) \in Nat /\ DOMAIN r = 1..Len(r)
  BY LenProperties DEF Rising
<1>2. \A k \in 1..Len(r) : r[k] \in JournalRecord
  BY <1>1, ElementOfSeq
<1>3. \A k \in 1..Len(r) : r[k].id \in 1..n /\ r[k].parent \in Nat /\ r[k].parent < r[k].id
  BY <1>2 DEF Rising, JournalRecord
<1>4. \A j, k \in 1..Len(r) : j < k => r[j].id < r[k].id
  BY DEF Rising
<1>5. \A j, k \in 1..Len(r) : r[j].id = r[k].id => j = k
  <2> TAKE j, k \in 1..Len(r)
  <2>1. j < k \/ k < j \/ j = k
    BY <1>1
  <2> QED
    BY <1>3, <1>4, <2>1
<1>6. \A j, k \in 1..Len(r) : r[k].parent = r[j].id => j < k
  <2> TAKE j, k \in 1..Len(r)
  <2>1. j < k \/ k < j \/ j = k
    BY <1>1
  <2> QED
    BY <1>3, <1>4, <2>1
<1> QED
  BY <1>1, <1>3, <1>5, <1>6 DEF IsTree

LEMMA JournalsAre ==
    /\ \A records \in Journals : IsTree(records) /\ IsOmpJournal(records)
    /\ \A lines \in FirstVersion : IsOmpJournal(lines)
<1>1. ASSUME NEW records \in Journals PROVE IsTree(records) /\ IsOmpJournal(records)
  <2>1. PICK n \in 0..4 : records \in Trees[n]
    BY DEF Journals
  <2>2. n \in Nat /\ records \in RecordsUpTo(n)
    BY <2>1, TreesAre
  <2>3. IsTree(records) /\ Rising(ReadableOf(records), n)
    BY <2>2, RecordsAreATree, ReadableRises
  <2>4. IsTree(ReadableOf(records)) /\ \A k \in DOMAIN ReadableOf(records) : ReadableOf(records)[k].id # 0
    BY <2>2, <2>3, RisingIsATree
  <2> QED
    BY <2>3, <2>4 DEF IsTree, IsOmpJournal
<1>2. ASSUME NEW lines \in FirstVersion PROVE IsOmpJournal(lines)
  <2>1. lines \in Seq(Unnumbered)
    <3>1. PICK n \in 0..4 : lines \in [1..n -> Unnumbered]
      BY DEF FirstVersion
    <3> QED
      BY <3>1
  <2>2. \A r \in Unnumbered : r \in JournalRecord /\ r.id = 0
    BY DEF Unnumbered, JournalRecord
  <2>3. lines \in Seq(JournalRecord)
    BY <2>1, <2>2
  <2> DEFINE es == ReadableOf(lines)
  <2>4. es \in Seq(Unnumbered)
    BY <2>1, <2>3, ReadableIs, ThoseType
  <2> HIDE DEF es
  <2>5. es \in Seq(JournalRecord) /\ \A k \in DOMAIN es : es[k].id = 0
    <3>1. \A k \in DOMAIN es : es[k] \in Unnumbered
      BY <2>4, LenProperties, ElementOfSeq
    <3>2. es \in Seq(JournalRecord)
      BY <2>2, <2>4
    <3> QED
      BY <2>2, <3>1, <3>2
  <2>6. IsTree(es)
    BY <2>5 DEF IsTree
  <2> QED
    BY <2>3, <2>5, <2>6 DEF IsOmpJournal, es
<1> QED
  BY <1>1, <1>2

(* The readers agree on every journal that the run `readings' looks at.    *)
THEOREM JournalsReadWhole ==
    ViewSpec => []JournalsAreReadWhole
<1>1. RolloutPagesAreTheFile
  <2>1. ASSUME NEW file \in Files PROVE file \in Seq(Bytes)
    <3>1. PICK n \in 0..6 : file \in [1..n -> Bytes]
      BY DEF Files
    <3> QED
      BY <3>1
  <2>2. ChunkSizes \subseteq Nat \ {0} /\ Limits \subseteq Nat \ {0} /\ 1 \in Nat \ {0}
    BY DEF ChunkSizes, Limits
  <2> QED
    BY <2>1, <2>2, RolloutPagesAreTheFileAlways DEF RolloutPagesAreTheFile
<1>2. Limits \subseteq Nat \ {0}
  BY DEF Limits
<1>3. PiPagesAreTheBranch
  BY <1>2, JournalsAre, PiPagesAreTheBranchAlways DEF PiPagesAreTheBranch
<1>4. OmpPagesContinue
  <2> SUFFICES ASSUME NEW lines \in Journals \cup FirstVersion, NEW limit \in Limits, NEW n \in 0..Len(lines),
                      NEW leaf \in {NoLeaf} \cup {lines[k].id : k \in DOMAIN lines},
                      OmpPage(UpTo(lines, n), NoLeaf, 0, limit).more,
                      OmpPage(UpTo(lines, n), NoLeaf, 0, limit).before \in ToSet(IdsShown(lines, leaf))
               PROVE  OmpPages(lines, leaf, limit)[OmpPage(UpTo(lines, n), NoLeaf, 0, limit).before]
                        \o OmpPage(UpTo(lines, n), NoLeaf, 0, limit).messages
                      = IdsShown(UpTo(lines, n), NoLeaf)
    BY DEF OmpPagesContinue
  <2>1. IsOmpJournal(lines)
    BY JournalsAre
  <2>2. leaf \in Nat
    <3>1. lines \in Seq(JournalRecord)
      BY <2>1 DEF IsOmpJournal
    <3>2. \A k \in DOMAIN lines : lines[k].id \in Nat
      <4> TAKE k \in DOMAIN lines
      <4>1. lines[k] \in JournalRecord
        BY <3>1, LenProperties, ElementOfSeq
      <4> QED
        BY <4>1 DEF JournalRecord
    <3> QED
      BY <3>2 DEF NoLeaf
  <2> QED
    BY <1>2, <2>1, <2>2, OmpPagesContinueAlways
<1>5. ResultsJoinTheirCalls
  <2> SUFFICES ASSUME NEW branch \in Branches, NEW k \in DOMAIN branch, branch[k].kind = "call"
               PROVE  LET again == {i \in (k + 1)..Len(branch) : branch[i] = branch[k]}
                          own == {i \in (k + 1)..Len(branch) :
                                     branch[i].call = branch[k].call /\ \A j \in again : i < j}
                      IN ToolStatus(branch)[k] = IF own = {} THEN "incomplete" ELSE branch[WrittenLast(own)].kind
    BY DEF ResultsJoinTheirCalls
  <2>1. branch \in Branching({"call", "completed", "error"}, {"c", "d"})
    <3>1. PICK n \in 0..4 : branch \in [1..n -> Results]
      BY DEF Branches
    <3>2. branch \in Seq(Results)
      BY <3>1
    <3> QED
      BY <3>2 DEF Results, Branching
  <2> DEFINE Joins(b, j) ==
               LET again == {i \in (j + 1)..Len(b) : b[i] = b[j]}
                   own == {i \in (j + 1)..Len(b) : b[i].call = b[j].call /\ \A l \in again : i < l}
               IN ToolStatus(b)[j] = IF own = {} THEN "incomplete" ELSE b[WrittenLast(own)].kind
  <2>2. \A kinds, calls : \A b \in Branching(kinds, calls) : \A j \in DOMAIN b :
          b[j].kind = "call" => Joins(b, j)
    BY ResultsJoinTheirCallsAlways
  <2> SUFFICES Joins(branch, k)
    OBVIOUS
  <2> HIDE DEF Joins
  <2> QED
    BY <2>1, <2>2
<1>6. JournalsAreReadWhole
  BY <1>1, <1>3, <1>4, <1>5 DEF JournalsAreReadWhole
<1> QED
  BY <1>6, PTL
=============================================================================
