----------------------------- MODULE ManagedAgent -----------------------------
(***************************************************************************)
(* An agent that the daemon runs as an HTTP server of its own (OpenCode):  *)
(* ManagedOpenCodeHost starts and watches the process (opencode-host.js),  *)
(* the registry says whether it is available (machine-registry.js), the    *)
(* router makes it available to a request before the request is served     *)
(* (agent-router.js), and ManagedEventFanout shares one event stream of    *)
(* the agent between the app clients (managed-event-fanout.js).            *)
(***************************************************************************)
EXTENDS Naturals, FiniteSets

CONSTANTS Clients,   \* app clients that subscribe to the agent's events
          Directs,   \* calls of host.start() that do not look at the registry
          MaxProcs,  \* bound: the processes ever spawned; the last one starts and serves
          Linger     \* may start() be called while a process told to stop still runs?

Fanout == "fanout"
Callers == Clients \cup Directs \cup {Fanout}
Procs == 1..MaxProcs
Nobody == "nobody"
NoStream == [to |-> 0, open |-> FALSE]

ASSUME ManagedAgentAssumption ==
    /\ MaxProcs \in Nat \ {0}
    /\ Linger \in BOOLEAN
    /\ Clients \cap Directs = {}
    /\ {Fanout, Nobody} \cap (Clients \cup Directs) = {}

VARIABLES
    registry,    \* state of the host in the registry
    proc,        \* proc[p]: where process p is; "exited" has its exitCode set
    child,       \* this.child of the host, 0 for none
    watch,       \* watch[p]: whose exit listeners p has, "start" or "host"
    starter,     \* the caller whose #start is under way, or Nobody
    call,        \* call[c]: where a caller is
    clients,     \* the fan-out's clients
    everStarted, \* the fan-out had a subscriber
    upstream,    \* upstreamRequest, and whether it was answered
    streams,     \* upstream requests made and not destroyed
    timer,       \* reconnectTimer is set
    closed       \* the fan-out was closed

hostVars == <<registry, proc, child, watch, starter>>
fanoutVars == <<clients, everStarted, upstream, streams, timer>>
vars == <<hostVars, call, fanoutVars, closed>>

TypeOK ==
    /\ registry \in {"configured", "available", "unavailable"}
    /\ proc \in [Procs -> {"unborn", "booting", "healthy", "stopping", "exited"}]
    /\ child \in 0..MaxProcs
    /\ watch \in [Procs -> {"start", "host"}]
    /\ starter \in Callers \cup {Nobody}
    /\ call \in [Callers -> {"idle", "due", "starting", "subscribed"}]
    /\ clients \subseteq Clients
    /\ upstream \in [to : 0..MaxProcs, open : BOOLEAN]
    /\ streams \in Nat
    /\ {everStarted, timer, closed} \subseteq BOOLEAN

Init ==
    /\ registry = "configured"
    /\ proc = [p \in Procs |-> "unborn"]
    /\ child = 0
    /\ watch = [p \in Procs |-> "start"]
    /\ starter = Nobody
    /\ call = [c \in Callers |-> "idle"]
    /\ clients = {}
    /\ everStarted = FALSE
    /\ upstream = NoStream
    /\ streams = 0
    /\ timer = FALSE
    /\ closed = FALSE

Running(p) == p # 0 /\ proc[p] \in {"booting", "healthy", "stopping"}

Serves(p) == p # 0 /\ proc[p] = "healthy"

(* Where a call of #ensureUpstream leaves the fan-out, called with the     *)
(* stream, the timer and the clients of after the step.                    *)
EnsuredAnyway(at, stream, armed, started) ==
    IF closed \/ at # "idle" \/ armed \/ ~started THEN at ELSE "due"

Ensured(at, stream, armed, started) ==
    IF closed \/ at # "idle" \/ stream # NoStream \/ armed \/ ~started THEN at ELSE "due"

(***************************************************************************)
(* What a caller does once the agent was made available to it, or was not. *)
(* A client gets its stream or a 503; the fan-out asks for the stream or   *)
(* arms its timer; start() of a direct call returns or throws.             *)
(***************************************************************************)
Subscribes(c) ==
    /\ clients' = clients \cup {c}
    /\ everStarted' = TRUE
    /\ call' = [call EXCEPT ![c] = "subscribed",
                            ![Fanout] = Ensured(@, upstream, timer, TRUE)]
    /\ UNCHANGED <<upstream, streams, timer>>

Asks ==
    /\ upstream' = [to |-> child, open |-> FALSE]
    /\ streams' = streams + 1
    /\ call' = [call EXCEPT ![Fanout] = "idle"]
    /\ UNCHANGED <<clients, everStarted, timer>>

BacksOff ==
    /\ timer' = ~closed
    /\ call' = [call EXCEPT ![Fanout] = "idle"]
    /\ UNCHANGED <<clients, everStarted, upstream, streams>>

GivesUp ==
    /\ call' = [call EXCEPT ![Fanout] = "idle"]
    /\ UNCHANGED fanoutVars

Returns(c) ==
    /\ call' = [call EXCEPT ![c] = "idle"]
    /\ UNCHANGED fanoutVars

FanoutIsReady ==
    IF closed THEN GivesUp ELSE Asks

Ready(c) ==
    CASE c = Fanout -> FanoutIsReady
      [] c \in Clients /\ ~closed -> Subscribes(c)
      [] OTHER -> Returns(c)

NotReady(c) ==
    IF c = Fanout THEN BacksOff ELSE Returns(c)

(***************************************************************************)
(* start() of the host, under the wrapper that tells the registry. It      *)
(* returns at once while the child has no exitCode, so a second call does  *)
(* not wait for a start under way: `starting` is only looked at when there *)
(* is no such child, which is never while a start is under way.            *)
(***************************************************************************)
AlreadyStarted(c) ==
    /\ Running(child)
    /\ proc[child] = "stopping" => Linger
    /\ registry' = "available"
    /\ UNCHANGED <<proc, child, watch, starter>>
    /\ Ready(c)

Spawn(c) ==
    \E p \in Procs :
        /\ proc[p] = "unborn"
        /\ \A q \in 1..(p - 1) : proc[q] # "unborn"
        /\ proc' = [proc EXCEPT ![p] = "booting"]
        /\ child' = p
        /\ starter' = c
        /\ call' = [call EXCEPT ![c] = "starting"]
        /\ UNCHANGED <<registry, watch, fanoutVars>>

StartUnlessHealthy(c) ==
    AlreadyStarted(c) \/ (~Serves(child) /\ Spawn(c))

Start(c) ==
    \/ AlreadyStarted(c)
    \/ ~Running(child) /\ Spawn(c)

(* ensureManagedHttpAvailable; a direct call goes to start() at once. *)
Begin(c) ==
    /\ call[c] = IF c = Fanout THEN "due" ELSE "idle"
    /\ closed => c = Fanout
    /\ \/ /\ c \notin Directs
          /\ registry = "available"
          /\ UNCHANGED hostVars
          /\ Ready(c)
       \/ /\ c \in Directs \/ registry # "available"
          /\ Start(c)
    /\ UNCHANGED closed

(* The process answers the health check: its listeners are the host's now. *)
StartSucceeds ==
    /\ starter # Nobody
    /\ Serves(child)
    /\ watch' = [watch EXCEPT ![child] = "host"]
    /\ registry' = "available"
    /\ starter' = Nobody
    /\ UNCHANGED <<proc, child, closed>>
    /\ Ready(starter)

(* The start times out, or the process rejects the credentials: SIGTERM.   *)
(* The child is kept, with the listeners of the start that failed.         *)
StartTimesOut ==
    /\ starter # Nobody
    /\ proc[child] = "booting"
    /\ child < MaxProcs
    /\ proc' = [proc EXCEPT ![child] = "stopping"]
    /\ registry' = "unavailable"
    /\ starter' = Nobody
    /\ UNCHANGED <<child, watch, closed>>
    /\ NotReady(starter)

(* The exit event: it fails a start under way, or runs #handleExit; after  *)
(* a start that failed nobody listens.                                     *)
ExitEvent(p) ==
    /\ proc' = [proc EXCEPT ![p] = "exited"]
    /\ UNCHANGED <<watch, closed>>
    /\ CASE watch[p] = "host" ->
              /\ child' = 0
              /\ registry' = "unavailable"
              /\ UNCHANGED <<starter, call, fanoutVars>>
         [] watch[p] = "start" /\ starter # Nobody ->
              /\ registry' = "unavailable"
              /\ starter' = Nobody
              /\ UNCHANGED child
              /\ NotReady(starter)
         [] OTHER -> UNCHANGED <<registry, child, starter, call, fanoutVars>>

Crashes(p) == p < MaxProcs /\ proc[p] \in {"booting", "healthy"} /\ ExitEvent(p)

Stops(p) == proc[p] = "stopping" /\ ExitEvent(p)

Boots(p) ==
    /\ proc[p] = "booting"
    /\ proc' = [proc EXCEPT ![p] = "healthy"]
    /\ UNCHANGED <<registry, child, watch, starter, call, fanoutVars, closed>>

-----------------------------------------------------------------------------
(* The stream of the fan-out. *)

Accepted ==
    /\ upstream # NoStream
    /\ ~upstream.open
    /\ Serves(upstream.to)
    /\ upstream' = [upstream EXCEPT !.open = TRUE]
    /\ UNCHANGED <<hostVars, call, clients, everStarted, streams, timer, closed>>

(* #upstreamEnded: end, abort, error, or an answer other than 200. *)
UpstreamEnded ==
    /\ upstream # NoStream
    /\ upstream' = NoStream
    /\ streams' = streams - 1
    /\ timer' = TRUE
    /\ UNCHANGED <<hostVars, call, clients, everStarted, closed>>

(* The agent ends a stream, or refuses one with an HTTP error. *)
AgentEnds == (upstream.open \/ upstream.to < MaxProcs) /\ UpstreamEnded

AgentIsGone == ~Serves(upstream.to) /\ UpstreamEnded

TimerFires ==
    /\ timer
    /\ timer' = FALSE
    /\ call' = [call EXCEPT ![Fanout] = Ensured(@, upstream, FALSE, everStarted)]
    /\ UNCHANGED <<hostVars, clients, everStarted, upstream, streams, closed>>

(* A client goes away: the request is aborted, or the response closes. *)
Leaves(c) ==
    /\ call[c] = "subscribed"
    /\ clients' = clients \ {c}
    /\ call' = [call EXCEPT ![c] = "idle"]
    /\ UNCHANGED <<hostVars, everStarted, upstream, streams, timer, closed>>

Close ==
    /\ ~closed
    /\ closed' = TRUE
    /\ timer' = FALSE
    /\ upstream' = NoStream
    /\ streams' = IF upstream = NoStream THEN streams ELSE streams - 1
    /\ clients' = {}
    /\ call' = [c \in Callers |-> IF call[c] = "subscribed" THEN "idle" ELSE call[c]]
    /\ UNCHANGED <<hostVars, everStarted>>

Next ==
    \/ \E c \in Callers : Begin(c)
    \/ StartSucceeds
    \/ StartTimesOut
    \/ \E p \in Procs : Crashes(p) \/ Stops(p) \/ Boots(p)
    \/ Accepted
    \/ AgentEnds
    \/ AgentIsGone
    \/ TimerFires
    \/ \E c \in Clients : Leaves(c)
    \/ Close

Spec == Init /\ [][Next]_vars

-----------------------------------------------------------------------------
(* Two starts never leave two processes that listen on the one port: a     *)
(* process is spawned only when every earlier one has exited.              *)
OneAgentProcess ==
    \A p, q \in Procs : Running(p) /\ Running(q) => p = q

(* However clients come and go while starts fail, streams end and timers   *)
(* fire, the agent has one event listener of the daemon at most, which the *)
(* fan-out holds, and none once the fan-out was closed.                    *)
OneUpstream ==
    /\ streams = IF upstream = NoStream THEN 0 ELSE 1
    /\ closed => streams = 0 /\ ~timer

=============================================================================
