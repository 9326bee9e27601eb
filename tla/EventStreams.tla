----------------------------- MODULE EventStreams -----------------------------
(***************************************************************************)
(* The event subscription of an app, of the desktop shell                  *)
(* (electron/event-transport.ts) or of the page (opencode-events.ts), on   *)
(* the stream that the daemon fans out (ManagedAgent): connections, aborts,*)
(* stalls, reconnect timers and a change of the profile.                   *)
(***************************************************************************)
EXTENDS ManagedAgent

CONSTANTS NoConn,
          MaxRestarts \* bound: changes of the profile of a desktop subscription

ASSUME EventStreamsAssumption ==
    /\ NoConn \notin Clients
    /\ MaxRestarts \in Nat

(* A client of the router is a connection of the subscription. *)
Conns == Clients

VARIABLES
    desktop,  \* the desktop shell owns the subscription; else the page does
    conn,     \* conn[k]: "none", "fetching", "asked" (at the router), "open", "ending"
    current,  \* the connection whose AbortController the subscription holds
    rtimer,   \* reconnectTimer
    ctimer,   \* connectTimer of the desktop shell
    done,     \* the subscription was closed
    restarts  \* changes of the profile so far

subscription == <<desktop, conn, current, rtimer, ctimer, done, restarts>>
allVars == <<vars, subscription>>

StreamsTypeOK ==
    /\ TypeOK
    /\ {desktop, rtimer, ctimer, done} \subseteq BOOLEAN
    /\ conn \in [Conns -> {"none", "fetching", "asked", "open", "ending"}]
    /\ current \in Conns \cup {NoConn}
    /\ restarts \in 0..MaxRestarts

StreamsInit ==
    /\ Init
    /\ desktop \in BOOLEAN
    /\ conn = [k \in Conns |-> "none"]
    /\ current = NoConn
    /\ rtimer = ~desktop
    /\ ctimer = desktop
    /\ done = FALSE
    /\ restarts = 0

(* connect() of the timer that fired: the fetch is sent.                   *)
Connect(k) ==
    /\ conn[k] = "none"
    /\ call[k] = "idle"
    /\ conn' = [conn EXCEPT ![k] = "fetching"]
    /\ current' = k
    /\ UNCHANGED <<vars, desktop, done, restarts>>

ReconnectFires(k) == rtimer /\ rtimer' = FALSE /\ UNCHANGED ctimer /\ Connect(k)

ConnectFires(k) == ctimer /\ ctimer' = FALSE /\ UNCHANGED rtimer /\ Connect(k)

Moves(k, to) ==
    /\ conn' = [conn EXCEPT ![k] = to]
    /\ UNCHANGED <<desktop, current, rtimer, ctimer, done, restarts>>

Arrives(k) == conn[k] = "fetching" /\ Begin(k) /\ Moves(k, "asked")

Opens(k) ==
    /\ conn[k] = "asked"
    /\ call[k] = "subscribed"
    /\ Moves(k, "open")
    /\ UNCHANGED vars

(* A 503, a network error, or the end of the stream.                       *)
Refused(k) == conn[k] = "asked" /\ call[k] = "idle" /\ Moves(k, "ending") /\ UNCHANGED vars

Breaks(k) ==
    /\ conn[k] \in {"fetching", "asked", "open"}
    /\ ~closed
    /\ Moves(k, "ending")
    /\ UNCHANGED vars

(* The fan-out was closed under an open stream. *)
Dropped(k) == conn[k] = "open" /\ call[k] = "idle" /\ Moves(k, "ending") /\ UNCHANGED vars

(* The watchdog of a stream that brought nothing for long, not even the    *)
(* daemon's ping: it aborts the stream, whose end sees to the rest.        *)
Stalls(k) ==
    /\ conn[k] = "open"
    /\ conn' = [conn EXCEPT ![k] = "ending"]
    /\ UNCHANGED <<vars, desktop, current, rtimer, ctimer, done, restarts>>

(* A read by a connection that is not the subscription's any more: what it *)
(* brought is forwarded, and its loop ends.                                *)
Displaced(k) ==
    /\ conn[k] = "open"
    /\ current # k
    /\ Moves(k, "ending")
    /\ UNCHANGED vars

EndsForGood(k) ==
    /\ conn[k] = "ending"
    /\ conn' = [conn EXCEPT ![k] = "none"]
    /\ current' = IF current = k THEN NoConn ELSE current
    /\ UNCHANGED <<vars, desktop, rtimer, ctimer, done, restarts>>

(* The end of connect().  The page's subscription reconnects only if the   *)
(* connection is still its own; the desktop's always does, unless a timer  *)
(* is set: a connection that restart() aborted brings about one more.      *)
Ends(k) ==
    /\ conn[k] = "ending"
    /\ conn' = [conn EXCEPT ![k] = "none"]
    /\ current' = IF desktop /\ current = k THEN NoConn ELSE current
    /\ rtimer' = (rtimer \/ (~done /\ (desktop \/ current = k)))
    /\ UNCHANGED <<vars, desktop, ctimer, done, restarts>>

AbortCurrent ==
    /\ conn' = [k \in Conns |-> IF k = current /\ conn[k] # "none" THEN "ending" ELSE conn[k]]
    /\ current' = NoConn
    /\ UNCHANGED <<vars, desktop>>

Restart ==
    /\ desktop
    /\ ~done
    /\ restarts < MaxRestarts
    /\ restarts' = restarts + 1
    /\ ctimer' = TRUE
    /\ rtimer' = FALSE
    /\ AbortCurrent
    /\ UNCHANGED done

Unsubscribe ==
    /\ ~done
    /\ done' = TRUE
    /\ ctimer' = FALSE
    /\ rtimer' = FALSE
    /\ AbortCurrent
    /\ UNCHANGED restarts

(* The daemon learns that a connection is gone. *)
Noticed(k) == conn[k] \in {"none", "ending"} /\ Leaves(k) /\ UNCHANGED subscription

DaemonStep ==
    /\ \/ \E c \in Directs \cup {Fanout} : Begin(c)
       \/ StartSucceeds
       \/ StartTimesOut
       \/ \E p \in Procs : Crashes(p) \/ Stops(p) \/ Boots(p)
       \/ Accepted
       \/ AgentEnds
       \/ AgentIsGone
       \/ TimerFires
       \/ Close
    /\ UNCHANGED subscription

StreamsNext ==
    \/ DaemonStep
    \/ \E k \in Conns :
          \/ ReconnectFires(k) \/ ConnectFires(k)
          \/ Arrives(k) \/ Opens(k) \/ Refused(k) \/ Breaks(k) \/ Dropped(k)
          \/ Stalls(k) \/ Displaced(k) \/ Ends(k) \/ Noticed(k)
    \/ Restart
    \/ Unsubscribe

StreamsSpec == StreamsInit /\ [][StreamsNext]_allVars

(* The daemon's fairness; the app's timers fire, its requests arrive and   *)
(* are answered, and connections that break are seen to end.               *)
StreamsFairness ==
    /\ WF_allVars(Begin(Fanout) /\ UNCHANGED subscription)
    /\ WF_allVars(StartSucceeds /\ UNCHANGED subscription)
    /\ \A p \in Procs : WF_allVars((Stops(p) \/ Boots(p)) /\ UNCHANGED subscription)
    /\ SF_allVars(Accepted /\ UNCHANGED subscription)
    /\ WF_allVars(AgentIsGone /\ UNCHANGED subscription)
    /\ WF_allVars(TimerFires /\ UNCHANGED subscription)
    /\ WF_allVars(\E k \in Conns : ReconnectFires(k))
    /\ WF_allVars(\E k \in Conns : ConnectFires(k))
    /\ \A k \in Conns :
          /\ SF_allVars(Arrives(k)) /\ SF_allVars(Opens(k))
          /\ WF_allVars(Refused(k) \/ Dropped(k) \/ Displaced(k) \/ Ends(k))
          /\ WF_allVars(Noticed(k))

StreamsFairSpec == StreamsSpec /\ StreamsFairness

-----------------------------------------------------------------------------
(* However clients come and go while starts fail, streams end and timers   *)
(* fire, the fan-out holds one upstream at most; and a subscription whose  *)
(* profile does not change has one connection at a time, whatever stalls,  *)
(* breaks and reconnects, and its timer waits only while it has none: each *)
(* event reaches the app once.                                             *)
OneListener ==
    /\ OneUpstream
    /\ restarts = 0 => /\ Cardinality({k \in Conns : conn[k] # "none"}) <= 1
                       /\ rtimer => \A k \in Conns : conn[k] = "none"

(* A subscription that is not closed comes to have a stream, and the       *)
(* fan-out behind it its own, again after every crash of the agent, broken *)
(* connection and change of the profile: agents that obey SIGTERM assumed. *)
SubscriptionIsServed ==
    /\ []<>(done \/ closed \/ \E k \in Conns : conn[k] = "open")
    /\ []<>(done \/ closed \/ upstream.open)

=============================================================================
