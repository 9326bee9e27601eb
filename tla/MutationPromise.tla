--------------------------- MODULE MutationPromise ---------------------------
(***************************************************************************)
(* What the daemon promises about native Session mutations, with no        *)
(* ledger, file, handler or retry in sight: while an operation is          *)
(* remembered the agents' services take it at most once and carry it out   *)
(* at most once, with one body; "accepted" is said only of what was taken  *)
(* (a handoff may also be answered with a Session that was found rather    *)
(* than made), and every answer for one operation names the same target.   *)
(* That what was taken is carried out is not promised.                     *)
(***************************************************************************)
EXTENDS Naturals

CONSTANTS Ops, Handoffs, Requests, Identity, Sessions, NoSession

VARIABLES
    applied,   \* how often the agents carried out each request
    taken,     \* the requests that an agent's service took
    acks,      \* the "accepted" answers
    forgotten  \* the operations the daemon no longer remembers

vars == <<applied, taken, acks, forgotten>>

Init ==
    /\ applied = [r \in Requests |-> 0]
    /\ taken = {}
    /\ acks = {}
    /\ forgotten = {}

(* An agent carries out one request, whether or not it says so; if the     *)
(* operation is remembered, it is the first time.                          *)
Perform(r) ==
    /\ Identity[r] \notin forgotten =>
          \A q \in Requests : Identity[q] = Identity[r] => applied[q] = 0
    /\ applied' = [applied EXCEPT ![r] = @ + 1]
    /\ taken' \in {taken, taken \cup {r}}
    /\ UNCHANGED <<acks, forgotten>>

(* An agent's service takes one request, to carry it out or drop it later; *)
(* if the operation is remembered, nothing of it was taken or done before. *)
Take(r) ==
    /\ Identity[r] \notin forgotten =>
          \A q \in Requests : Identity[q] = Identity[r] => q \notin taken /\ applied[q] = 0
    /\ taken' = taken \cup {r}
    /\ UNCHANGED <<applied, acks, forgotten>>

(* A client is told that its request succeeded. *)
Acknowledge(r, target) ==
    /\ Identity[r] \in Handoffs \/ r \in taken
    /\ Identity[r] \notin forgotten =>
          \A a \in acks : Identity[a.req] = Identity[r] => a.target = target
    /\ acks' = acks \cup {[req |-> r, target |-> target]}
    /\ UNCHANGED <<applied, taken, forgotten>>

(* The daemon gives up the records of some operations. *)
Forget ==
    /\ \E F \in SUBSET Ops : forgotten' = forgotten \cup F
    /\ UNCHANGED <<applied, taken, acks>>

Next ==
    \/ \E r \in Requests : Perform(r) \/ Take(r)
    \/ \E r \in Requests, target \in Sessions \cup {NoSession} : Acknowledge(r, target)
    \/ Forget

Spec == Init /\ [][Next]_vars

=============================================================================
