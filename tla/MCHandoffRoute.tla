----------------------------- MODULE MCHandoffRoute -----------------------------
(* Model checking of HandoffRoute. *)
EXTENDS HandoffRoute, TLC

CONSTANTS here, there

Budget(k, d, f, r, l, o) ==
    [kills |-> k, deaths |-> d, failures |-> f, renames |-> r, looks |-> l, others |-> o]

(* Three failures; two beside a death of the daemon; one beside a kill of  *)
(* the app and a death, a rename of the source, a look at the links, or    *)
(* another Session; a death beside a look.                                 *)
MCBudgets == {Budget(0, 0, 3, 0, 0, 0), Budget(0, 1, 2, 0, 0, 0), Budget(0, 0, 1, 0, 0, 1),
              Budget(1, 1, 1, 0, 0, 0), Budget(0, 0, 1, 1, 0, 0), Budget(0, 0, 1, 0, 1, 0),
              Budget(0, 1, 0, 0, 1, 0)}

=============================================================================
