----------------------------- MODULE MCDispatch -----------------------------
(* Small instances of dispatch. *)
EXTENDS DispatchProperties, TLC

CONSTANTS r1, r2, h1, h2

Two == Permutations({h1, h2})

\* Requests and listeners race over riders who stay on shift; the sweep,
\* whose offers are those of a dispatcher, rests.  Orders after the first
\* only compete for the riders, and staff stand for the restaurant, whose
\* moves they may all make.
RequestsRace ==
    /\ sweep = Resting
    /\ \A r \in Riders : drivers[r].availability \in {"ONLINE", "ON_DELIVERY"}
    /\ \A t \in Tasks :
        /\ req[t].kind \notin {"switch", "status"}
        /\ req[t].kind = "move" => req[t].order = 1 /\ req[t].as # "RESTAURANT"
=============================================================================
