------------------------------ MODULE Requests ------------------------------
(***************************************************************************)
(* Requests under way in the process.  A request is a handler with a       *)
(* record of what it has read so far: nothing ties its statements together *)
(* but what it carries from one to the next.                               *)
(***************************************************************************)
CONSTANT Handlers

VARIABLES
    req,
    overlapped      \* history: two requests were once under way together

Idle == [kind |-> "idle"]

NoRequests ==
    /\ req = [h \in Handlers |-> Idle]
    /\ overlapped = FALSE

Begin(h, r) ==
    /\ req[h] = Idle
    /\ req' = [req EXCEPT ![h] = r]
    /\ overlapped' = (overlapped \/ \E g \in Handlers : req[g] # Idle)

Continue(h, r) == req' = [req EXCEPT ![h] = r] /\ UNCHANGED overlapped

Finish(h) == Continue(h, Idle)

\* The process dies and is restarted; no request survives it.
Restart ==
    /\ \E h \in Handlers : req[h] # Idle
    /\ req' = [h \in Handlers |-> Idle]
    /\ UNCHANGED overlapped
=============================================================================
