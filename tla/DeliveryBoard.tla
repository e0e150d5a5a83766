--------------------------- MODULE DeliveryBoard ---------------------------
(***************************************************************************)
(* What dispatch promises: an order is carried by at most one rider, whom  *)
(* it names, and a rider carries at most one order; an open order handed   *)
(* back is free for the next rider; a run that arrived counts once.        *)
(***************************************************************************)
EXTENDS Integers

CONSTANTS Orders, Riders, Nobody

VARIABLES
    carrier,    \* carrier[o]: the rider who has accepted order o
    named,      \* named[o]: the rider the order shows
    closed,     \* orders that have ended, well or badly
    arrived,    \* orders that have reached their customer
    done        \* done[r]: deliveries rider r has finished

vars == <<carrier, named, closed, arrived, done>>

Init ==
    /\ carrier = [o \in Orders |-> Nobody]
    /\ named = [o \in Orders |-> Nobody]
    /\ closed = {}
    /\ arrived = {}
    /\ done = [r \in Riders |-> 0]

Take(o, r) ==
    /\ carrier[o] = Nobody
    /\ \A p \in Orders : carrier[p] # r
    /\ carrier' = [carrier EXCEPT ![o] = r]
    /\ named' = [named EXCEPT ![o] = r]
    /\ UNCHANGED <<closed, arrived, done>>

\* A closed order may keep its rider's name: it is history.
HandBack(o) ==
    /\ carrier[o] # Nobody
    /\ carrier' = [carrier EXCEPT ![o] = Nobody]
    /\ \/ named' = [named EXCEPT ![o] = Nobody]
       \/ o \in closed /\ UNCHANGED named
    /\ UNCHANGED <<closed, arrived, done>>

\* Withdrawing what is left of a closed order takes its rider's name with it.
Forget(o) ==
    /\ o \in closed /\ carrier[o] = Nobody
    /\ named' = [named EXCEPT ![o] = Nobody]
    /\ UNCHANGED <<carrier, closed, arrived, done>>

Close(o) ==
    /\ closed' = closed \cup {o}
    /\ arrived' \in {arrived, arrived \cup {o}}
    /\ UNCHANGED <<carrier, named, done>>

Complete(o) ==
    /\ carrier[o] # Nobody
    /\ o \in arrived
    /\ carrier' = [carrier EXCEPT ![o] = Nobody]
    /\ done' = [done EXCEPT ![carrier[o]] = @ + 1]
    /\ UNCHANGED <<named, closed, arrived>>

Next ==
    \E o \in Orders :
        \/ \E r \in Riders : Take(o, r)
        \/ HandBack(o) \/ Forget(o) \/ Close(o) \/ Complete(o)

Spec == Init /\ [][Next]_vars
=============================================================================
