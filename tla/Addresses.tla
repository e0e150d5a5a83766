------------------------------ MODULE Addresses ------------------------------
(***************************************************************************)
(* The addresses one customer saves, and which of them is the default.     *)
(*                                                                         *)
(* Making a default is a transaction of two statements: one demotes the    *)
(* incumbents it finds, waiting for their locks, and one promotes.  A      *)
(* partial unique index rejects a second default, and the transaction with *)
(* it.                                                                     *)
(***************************************************************************)
EXTENDS FiniteSets, Integers, Requests

CONSTANTS
    AddressIds,
    MAX_ADDRESSES_PER_USER

VARIABLE addresses

vars == <<addresses, req, overlapped>>

-----------------------------------------------------------------------------
AddressStates == {"unused", "live", "deleted"}
Unused == [state |-> "unused", isDefault |-> FALSE]

Init ==
    /\ addresses = [a \in AddressIds |-> Unused]
    /\ NoRequests

Live == {a \in AddressIds : addresses[a].state = "live"}
Defaults == {a \in Live : addresses[a].isDefault}

\* Rows a transaction has demoted and not committed yet.
LockedByOthers(h) == UNION {req[g].demoted : g \in {i \in Handlers \ {h} : req[i].kind = "promote"}}

Start(h, r) == Begin(h, r) /\ UNCHANGED addresses

\* The first statement of the transaction: the rows it is to demote are the
\* defaults it sees when it starts, the promoted one aside if it exists.
Demote(a, promotion) ==
    [kind |-> "demote", address |-> a, found |-> Defaults \ {a}, promotion |-> promotion]

-----------------------------------------------------------------------------
(* Requests.                                                               *)

\* The count is read, then the address is resolved to a zone and saved.
CreateAddress(h, a, isDefault) ==
    /\ addresses[a] = Unused /\ \A g \in Handlers : req[g] # Idle => req[g].address # a
    /\ Cardinality(Live) < MAX_ADDRESSES_PER_USER
    /\ Start(h, [kind |-> "create", address |-> a, isDefault |-> isDefault \/ Live = {}])

InsertAddress(h) ==
    /\ req[h].kind = "create"
    /\ LET r == req[h]
       IN  IF r.isDefault
           THEN Continue(h, Demote(r.address, "insert")) /\ UNCHANGED addresses
           ELSE /\ addresses' = [addresses EXCEPT ![r.address].state = "live"]
                /\ Finish(h)

\* The new default, or a correction that asks for it of an address that was
\* not.  The correction itself is written first, and tells nothing here.
SetDefault(h, a) == a \in Live /\ Start(h, [kind |-> "default", address |-> a])

UpdateAddress(h, a) ==
    a \in Live \ Defaults /\ Start(h, [kind |-> "update", address |-> a])

WriteAddress(h) ==
    /\ req[h].kind = "update"
    /\ Continue(h, [req[h] EXCEPT !.kind = "default"])
    /\ UNCHANGED addresses

BeginPromotion(h) ==
    /\ req[h].kind = "default"
    /\ Continue(h, Demote(req[h].address, "update"))
    /\ UNCHANGED addresses

DeleteAddress(h, a) == a \in Live /\ Start(h, [kind |-> "delete", address |-> a])

Deleted == [state |-> "deleted", isDefault |-> FALSE]

SoftDelete(h) ==
    /\ req[h].kind = "delete"
    /\ req[h].address \notin LockedByOthers(h)
    /\ addresses' = [addresses EXCEPT ![req[h].address] = Deleted]
    /\ Finish(h)

-----------------------------------------------------------------------------
(* The transaction.                                                        *)

\* It waits for the rows it found, and demotes those that are defaults still.
LockIncumbents(h) ==
    /\ req[h].kind = "demote"
    /\ LET r == req[h]
       IN  /\ r.found \cap LockedByOthers(h) = {}
           /\ Continue(h, [kind |-> "promote", address |-> r.address,
                           demoted |-> r.found \cap Defaults, promotion |-> r.promotion])
    /\ UNCHANGED addresses

\* Faulty variant: no partial index.
AnyDefault(state, others) == TRUE

\* addresses_one_default_per_user ignores deleted rows.
OnlyDefault(state, others) == state = "live" => others = {}

\* The row is promoted, whatever it has become, or everything is rolled back.
Promote(h) ==
    /\ req[h].kind = "promote"
    /\ LET r == req[h]
           state == IF r.promotion = "insert" THEN "live" ELSE addresses[r.address].state
       IN  /\ r.address \notin LockedByOthers(h)
           /\ addresses' =
                IF OnlyDefault(state, (Defaults \ {r.address}) \ r.demoted)
                THEN [a \in AddressIds |->
                        IF a = r.address THEN [state |-> state, isDefault |-> TRUE]
                        ELSE IF a \in r.demoted THEN [addresses[a] EXCEPT !.isDefault = FALSE]
                        ELSE addresses[a]]
                ELSE addresses
    /\ Finish(h)

-----------------------------------------------------------------------------
Proceed(h) ==
    \/ InsertAddress(h) \/ WriteAddress(h) \/ BeginPromotion(h)
    \/ SoftDelete(h) \/ LockIncumbents(h) \/ Promote(h)

Request(h) ==
    \E a \in AddressIds :
        \/ SetDefault(h, a) \/ UpdateAddress(h, a) \/ DeleteAddress(h, a)
        \/ \E isDefault \in BOOLEAN : CreateAddress(h, a, isDefault)

Next ==
    \/ \E h \in Handlers : Proceed(h) \/ Request(h)
    \/ Restart /\ UNCHANGED addresses

Spec == Init /\ [][Next]_vars

-----------------------------------------------------------------------------
(* Properties.                                                             *)

AtMostOne ==
    /\ Cardinality(Defaults) <= 1
    /\ \A a \in AddressIds : addresses[a].isDefault /\ ~ overlapped => a \in Live

KeptWithItsAddress == \A a \in Defaults : Defaults' = {} => a \notin Live' \/ overlapped'

\* "At most one default address per user", however the requests that move it
\* overlap; and the one the checkout preselects is lost with its own address
\* only: a promotion that fails leaves the incumbent where it was.
OneDefault == []AtMostOne /\ [][KeptWithItsAddress]_vars

-----------------------------------------------------------------------------
(* Claims that do not hold.                                                *)

\* "You can save at most ... addresses": two requests count together.
WithinMaximum == Cardinality(Live) <= MAX_ADDRESSES_PER_USER

\* OneDefault of requests that overlap: an address deleted before its
\* promotion commits takes the incumbent's place, and nothing is preselected.
DefaultStays == [][\A a \in Defaults : Defaults' = {} => a \notin Live']_vars

\* "Leaving the flag set would make the next default look like a conflict".
DeletedIsNoDefault ==
    \A a \in AddressIds : addresses[a].isDefault => a \in Live
=============================================================================
