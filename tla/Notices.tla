------------------------------ MODULE Notices ------------------------------
(***************************************************************************)
(* Order updates on their way to people: the inbox, and the pushes to the  *)
(* tokens Firebase gave one shared phone.                                  *)
(*                                                                         *)
(* A role stands for the user who has it.  Sending is best effort: what an *)
(* order event owes to whom is in memory only.  Quiet hours and the other  *)
(* categories are left out: order updates are always deliverable.          *)
(***************************************************************************)
EXTENDS FiniteSets, Integers, Requests

CONSTANTS
    NULL, UNUSED,
    Recipients,         \* of the customer, the restaurant's owner and the rider
    Tokens,             \* that the phone is given, one after the other
    Anonymous,          \* those an app registers without a device id
    maxPushFailures,
    LastEvent, LastNotice

VARIABLES
    preferences,        \* the channels each user allows
    devices,            \* rows of tokens
    inbox,
    owed,               \* what listeners have still to send
    events,             \* a counter of order events
    dead,               \* tokens Firebase will never take a message for
    failed, inARow      \* history: sends to a token that failed; since a success
                        \* was recorded (both up to the limit)

notices == <<preferences, devices, inbox, owed, events, dead, failed, inARow>>
vars == <<notices, req, overlapped>>

-----------------------------------------------------------------------------
\* Who hears of an order that is placed or becomes ... .
MessagesFor(status) ==
    CASE status = "PLACED" -> {"CUSTOMER", "RESTAURANT"}
      [] status \in {"CONFIRMED", "READY_FOR_PICKUP", "ON_THE_WAY", "DELIVERED", "REJECTED"} ->
            {"CUSTOMER"}
      [] status \in {"CANCELLED", "FAILED"} -> {"CUSTOMER", "RESTAURANT", "RIDER"}
      [] status \in {"ACCEPTED", "PREPARING", "PICKED_UP"} -> {}

Statuses == {"PLACED", "CONFIRMED", "PREPARING", "CANCELLED"}

DEFAULT_CHANNELS == {"IN_APP", "PUSH"}

Init ==
    /\ preferences = [u \in Recipients |-> DEFAULT_CHANNELS]
    /\ devices = [t \in Tokens |-> NULL]
    /\ inbox = [n \in 1 .. LastNotice |-> UNUSED]
    /\ owed = {}
    /\ events = 0
    /\ dead = {}
    /\ failed = [t \in Tokens |-> 0]
    /\ inARow = [t \in Tokens |-> 0]
    /\ NoRequests

Rows == {t \in Tokens : devices[t] # NULL}

ActiveOf(u) == {t \in Rows : devices[t].user = u /\ devices[t].isActive}

\* Those of a known installation, which a refreshed token replaces.
Installed(u) == ActiveOf(u) \ Anonymous

Unread(u) == {n \in DOMAIN inbox : inbox[n] = [user |-> u, isRead |-> FALSE]}
ReadBy(u) == {n \in DOMAIN inbox : inbox[n] = [user |-> u, isRead |-> TRUE]}

Deactivated(ts) ==
    [t \in Tokens |-> IF t \in ts THEN [devices[t] EXCEPT !.isActive = FALSE] ELSE devices[t]]

\* Rows that no registration under way has written.
Free(ts) ==
    \A h \in Handlers : req[h].kind = "register" => req[h].replaced \cap ts = {}

OneMore(n) == IF n < maxPushFailures THEN n + 1 ELSE n

-----------------------------------------------------------------------------
(* Requests of one statement.                                              *)

SetPreference(u, channels) ==
    /\ preferences' = [preferences EXCEPT ![u] = channels]
    /\ UNCHANGED <<devices, inbox>>

UnregisterDevices(u, ts) ==
    /\ Free(ts \cap ActiveOf(u))
    /\ devices' = Deactivated(ts \cap ActiveOf(u))
    /\ UNCHANGED <<preferences, inbox>>

MarkRead(u, ns) ==
    /\ inbox' = [n \in DOMAIN inbox |->
                    IF n \in ns \cap Unread(u) THEN [inbox[n] EXCEPT !.isRead = TRUE] ELSE inbox[n]]
    /\ UNCHANGED <<preferences, devices>>

\* One of them, or all that were read.
DeleteNotices(u, ns) ==
    /\ inbox' = [n \in DOMAIN inbox |-> IF n \in ns THEN NULL ELSE inbox[n]]
    /\ UNCHANGED <<preferences, devices>>

Statement ==
    /\ \E u \in Recipients :
        \/ \E channels \in SUBSET DEFAULT_CHANNELS : SetPreference(u, channels)
        \/ \E ts \in {{t} : t \in Tokens} \cup {Tokens} : UnregisterDevices(u, ts)
        \/ \E ns \in {{n} : n \in Unread(u)} \cup {Unread(u)} : MarkRead(u, ns)
        \/ \E ns \in {{n} : n \in Unread(u) \cup ReadBy(u)} \cup {ReadBy(u)} : DeleteNotices(u, ns)
    /\ <<preferences, devices, inbox>>' # <<preferences, devices, inbox>>
    /\ overlapped' = (overlapped \/ \E h \in Handlers : req[h] # Idle)
    /\ UNCHANGED <<owed, events, dead, failed, inARow, req>>

-----------------------------------------------------------------------------
(* Registering the phone: one transaction of two statements.               *)

\* "A refreshed token on a known installation replaces its predecessor"; without
\* a device id nothing is replaced, nor has it one that could be.
RegisterDevice(h, u, t) ==
    LET replaced == IF t \in Anonymous THEN {} ELSE Installed(u) \ {t}
    IN  /\ t \notin dead /\ Free(replaced)
        /\ Begin(h, [kind |-> "register", user |-> u, token |-> t, replaced |-> replaced])
        /\ UNCHANGED notices

\* Faulty variant: the predecessor is left active.
KeepPredecessors(r) == devices

Replace(r) == Deactivated(r.replaced)

\* The row of a token moves to whoever holds the phone now.
CommitRegister(h) ==
    /\ req[h].kind = "register"
    /\ Free({req[h].token})
    /\ LET r == req[h]
       IN  /\ devices' = [Replace(r) EXCEPT ![r.token] =
                            [user |-> r.user, isActive |-> TRUE, failureCount |-> 0]]
           /\ inARow' = [inARow EXCEPT ![r.token] = 0]
    /\ Finish(h)
    /\ UNCHANGED <<preferences, inbox, owed, events, dead, failed>>

\* Two registrations that wait for each other's row: the database ends one.
DeadlockFound(h) ==
    /\ req[h].kind = "register"
    /\ \E g \in Handlers :
        /\ req[g].kind = "register"
        /\ req[h].token \in req[g].replaced /\ req[g].token \in req[h].replaced
    /\ Finish(h)
    /\ UNCHANGED notices

-----------------------------------------------------------------------------
(* Telling a user.                                                         *)

OrderEvent(status) ==
    /\ events < LastEvent
    /\ events' = events + 1
    /\ owed' = owed \cup {[user |-> u, event |-> events'] : u \in MessagesFor(status) \cap Recipients}
    /\ UNCHANGED <<preferences, devices, inbox, dead, failed, inARow, req, overlapped>>

\* Every message asks for both channels: leaving the push out asks for the default.
Notify(h, m) ==
    /\ m \in owed
    /\ owed' = owed \ {m}
    /\ Begin(h, [kind |-> "notify", user |-> m.user, channels |-> preferences[m.user]])
    /\ UNCHANGED <<preferences, devices, inbox, events, dead, failed, inARow>>

\* "The in-app row is written first and is the record that matters."
WriteNotice(h) ==
    /\ req[h].kind = "notify"
    /\ \/ /\ "IN_APP" \in req[h].channels
          /\ \E n \in DOMAIN inbox :
                /\ inbox[n] = UNUSED /\ \A k \in 1 .. n - 1 : inbox[k] # UNUSED
                /\ inbox' = [inbox EXCEPT ![n] = [user |-> req[h].user, isRead |-> FALSE]]
       \/ /\ "IN_APP" \notin req[h].channels
          /\ UNCHANGED inbox
    /\ Continue(h, IF "PUSH" \in req[h].channels THEN [req[h] EXCEPT !.kind = "devices"] ELSE Idle)
    /\ UNCHANGED <<preferences, devices, owed, events, dead, failed, inARow>>

FindDevices(h) ==
    /\ req[h].kind = "devices"
    /\ Continue(h, IF ActiveOf(req[h].user) = {} THEN Idle
                   ELSE [kind |-> "push", user |-> req[h].user, left |-> ActiveOf(req[h].user),
                         delivered |-> {}, refused |-> {}, gone |-> {}])
    /\ UNCHANGED notices

\* Firebase takes the message, fails, or answers that the token "will never work
\* again", which it also does when the message is to blame (INVALID_ARGUMENT); so
\* does the network fail, "which says nothing about the token, only about the
\* moment".
Push(h, t, outcome) ==
    /\ req[h].kind = "push" /\ t \in req[h].left
    /\ t \in dead => outcome # "delivered"
    /\ Continue(h, [req[h] EXCEPT !.left = @ \ {t}, ![outcome] = @ \cup {t}])
    /\ failed' = IF outcome = "refused" THEN [failed EXCEPT ![t] = OneMore(@)] ELSE failed
    /\ inARow' = IF outcome = "refused" THEN [inARow EXCEPT ![t] = OneMore(@)] ELSE inARow
    /\ UNCHANGED <<preferences, devices, inbox, owed, events, dead>>

\* Faulty variant: strikes are never forgotten.
StrikesStay(t) == devices

\* "The failure count is consecutive, so a success clears it."
RecordSuccess(t) == [devices EXCEPT ![t].failureCount = 0]

\* Keeps the device list honest after a send, a token at a time, in any order.
\* A strike is counted first, and the count acted upon later.
Reconcile(h, t) ==
    /\ req[h].kind = "push" /\ req[h].left = {}
    /\ Free({t})
    /\ LET r == req[h]
           rest == [r EXCEPT !.delivered = @ \ {t}, !.refused = @ \ {t}, !.gone = @ \ {t}]
           over == rest.delivered \cup rest.refused \cup rest.gone = {}
           count == devices[t].failureCount + 1
       IN  \/ /\ t \in r.delivered
              /\ devices' = RecordSuccess(t)
              /\ inARow' = [inARow EXCEPT ![t] = 0]
              /\ Continue(h, IF over THEN Idle ELSE rest)
           \/ /\ t \in r.gone
              /\ devices' = Deactivated({t})
              /\ Continue(h, IF over THEN Idle ELSE rest)
              /\ UNCHANGED inARow
           \/ /\ t \in r.refused
              /\ devices' = [devices EXCEPT ![t].failureCount = count]
              /\ Continue(h, IF count >= maxPushFailures
                             THEN [kind |-> "retire", token |-> t, next |-> IF over THEN Idle ELSE rest]
                             ELSE IF over THEN Idle ELSE rest)
              /\ UNCHANGED inARow
    /\ UNCHANGED <<preferences, inbox, owed, events, dead, failed>>

RetireToken(h) ==
    /\ req[h].kind = "retire"
    /\ Free({req[h].token})
    /\ devices' = Deactivated({req[h].token})
    /\ Continue(h, req[h].next)
    /\ UNCHANGED <<preferences, inbox, owed, events, dead, failed, inARow>>

\* Firebase rotates the token, or the app is uninstalled.
TokenDies(t) ==
    /\ t \in Rows \ dead
    /\ dead' = dead \cup {t}
    /\ UNCHANGED <<preferences, devices, inbox, owed, events, failed, inARow, req, overlapped>>

-----------------------------------------------------------------------------
Proceed(h) ==
    \/ CommitRegister(h) \/ DeadlockFound(h) \/ WriteNotice(h) \/ FindDevices(h) \/ RetireToken(h)
    \/ \E t \in Tokens :
        \/ Reconcile(h, t)
        \/ \E outcome \in {"delivered", "refused", "gone"} : Push(h, t, outcome)

Request(h) ==
    \/ \E u \in Recipients, t \in Tokens : RegisterDevice(h, u, t)
    \/ \E m \in owed : Notify(h, m)

Next ==
    \/ Statement
    \/ \E h \in Handlers : Proceed(h) \/ Request(h)
    \/ \E status \in Statuses : OrderEvent(status)
    \/ \E t \in Tokens : TokenDies(t)
    \/ /\ Restart
       /\ owed' = {}
       /\ UNCHANGED <<preferences, devices, inbox, events, dead, failed, inARow>>

Spec == Init /\ [][Next]_vars

-----------------------------------------------------------------------------
(* Properties.                                                             *)

Pushing(h, t) ==
    /\ req[h].kind = "push" /\ t \in req[h].left
    /\ req'[h].kind = "push" /\ t \in req'[h].delivered

\* Firebase said it of a message that is being answered for.
SaidGone(t) == \E h \in Handlers : req[h].kind = "push" /\ t \in req[h].gone

Retiring(t) ==
    /\ t \in Rows /\ devices[t].isActive /\ ~ devices'[t].isActive
    /\ \E h \in Handlers : req[h].kind \in {"push", "retire"} /\ req'[h] # req[h]

OneTokenEach == ~ overlapped => \A u \in Recipients : Cardinality(Installed(u)) <= 1

SendsAndGivesUp ==
    /\ \A t \in Tokens : Retiring(t) =>
        \/ SaidGone(t)
        \/ failed[t] >= maxPushFailures /\ (overlapped' \/ inARow[t] >= maxPushFailures)
    /\ \A h \in Handlers, t \in Tokens : Pushing(h, t) =>
        overlapped' \/ t \in ActiveOf(req[h].user)

\* The platform gives up on a token only if Firebase said it is gone, or after as
\* many failures, however its sends, registrations and sign-outs overlap.  One at
\* a time, even if the process dies in between: no success was recorded between
\* those failures, "the previous owner stops receiving that phone's
\* notifications", and a refreshed token of a known installation leaves no "dead
\* row behind" that is still sent to.
PushReachesItsUser == []OneTokenEach /\ [][SendsAndGivesUp]_vars

-----------------------------------------------------------------------------
(* Claims that do not hold.                                                *)

\* "A token that has failed this many times in a row": the strike that reaches
\* the limit and the success that clears it may be written in either order, and
\* the second statement retires whatever the token has become.
RetiredInARow ==
    [][\A t \in Tokens : Retiring(t) => SaidGone(t) \/ inARow[t] >= maxPushFailures]_vars

\* "The token will never work again": a message Firebase finds invalid retires
\* the token it was sent to, and a token registered afresh while the answer was
\* under way goes with it.
RetiredAreDead ==
    [][\A t \in Tokens : Retiring(t) => t \in dead \/ failed[t] >= maxPushFailures]_vars

\* "Every Firebase token rotation leaves a dead row behind" without this: it is
\* left behind still for an app that sends no device id.
OneRowEach == \A u \in Recipients : Cardinality(ActiveOf(u)) <= 1

\* A cancellation is told to everyone "except whoever did it".
WhoCancelledIsNotTold ==
    \A actor \in {"CUSTOMER", "RESTAURANT", "RIDER"} : actor \notin MessagesFor("CANCELLED")
=============================================================================
