---------------------------- MODULE OpeningHours ----------------------------
(***************************************************************************)
(* Whether a listing is open now, and when it opens next: what the app     *)
(* shows of a week of hours, against what the hours mean.                  *)
(*                                                                         *)
(* A week of DAYS days of HOURS hours, the local clock counted from the    *)
(* start of the week.                                                      *)
(***************************************************************************)
EXTENDS Integers

CONSTANTS
    NULL,
    DAYS, HOURS

VARIABLES
    week,           \* of each day: closed, or from when to when
    clock

vars == <<week, clock>>

-----------------------------------------------------------------------------
Week == 0 .. DAYS - 1
Hours == 0 .. HOURS - 1

\* An end before the start is past midnight; equal times are refused.
Shifts ==
    {[opensAt |-> o, closesAt |-> c] : o \in Hours, c \in Hours}
        \ {[opensAt |-> o, closesAt |-> o] : o \in Hours}

Init ==
    /\ week = [d \in Week |-> NULL]
    /\ clock = 0

\* Later saves lead to no other weeks than the first.
SetHours ==
    /\ week = [d \in Week |-> NULL] /\ clock = 0
    /\ week' \in [Week -> Shifts \cup {NULL}]
    /\ UNCHANGED clock

Tick ==
    /\ clock' = (clock + 1) % (DAYS * HOURS)
    /\ UNCHANGED week

Next == SetHours \/ Tick

Spec == Init /\ [][Next]_vars

-----------------------------------------------------------------------------
(* The service.                                                            *)

localNow(t) == [day |-> (t \div HOURS) % DAYS, minutes |-> t % HOURS]

isOpen(t) ==
    LET now == localNow(t)
        today == week[now.day]
    IN  /\ today # NULL
        /\ IF today.closesAt > today.opensAt
           THEN now.minutes \in today.opensAt .. today.closesAt - 1
           ELSE now.minutes >= today.opensAt \/ now.minutes < today.closesAt

\* Faulty variant: an opening that is over counts.
NeverOver(offset, opens, minutes) == FALSE

IsOver(offset, opens, minutes) == offset = 0 /\ opens <= minutes

\* The offsets of the days that open again, this day's own only later on it.
Openings(t) ==
    LET now == localNow(t)
    IN  {offset \in Week :
            LET entry == week[(now.day + offset) % DAYS]
            IN  entry # NULL /\ ~ IsOver(offset, entry.opensAt, now.minutes)}

minutesUntilNextOpening(t) ==
    IF Openings(t) = {} THEN NULL
    ELSE LET now == localNow(t)
             first == CHOOSE offset \in Openings(t) :
                        \A other \in Openings(t) : offset <= other
         IN  first * HOURS + week[(now.day + first) % DAYS].opensAt - now.minutes

-----------------------------------------------------------------------------
(* What the hours mean: a shift is of the day it starts on.                *)

Ends(shift) ==
    IF shift.closesAt > shift.opensAt THEN shift.closesAt ELSE HOURS + shift.closesAt

Served(t) ==
    \E d \in Week :
        /\ week[d] # NULL
        /\ \E start \in {d * HOURS, (d - DAYS) * HOURS} :
            t % (DAYS * HOURS) \in start + week[d].opensAt .. start + Ends(week[d]) - 1

Opens(t) == \E d \in Week : week[d] # NULL /\ t % (DAYS * HOURS) = d * HOURS + week[d].opensAt

NoNights == \A d \in Week : week[d] # NULL => week[d].closesAt > week[d].opensAt

-----------------------------------------------------------------------------
(* Properties.                                                             *)

\* When the app says in how long a closed listing opens, it opens then and no
\* sooner, whatever the week; when it says nothing, no other day opens at all;
\* and of a week without nights it says it is open exactly when it is.
OpensWhenSaid ==
    /\ ~ isOpen(clock) =>
        LET said == minutesUntilNextOpening(clock)
            ahead == IF said = NULL THEN DAYS * HOURS - (clock % HOURS) ELSE said
        IN  /\ said # NULL => said > 0 /\ Opens(clock + said)
            /\ \A t \in clock + 1 .. clock + ahead - 1 : ~ Opens(t)
    /\ NoNights => (isOpen(clock) <=> Served(clock))

-----------------------------------------------------------------------------
(* Claims that do not hold.                                                *)

\* "Scans forward up to a week to find the next opening": this day a week from
\* now is not scanned, so a listing open on one day a week has no next opening
\* from the moment it closes.
SaysNextOpening ==
    ~ isOpen(clock) /\ (\E d \in Week : week[d] # NULL)
        => minutesUntilNextOpening(clock) # NULL

\* "A closing time at or before the opening time means the window runs past
\* midnight": it is looked for on the day that it starts on, from midnight.
NightIsServed == isOpen(clock) <=> Served(clock)
=============================================================================
