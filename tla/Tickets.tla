------------------------------- MODULE Tickets -------------------------------
(***************************************************************************)
(* A support ticket: the customer's messages, the agents' replies, and     *)
(* whose move it is.  A reply and a move of the status are decided on the  *)
(* ticket as read and written later.  Messages are kept only as far as     *)
(* the customer waits for an answer; the priority and the trail of what    *)
(* staff change are left out.                                              *)
(***************************************************************************)
EXTENDS Naturals, Requests

CONSTANTS
    NULL, UNUSED,
    Agents,
    LastTicket

VARIABLES
    tickets,
    unanswered      \* history: the customer wrote after staff last did anything

desk == <<tickets, unanswered>>
vars == <<desk, req, overlapped>>

-----------------------------------------------------------------------------
Statuses == {"OPEN", "IN_PROGRESS", "WAITING_ON_CUSTOMER", "RESOLVED", "CLOSED"}

Rows == {n \in DOMAIN tickets : tickets[n] # UNUSED}

Init ==
    /\ tickets = [n \in 1 .. LastTicket |-> UNUSED]
    /\ unanswered = [n \in 1 .. LastTicket |-> FALSE]
    /\ NoRequests

TICKET_TRANSITIONS(from) ==
    CASE from = "OPEN"     -> Statuses \ {"OPEN"}
      [] from = "RESOLVED" -> {"IN_PROGRESS", "CLOSED"}
      [] from = "CLOSED"   -> {}
      [] OTHER             -> Statuses \ {"OPEN", from}

customerMayReply(status) == status # "CLOSED"

\* Faulty variant: only an answer that was waited for comes back.
ReopensWaiting(current) ==
    IF current = "WAITING_ON_CUSTOMER" THEN "IN_PROGRESS" ELSE current

statusAfterCustomerReply(current) ==
    IF current \in {"WAITING_ON_CUSTOMER", "RESOLVED"} THEN "IN_PROGRESS" ELSE current

\* An agent's answer takes an open ticket up; his note moves nothing.
statusAfterStaffReply(current, isInternal) ==
    IF current = "OPEN" /\ ~ isInternal THEN "IN_PROGRESS" ELSE current

Start(h, r) == Begin(h, r) /\ UNCHANGED desk

-----------------------------------------------------------------------------
(* Opening and assigning: one transaction, one statement.                  *)

CreateTicket ==
    \E n \in 1 .. LastTicket :
        /\ tickets[n] = UNUSED
        /\ tickets' = [tickets EXCEPT ![n] =
                [status |-> "OPEN", assignedTo |-> NULL, marks |-> {}]]
        /\ unanswered' = [unanswered EXCEPT ![n] = TRUE]

Assign(n, agent) ==
    /\ tickets' = [tickets EXCEPT ![n].assignedTo = agent]
    /\ UNCHANGED unanswered

Statement ==
    /\ CreateTicket \/ \E n \in Rows, agent \in Agents \cup {NULL} : Assign(n, agent)
    /\ UNCHANGED req
    /\ overlapped' = (overlapped \/ \E h \in Handlers : req[h] # Idle)

-----------------------------------------------------------------------------
(* Replying.  A status that stays is not written.                          *)

Or(new, old) == IF new = old THEN NULL ELSE new

CustomerReplies(h, n) ==
    LET current == tickets[n].status
    IN  /\ customerMayReply(current)
        /\ Start(h, [kind |-> "reply", ticket |-> n, unanswered |-> TRUE,
                     next |-> Or(statusAfterCustomerReply(current), current)])

StaffReplies(h, n, isInternal) ==
    LET current == tickets[n].status
    IN  Start(h, [kind |-> "reply", ticket |-> n,
                  unanswered |-> IF isInternal THEN NULL ELSE FALSE,
                  next |-> Or(statusAfterStaffReply(current, isInternal), current)])

\* The message and the status land together; no mark is cleared.
addMessage(h) ==
    /\ req[h].kind = "reply"
    /\ LET r == req[h]
       IN  /\ tickets' = IF r.next = NULL THEN tickets
                         ELSE [tickets EXCEPT ![r.ticket].status = r.next]
           /\ unanswered' = IF r.unanswered = NULL THEN unanswered
                            ELSE [unanswered EXCEPT ![r.ticket] = r.unanswered]
    /\ Finish(h)

-----------------------------------------------------------------------------
(* Moving a ticket.                                                        *)

ChangeTicketStatus(h, n, to, agent) ==
    /\ to \in TICKET_TRANSITIONS(tickets[n].status)
    /\ Start(h, [kind |-> "status", ticket |-> n, to |-> to, actor |-> agent])

Marked(marks, to) ==
    CASE to = "RESOLVED"    -> marks \cup {"resolvedAt"}
      [] to = "CLOSED"      -> marks \cup {"closedAt"}
      [] to = "IN_PROGRESS" -> {}
      [] OTHER              -> marks

\* Whoever takes it up owns it, whoever owned it before.
setStatus(h) ==
    /\ req[h].kind = "status"
    /\ LET r == req[h]
       IN  /\ tickets' = [tickets EXCEPT ![r.ticket] =
                [status |-> r.to, marks |-> Marked(@.marks, r.to),
                 assignedTo |-> IF r.to = "IN_PROGRESS" THEN r.actor ELSE @.assignedTo]]
           /\ unanswered' = [unanswered EXCEPT ![r.ticket] = FALSE]
    /\ Finish(h)

-----------------------------------------------------------------------------
Request(h) ==
    \E n \in Rows :
        \/ CustomerReplies(h, n)
        \/ \E isInternal \in BOOLEAN : StaffReplies(h, n, isInternal)
        \/ \E to \in Statuses, agent \in Agents : ChangeTicketStatus(h, n, to, agent)

Next ==
    \/ Statement
    \/ \E h \in Handlers : Request(h) \/ addMessage(h) \/ setStatus(h)
    \/ Restart /\ UNCHANGED desk

Spec == Init /\ [][Next]_vars

-----------------------------------------------------------------------------
(* Properties.                                                             *)

UnansweredIsWorked ==
    overlapped \/ \A n \in Rows :
        unanswered[n] => tickets[n].status \in {"OPEN", "IN_PROGRESS"}

ClosedStays ==
    overlapped' \/ \A n \in Rows :
        tickets[n].status = "CLOSED" => tickets'[n].status = "CLOSED"

\* One request at a time, whatever the customer wrote last is on a ticket that
\* somebody works on, until staff answer it or move it themselves: "leaving it
\* marked resolved is how a complaint quietly stops being anybody's job"; and a
\* closed ticket stays closed.
CustomerIsHeard == []UnansweredIsWorked /\ [][ClosedStays]_vars

-----------------------------------------------------------------------------
(* Claims that do not hold, the first two of one request at a time.        *)

\* "Reopening clears the marks, so 'resolved 3 days ago' never sits on a ticket
\* that is open again": the customer's reply reopens it and clears nothing.
ReopenedIsUnmarked ==
    overlapped \/ \A n \in Rows :
        tickets[n].status \in {"OPEN", "IN_PROGRESS"} => tickets[n].marks = {}

\* "Whoever moved it owns it, unless somebody already does."
OwnerStays ==
    [][\A h \in Handlers, n \in Rows :
        setStatus(h) /\ tickets[n].assignedTo # NULL
            => tickets'[n].assignedTo = tickets[n].assignedTo]_vars

\* "A closed ticket cannot [be reopened]": a reply that read it open does.
ClosedForGood ==
    [][\A n \in Rows : tickets[n].status = "CLOSED" => tickets'[n].status = "CLOSED"]_vars
=============================================================================
