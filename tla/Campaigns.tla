------------------------------ MODULE Campaigns ------------------------------
(***************************************************************************)
(* Broadcasts: a campaign is composed, perhaps scheduled, and sent by hand *)
(* or by the sweep to everyone in its audience, a page of recipients at a  *)
(* time in the order of their ids.                                         *)
(***************************************************************************)
EXTENDS FiniteSets, Integers, Requests

CONSTANTS
    Broadcasts,
    LastRecipient,      \* bound: recipients are numbered in the order of ids
    InboxOn, PushOn,    \* recipients whose preferences leave the channel
    LastPhone,          \* bound: phones of a recipient
    broadcastBatchSize

VARIABLES
    broadcasts,
    audience,           \* who the campaign's query finds
    reached             \* history: pages of a campaign that reached a recipient

vars == <<broadcasts, audience, reached, req, overlapped>>

-----------------------------------------------------------------------------
Everyone == 1 .. LastRecipient
BroadcastStatuses == {"DRAFT", "SCHEDULED", "SENDING", "SENT", "FAILED", "CANCELLED"}
EDITABLE == {"DRAFT", "SCHEDULED"}
NoBroadcast == [status |-> "none"]
OptedOut == Everyone \ (InboxOn \cup PushOn)
Uncounted == [recipientCount |-> 0, deliveredCount |-> 0, skippedCount |-> 0]

Init ==
    /\ broadcasts = [b \in Broadcasts |-> NoBroadcast]
    /\ audience = Everyone
    /\ reached = [b \in Broadcasts |-> [u \in Everyone |-> 0]]
    /\ NoRequests

\* A campaign that is due is one whose scheduled moment has come.
Start(h, r) == Begin(h, r) /\ UNCHANGED <<broadcasts, audience, reached>>

WriteStatus(b, status) ==
    /\ broadcasts' = [broadcasts EXCEPT ![b].status = status]
    /\ UNCHANGED <<audience, reached>>

-----------------------------------------------------------------------------
(* Composing.                                                              *)

CreateBroadcast(b, scheduled) ==
    /\ broadcasts[b] = NoBroadcast
    /\ broadcasts' = [broadcasts EXCEPT ![b] =
            [status |-> IF scheduled THEN "SCHEDULED" ELSE "DRAFT", counts |-> Uncounted]]
    /\ UNCHANGED <<audience, reached, req, overlapped>>

\* Faulty variant: a campaign that failed is sent again from the start.
Resendable(b) == broadcasts[b].status \in EDITABLE \cup {"FAILED"}

Editable(b) == broadcasts[b].status \in EDITABLE

\* Only a new moment changes the status, and it schedules what was a draft.
UpdateBroadcast(h, b) == Editable(b) /\ Start(h, [kind |-> "reschedule", broadcast |-> b])
CancelBroadcast(h, b) == Editable(b) /\ Start(h, [kind |-> "cancel", broadcast |-> b])

CommitStatus(h) ==
    /\ req[h].kind \in {"reschedule", "cancel"}
    /\ WriteStatus(req[h].broadcast, IF req[h].kind = "cancel" THEN "CANCELLED" ELSE "SCHEDULED")
    /\ Finish(h)

-----------------------------------------------------------------------------
(* Sending.                                                                *)

SendBroadcast(h, b) == Editable(b) /\ Start(h, [kind |-> "deliver", due |-> {b}])

\* The sweep loads the campaigns that are due, and looks at none of them again.
DispatchScheduled(h, due) ==
    /\ due # {} /\ \A b \in due : broadcasts[b].status = "SCHEDULED"
    /\ Start(h, [kind |-> "deliver", due |-> due])

BeginDelivery(h) ==
    /\ req[h].kind = "deliver"
    /\ \E b \in req[h].due :
        /\ broadcasts' = [broadcasts EXCEPT ![b] = [status |-> "SENDING", counts |-> Uncounted]]
        /\ Continue(h, [kind |-> "page", broadcast |-> b, cursor |-> 0, total |-> Uncounted,
                        due |-> req[h].due \ {b}])
    /\ UNCHANGED <<audience, reached>>

\* The n lowest numbers of a set.
Lowest(S, n) == {u \in S : Cardinality({v \in S : v < u}) < n}

\* resolveAudience: from the cursor on, less the first, which is the cursor if
\* it is still in the audience.
Page(cursor) ==
    LET from == {u \in audience : u >= cursor}
    IN  Lowest(IF cursor = 0 THEN from ELSE from \ Lowest(from, 1), broadcastBatchSize)

Reach(b, us) ==
    reached' = [reached EXCEPT ![b] =
        [u \in Everyone |-> IF u \in us THEN @[u] + 1 ELSE @[u]]]

\* notifyMany writes the rows of the inboxes in one statement.
NotifyPage(h) ==
    /\ req[h].kind = "page"
    /\ LET r == req[h]
           batch == Page(r.cursor)
       IN  \/ /\ batch = {}
              /\ Continue(h, [r EXCEPT !.kind = "close"])
              /\ UNCHANGED reached
           \/ /\ batch # {}
              /\ Reach(r.broadcast, batch \cap InboxOn)
              /\ Continue(h, [kind |-> "push", broadcast |-> r.broadcast, due |-> r.due,
                              total |-> r.total, batch |-> batch])
    /\ UNCHANGED <<broadcasts, audience>>

Larger(m, n) == IF m >= n THEN m ELSE n

\* Then it pushes to the phones, of which any may take the message; and what it
\* counts as delivered is the rows or the phones, whichever are more.
PushPage(h) ==
    /\ req[h].kind = "push"
    /\ LET r == req[h]
           inApp == r.batch \cap InboxOn
       IN  \E took \in SUBSET ((r.batch \cap PushOn) \X (1 .. LastPhone)) :
            /\ Reach(r.broadcast, {phone[1] : phone \in took} \ inApp)
            /\ Continue(h, [kind |-> "count", broadcast |-> r.broadcast, due |-> r.due,
                    total |-> r.total, batch |-> r.batch,
                    added |-> [recipientCount |-> Cardinality(r.batch),
                               deliveredCount |-> Larger(Cardinality(inApp), Cardinality(took)),
                               skippedCount |-> Cardinality(r.batch \cap OptedOut)]])
    /\ UNCHANGED <<broadcasts, audience>>

Plus(counts, added) == [field \in DOMAIN counts |-> counts[field] + added[field]]

\* addCounts; a page that is not full is the last.
AddCounts(h) ==
    /\ req[h].kind = "count"
    /\ LET r == req[h]
           full == Cardinality(r.batch) = broadcastBatchSize
       IN  /\ broadcasts' = [broadcasts EXCEPT ![r.broadcast].counts = Plus(@, r.added)]
           /\ Continue(h, [kind |-> IF full THEN "page" ELSE "close",
                           broadcast |-> r.broadcast, due |-> r.due,
                           total |-> Plus(r.total, r.added),
                           cursor |-> CHOOSE u \in r.batch : \A v \in r.batch : v <= u])
    /\ UNCHANGED <<audience, reached>>

AfterDelivery(h) ==
    IF req[h].due = {} THEN Finish(h) ELSE Continue(h, [kind |-> "deliver", due |-> req[h].due])

\* Nothing reaching anybody is a failed campaign, unless they opted out.
EndDelivery(h) ==
    /\ req[h].kind = "close"
    /\ LET counts == req[h].total
           everythingFailed ==
               counts.recipientCount > 0 /\ counts.deliveredCount = 0 /\ counts.skippedCount = 0
       IN  WriteStatus(req[h].broadcast, IF everythingFailed THEN "FAILED" ELSE "SENT")
    /\ AfterDelivery(h)

\* A statement of the delivery throws: the campaign fails, what its page had
\* reached is not counted, and the sweep stops.
DeliveryThrows(h) ==
    /\ req[h].kind \in {"page", "push", "count", "close"}
    /\ WriteStatus(req[h].broadcast, "FAILED")
    /\ Finish(h)

\* An account is suspended, or comes back.
Toggle(u) ==
    /\ audience' = IF u \in audience THEN audience \ {u} ELSE audience \cup {u}
    /\ UNCHANGED <<broadcasts, reached, req, overlapped>>

-----------------------------------------------------------------------------
Proceed(h) ==
    \/ CommitStatus(h) \/ BeginDelivery(h) \/ NotifyPage(h) \/ PushPage(h) \/ AddCounts(h)
    \/ EndDelivery(h) \/ DeliveryThrows(h)

Request(h) ==
    \/ \E b \in Broadcasts :
        UpdateBroadcast(h, b) \/ CancelBroadcast(h, b) \/ SendBroadcast(h, b)
    \/ \E due \in SUBSET Broadcasts : DispatchScheduled(h, due)

Next ==
    \/ \E h \in Handlers : Proceed(h) \/ Request(h)
    \/ \E b \in Broadcasts, scheduled \in BOOLEAN : CreateBroadcast(b, scheduled)
    \/ \E u \in Everyone : Toggle(u)
    \/ Restart /\ UNCHANGED <<broadcasts, audience, reached>>

Spec == Init /\ [][Next]_vars

-----------------------------------------------------------------------------
(* Properties.                                                             *)

ReachedBy(b) == {u \in Everyone : reached[b][u] > 0}

\* "This campaign has already been sent. Duplicate it rather than sending it
\* twice": one request at a time, and however often it fails or the process
\* dies, a campaign reaches nobody twice, nobody before it is sent and nobody
\* who opted out.  One that was sent counts at least those it reached in their
\* inbox, and counts nobody only if it reached nobody; that it counts people is
\* CountIsPeople.
NobodyTwice ==
    ~ overlapped =>
        \A b \in Broadcasts :
            /\ \A u \in Everyone : reached[b][u] <= IF u \in OptedOut THEN 0 ELSE 1
            /\ broadcasts[b].status \in {"none", "DRAFT", "SCHEDULED", "CANCELLED"} =>
                ReachedBy(b) = {}
            /\ broadcasts[b].status = "SENT" =>
                LET delivered == broadcasts[b].counts.deliveredCount
                IN  /\ delivered >= Cardinality(ReachedBy(b) \cap InboxOn)
                    /\ delivered = 0 <=> ReachedBy(b) = {}

-----------------------------------------------------------------------------
(* Claims that do not hold.                                                *)

\* "A recipient counts as reached if either leg worked": a page counts its rows
\* or the phones that took the push, whichever are more, and so neither somebody
\* with two phones once, nor everyone on a page where two were reached by one
\* leg each.
CountIsPeople ==
    ~ overlapped =>
        \A b \in Broadcasts : broadcasts[b].status = "SENT" =>
            broadcasts[b].counts.deliveredCount = Cardinality(ReachedBy(b))

\* "Rather than left SENDING forever, which is the state nobody can act on":
\* a restart leaves it so, and nothing takes it up again.
SendingIsSent ==
    \A b \in Broadcasts : broadcasts[b].status = "SENDING" =>
        \E h \in Handlers : req[h].kind \in {"page", "push", "count", "close"} /\ req[h].broadcast = b

\* A cancelled campaign reaches nobody: it does if it was loaded before.
CancelledIsSilent ==
    [][\A b \in Broadcasts : broadcasts[b].status = "CANCELLED" => reached'[b] = reached[b]]_vars

\* A page is a page of the audience: the recipient after a cursor that left
\* the audience is skipped.
NobodyIsMissed ==
    [][\A h \in Handlers :
        LET r == req[h]
        IN  r.kind = "page" /\ req'[h] # r /\ r.cursor # 0 /\ req'[h].kind = "push" =>
                \A u \in audience : u > r.cursor /\ u \notin req'[h].batch =>
                    \A v \in req'[h].batch : v < u]_vars
=============================================================================
