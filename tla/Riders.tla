------------------------------- MODULE Riders -------------------------------
(***************************************************************************)
(* How a rider gets on the road: the application, its documents, their     *)
(* review, and the decisions of staff.  Module Dispatch is about what a    *)
(* rider does there.                                                       *)
(*                                                                         *)
(* Every request loads the rider or the document, checks what it loaded,   *)
(* and writes by id in a later statement.                                  *)
(***************************************************************************)
EXTENDS Integers, FiniteSets, Requests

CONSTANTS
    Accounts,
    Cnics,
    REQUIRED_DOCUMENTS,
    REGISTRABLE_VEHICLE_DOCUMENTS,
    LastFile        \* bound: files an account uploads of a document

VARIABLES
    drivers,        \* drivers and their vehicle, one row per account at most
    documents,      \* driver_documents, one row per account and type at most
    reviewed        \* history: files a reviewer loaded to verify them

tables == <<drivers, documents, reviewed>>
vars == <<tables, req, overlapped>>

-----------------------------------------------------------------------------
DriverStatuses == {"PENDING_APPROVAL", "ACTIVE", "SUSPENDED", "REJECTED"}
Availabilities == {"OFFLINE", "ONLINE", "ON_BREAK", "ON_DELIVERY"}
SELF_SERVICE_AVAILABILITY == {"ONLINE", "OFFLINE", "ON_BREAK"}
DocumentStatuses == {"PENDING", "VERIFIED", "REJECTED"}
DocumentTypes == REQUIRED_DOCUMENTS \cup REGISTRABLE_VEHICLE_DOCUMENTS

\* <<from, to>>
RIDER_TRANSITIONS ==
    { <<"PENDING_APPROVAL", "ACTIVE">>, <<"PENDING_APPROVAL", "REJECTED">>,
      <<"ACTIVE", "SUSPENDED">>,
      <<"SUSPENDED", "ACTIVE">>, <<"SUSPENDED", "REJECTED">>,
      <<"REJECTED", "PENDING_APPROVAL">> }

NoDriver == [status |-> "none"]
NoDocument == [file |-> 0, status |-> "none"]

Init ==
    /\ drivers = [a \in Accounts |-> NoDriver]
    /\ documents = [a \in Accounts |-> [t \in DocumentTypes |-> NoDocument]]
    /\ reviewed = {}
    /\ NoRequests

Registered == {a \in Accounts : drivers[a] # NoDriver}

-----------------------------------------------------------------------------
(* Applying.                                                               *)

\* drivers_cnic_key
FreshIdentity(cnic) == \A a \in Registered : drivers[a].cnic # cnic

Register(h, a, cnic, motorised) ==
    /\ a \notin Registered /\ \A b \in Registered : drivers[b].cnic # cnic
    /\ Begin(h, [kind |-> "register", account |-> a, cnic |-> cnic, motorised |-> motorised])
    /\ UNCHANGED tables

\* The profile and its vehicle, unless the account or the CNIC is taken.
CommitRegister(h) ==
    /\ req[h].kind = "register"
    /\ LET r == req[h]
       IN  drivers' =
            IF r.account \notin Registered /\ FreshIdentity(r.cnic)
            THEN [drivers EXCEPT ![r.account] =
                    [cnic |-> r.cnic, motorised |-> r.motorised,
                     status |-> "PENDING_APPROVAL", availability |-> "OFFLINE"]]
            ELSE drivers
    /\ Finish(h)
    /\ UNCHANGED <<documents, reviewed>>

UploadDocument(h, a, t) ==
    /\ a \in Registered
    /\ Begin(h, [kind |-> "upload", account |-> a, type |-> t])
    /\ UNCHANGED tables

\* Faulty variant: a replacement keeps the verdict on what it replaces.
FiledAsReviewed(doc) ==
    [file |-> doc.file + 1, expired |-> FALSE,
     status |-> IF doc = NoDocument THEN "PENDING" ELSE doc.status]

\* A replacement always re-enters the queue.
Filed(doc) == [file |-> doc.file + 1, expired |-> FALSE, status |-> "PENDING"]

\* upsertDocument
CommitUpload(h) ==
    /\ req[h].kind = "upload"
    /\ LET r == req[h]
           doc == documents[r.account][r.type]
       IN  /\ doc.file < LastFile
           /\ documents' = [documents EXCEPT ![r.account][r.type] = Filed(doc)]
    /\ Finish(h)
    /\ UNCHANGED <<drivers, reviewed>>

Lapse(a, t) ==
    /\ documents[a][t] # NoDocument
    /\ documents' = [documents EXCEPT ![a][t].expired = TRUE]
    /\ UNCHANGED <<drivers, reviewed, req, overlapped>>

-----------------------------------------------------------------------------
(* Deciding.                                                               *)

\* The reviewer decides on the file the request loads.
ReviewDocument(h, a, t, verdict) ==
    LET doc == documents[a][t]
    IN  /\ doc # NoDocument
        /\ verdict = "VERIFIED" => ~ doc.expired
        /\ Begin(h, [kind |-> "review", account |-> a, type |-> t, file |-> doc.file,
                     verdict |-> verdict])
        /\ reviewed' = IF verdict = "VERIFIED" THEN reviewed \cup {<<a, t, doc.file>>} ELSE reviewed
        /\ UNCHANGED <<drivers, documents>>

\* reviewDocument, whatever the file has become.
CommitReview(h) ==
    /\ req[h].kind = "review"
    /\ LET r == req[h]
       IN  documents' = [documents EXCEPT ![r.account][r.type].status = r.verdict]
    /\ Finish(h)
    /\ UNCHANGED <<drivers, reviewed>>

verifiedDocumentTypes(a) ==
    {t \in DocumentTypes :
        documents[a][t].status = "VERIFIED" /\ ~ documents[a][t].expired}

Needed(a) == IF drivers[a].motorised THEN DocumentTypes ELSE REQUIRED_DOCUMENTS

missingDocuments(a) == Needed(a) \ verifiedDocumentTypes(a)

\* Approve and reinstate ask for the documents, suspend for a free rider,
\* resubmit and reject for nothing.
Decide(h, a, to) ==
    /\ a \in Registered
    /\ <<drivers[a].status, to>> \in RIDER_TRANSITIONS
    /\ to = "ACTIVE" => missingDocuments(a) = {}
    /\ to = "SUSPENDED" => drivers[a].availability # "ON_DELIVERY"
    /\ Begin(h, [kind |-> "status", account |-> a, to |-> to])
    /\ UNCHANGED tables

\* Losing approval takes the rider off the map as well as off the roster.
OffTheMap(driver, to) == IF to = "ACTIVE" THEN driver.availability ELSE "OFFLINE"

\* setStatus
CommitStatus(h) ==
    /\ req[h].kind = "status"
    /\ LET r == req[h]
       IN  drivers' = [drivers EXCEPT
              ![r.account].status = r.to,
              ![r.account].availability = OffTheMap(drivers[r.account], r.to)]
    /\ Finish(h)
    /\ UNCHANGED <<documents, reviewed>>

-----------------------------------------------------------------------------
(* Working.                                                                *)

\* Going online is refused while a verified document has lapsed.
SetAvailability(h, a, to) ==
    /\ a \in Registered /\ drivers[a].status = "ACTIVE"
    /\ drivers[a].availability # "ON_DELIVERY"
    /\ to = "ONLINE" =>
        \A t \in DocumentTypes :
            documents[a][t].status = "VERIFIED" => ~ documents[a][t].expired
    /\ Begin(h, [kind |-> "switch", account |-> a, to |-> to])
    /\ UNCHANGED tables

CommitAvailability(h) ==
    /\ req[h].kind = "switch"
    /\ drivers' = [drivers EXCEPT ![req[h].account].availability = req[h].to]
    /\ Finish(h)
    /\ UNCHANGED <<documents, reviewed>>

\* Dispatch: an approved rider takes a run, whatever his switch says, and is
\* online again when it ends.
Carry(a) ==
    /\ a \in Registered
    /\ drivers' = [drivers EXCEPT ![a].availability =
                      IF @ = "ON_DELIVERY" THEN "ONLINE" ELSE "ON_DELIVERY"]
    /\ drivers[a].availability # "ON_DELIVERY" => drivers[a].status = "ACTIVE"
    /\ overlapped' = (overlapped \/ \E g \in Handlers : req[g] # Idle)
    /\ UNCHANGED <<documents, reviewed, req>>

-----------------------------------------------------------------------------
Commit(h) ==
    \/ CommitRegister(h) \/ CommitUpload(h) \/ CommitReview(h)
    \/ CommitStatus(h) \/ CommitAvailability(h)

Request(h) ==
    \E a \in Accounts :
        \/ \E cnic \in Cnics, motorised \in BOOLEAN : Register(h, a, cnic, motorised)
        \/ \E t \in DocumentTypes :
            UploadDocument(h, a, t)
            \/ \E verdict \in {"VERIFIED", "REJECTED"} : ReviewDocument(h, a, t, verdict)
        \/ \E to \in DriverStatuses : Decide(h, a, to)
        \/ \E to \in SELF_SERVICE_AVAILABILITY : SetAvailability(h, a, to)

Next ==
    \/ \E h \in Handlers : Commit(h) \/ Request(h)
    \/ Restart /\ UNCHANGED tables
    \/ \E a \in Accounts : Carry(a) \/ \E t \in DocumentTypes : Lapse(a, t)

Spec == Init /\ [][Next]_vars

-----------------------------------------------------------------------------
(* Properties.                                                             *)

RiderTypeOK ==
    /\ \A a \in Registered :
        drivers[a] \in [cnic : Cnics, motorised : BOOLEAN, status : DriverStatuses,
                        availability : Availabilities]
    /\ \A a \in Accounts, t \in DocumentTypes :
        documents[a][t] # NoDocument =>
            a \in Registered /\ documents[a][t].status \in DocumentStatuses

\* "One CNIC is one rider.  Without this a suspended rider could re-apply
\* under a new account", and two applications that looked together would.
OneRiderPerCnic ==
    \A a, b \in Registered : drivers[a].cnic = drivers[b].cnic => a = b

VettedFirst ==
    ~ overlapped' =>
        \A a \in Accounts :
            drivers'[a].status = "ACTIVE" /\ drivers[a].status # "ACTIVE" =>
                \A t \in Needed(a) : <<a, t, documents[a][t].file>> \in reviewed

OthersAreOffline ==
    ~ overlapped =>
        \A a \in Registered : drivers[a].status # "ACTIVE" => drivers[a].availability = "OFFLINE"

\* "Approving around a missing CNIC would put an unidentified person on a
\* customer's doorstep", and a replacement must not carry "the old verdict
\* over": whoever is approved or put back on the road has every paper his
\* vehicle asks for, in the very file that a reviewer verified; and whoever is
\* not approved is not on the map.
OnTheRoadIsVetted == []OthersAreOffline /\ [][VettedFirst]_vars

-----------------------------------------------------------------------------
(* A claim that does not hold.                                             *)

\* "The previous review said nothing about this file": nor did the review
\* that was under way when the file was replaced, and it is applied to it.
VerdictIsOnTheFile ==
    [][\A h \in Handlers :
        LET r == req[h]
        IN  r.kind = "review" /\ req'[h] = Idle => documents[r.account][r.type].file = r.file]_vars
=============================================================================
