------------------------------ MODULE Listings ------------------------------
(***************************************************************************)
(* What an owner keeps of his listings: the categories each is found in,   *)
(* its week of opening hours and its gallery, each replaced as a whole in  *)
(* a transaction of two statements.                                        *)
(*                                                                         *)
(* One owner.  A listing's status and its switch are in Vendors.  Names,   *)
(* places, times, pictures, payment codes and staff are left out.          *)
(***************************************************************************)
EXTENDS FiniteSets, Integers, Sequences, Requests

CONSTANTS
    NULL, UNUSED,
    Categories,
    Days,
    MAX_RESTAURANTS_PER_OWNER, MAX_IMAGES_PER_RESTAURANT,
    LastListing, LastImage,
    LastSave        \* bound: weeks saved

VARIABLES
    listings,       \* whether deleted, and the categories assigned
    categories,     \* ids in use
    retired,        \* history: ids of deleted categories, not used again
    hours,          \* rows of each listing: the day, whether closed, the save
    saves,
    images          \* whose each is, and its place

pages == <<listings, categories, retired, hours, saves, images>>
vars == <<pages, req, overlapped>>

-----------------------------------------------------------------------------
Rows(table) == {i \in DOMAIN table : table[i] \notin {UNUSED, NULL}}

Fresh(table) ==
    {i \in DOMAIN table : table[i] = UNUSED /\ \A j \in 1 .. i - 1 : table[j] # UNUSED}

Init ==
    /\ listings = [l \in 1 .. LastListing |-> UNUSED]
    /\ categories = {} /\ retired = {}
    /\ hours = [l \in 1 .. LastListing |-> {}] /\ saves = 0
    /\ images = [i \in 1 .. LastImage |-> UNUSED]
    /\ NoRequests

Kept == {l \in Rows(listings) : ~ listings[l].deleted}

Gallery(l) == {i \in Rows(images) : images[i].listing = l}

Start(h, r) == Begin(h, r) /\ UNCHANGED pages

-----------------------------------------------------------------------------
(* Requests of one statement.                                              *)

\* Soft: the listing keeps its rows.
DeleteRestaurant(l) ==
    /\ l \in Kept
    /\ listings' = [listings EXCEPT ![l].deleted = TRUE]
    /\ UNCHANGED <<categories, retired, hours, saves, images>>

CreateCategory(c) ==
    /\ c \notin categories \cup retired
    /\ categories' = categories \cup {c}
    /\ UNCHANGED <<listings, retired, hours, saves, images>>

DeleteRestaurantImage(i) ==
    /\ images' = [images EXCEPT ![i] = NULL]
    /\ UNCHANGED <<listings, categories, retired, hours, saves>>

Statement ==
    /\ \/ \E l \in Rows(listings) : DeleteRestaurant(l)
       \/ \E c \in Categories : CreateCategory(c)
       \/ \E i \in Rows(images) : DeleteRestaurantImage(i)
    /\ UNCHANGED req
    /\ overlapped' = (overlapped \/ \E h \in Handlers : req[h] # Idle)

-----------------------------------------------------------------------------
(* Registering, and the categories.                                        *)

RegisterRestaurant(h, cs) ==
    /\ Cardinality(Kept) < MAX_RESTAURANTS_PER_OWNER
    /\ cs # {} /\ cs \subseteq categories
    /\ Start(h, [kind |-> "register", categories |-> cs])

InsertRestaurant(h) ==
    /\ req[h].kind = "register"
    /\ LET cs == req[h].categories
       IN  IF cs \subseteq categories
           THEN \E l \in Fresh(listings) :
                listings' = [listings EXCEPT ![l] = [deleted |-> FALSE, categories |-> cs]]
           ELSE UNCHANGED listings
    /\ Finish(h)
    /\ UNCHANGED <<categories, retired, hours, saves, images>>

UpdateRestaurant(h, l, cs) ==
    /\ l \in Kept
    /\ cs # {} /\ cs \subseteq categories
    /\ Start(h, [kind |-> "update", listing |-> l, categories |-> cs])

\* The transaction deletes the assignments it sees ...
DeleteAssignments(h) ==
    /\ req[h].kind = "update"
    /\ Continue(h, [kind |-> "assign", listing |-> req[h].listing,
                    categories |-> req[h].categories,
                    seen |-> listings[req[h].listing].categories])
    /\ UNCHANGED pages

\* ... and adds its own to what was assigned meanwhile, unless one is there
\* already or its category is gone.
CommitAssignments(h) ==
    /\ req[h].kind = "assign"
    /\ LET r == req[h]
           others == listings[r.listing].categories \ r.seen
       IN  listings' = IF r.categories \subseteq categories /\ r.categories \cap others = {}
                       THEN [listings EXCEPT ![r.listing].categories = r.categories \cup others]
                       ELSE listings
    /\ Finish(h)
    /\ UNCHANGED <<categories, retired, hours, saves, images>>

\* "Deleting would cascade the assignment rows away."
DeleteCategory(h, c) ==
    /\ \A l \in Rows(listings) : c \notin listings[l].categories
    /\ Start(h, [kind |-> "category", category |-> c])

CascadeCategory(h) ==
    /\ req[h].kind = "category"
    /\ LET c == req[h].category
       IN  /\ categories' = categories \ {c}
           /\ retired' = retired \cup {c}
           /\ listings' = [l \in DOMAIN listings |->
                IF l \in Rows(listings)
                THEN [listings[l] EXCEPT !.categories = @ \ {c}] ELSE listings[l]]
    /\ Finish(h)
    /\ UNCHANGED <<hours, saves, images>>

-----------------------------------------------------------------------------
(* The week.                                                               *)

\* "Days the caller omitted are stored as closed."
Week(open, save) == {[day |-> d, closed |-> d \notin open, save |-> save] : d \in Days}

SetBusinessHours(h, l, open) ==
    /\ saves < LastSave
    /\ Start(h, [kind |-> "hours", listing |-> l, open |-> open])

DeleteHours(h) ==
    /\ req[h].kind = "hours"
    /\ Continue(h, [kind |-> "week", listing |-> req[h].listing, open |-> req[h].open,
                    seen |-> hours[req[h].listing]])
    /\ UNCHANGED pages

\* Faulty variant: nothing keeps a listing from two rows of a day.
AnyRows(others, week) == {}

Clash(others, week) == {row.day : row \in others} \cap {row.day : row \in week}

\* A second week that would be added beside the first is undone whole.
CommitHours(h) ==
    /\ req[h].kind = "week"
    /\ LET r == req[h]
           week == Week(r.open, saves + 1)
           others == hours[r.listing] \ r.seen
       IN  IF Clash(others, week) = {}
           THEN /\ hours' = [hours EXCEPT ![r.listing] = others \cup week]
                /\ saves' = saves + 1
           ELSE UNCHANGED <<hours, saves>>
    /\ Finish(h)
    /\ UNCHANGED <<listings, categories, retired, images>>

-----------------------------------------------------------------------------
(* The gallery.                                                            *)

AddRestaurantImage(h, l) ==
    /\ Cardinality(Gallery(l)) < MAX_IMAGES_PER_RESTAURANT
    /\ Start(h, [kind |-> "image", listing |-> l, place |-> Cardinality(Gallery(l))])

InsertImage(h) ==
    /\ req[h].kind = "image"
    /\ \E i \in Fresh(images) :
        images' = [images EXCEPT ![i] = [listing |-> req[h].listing, place |-> req[h].place]]
    /\ Finish(h)
    /\ UNCHANGED <<listings, categories, retired, hours, saves>>

ReorderRestaurantImages(h, l, order) ==
    /\ DOMAIN order = Gallery(l) /\ Gallery(l) # {}
    /\ Start(h, [kind |-> "reorder", order |-> order])

\* One transaction, of nothing if an image is gone.
ReorderImages(h) ==
    /\ req[h].kind = "reorder"
    /\ LET order == req[h].order
       IN  images' = IF DOMAIN order \subseteq Rows(images)
                     THEN [i \in DOMAIN images |->
                            IF i \in DOMAIN order THEN [images[i] EXCEPT !.place = order[i]]
                            ELSE images[i]]
                     ELSE images
    /\ Finish(h)
    /\ UNCHANGED <<listings, categories, retired, hours, saves>>

Orders(is) ==
    {order \in [is -> 0 .. Cardinality(is) - 1] :
        \A i, j \in is : order[i] = order[j] => i = j}

-----------------------------------------------------------------------------
Request(h) ==
    \/ \E cs \in SUBSET Categories :
        RegisterRestaurant(h, cs) \/ \E l \in Rows(listings) : UpdateRestaurant(h, l, cs)
    \/ \E c \in categories : DeleteCategory(h, c)
    \/ \E l \in Rows(listings) :
        \/ \E open \in SUBSET Days \ {{}} : SetBusinessHours(h, l, open)
        \/ AddRestaurantImage(h, l)
        \/ \E order \in Orders(Gallery(l)) : ReorderRestaurantImages(h, l, order)

Next ==
    \/ Statement
    \/ \E h \in Handlers :
        \/ Request(h) \/ InsertRestaurant(h) \/ DeleteAssignments(h)
        \/ CommitAssignments(h) \/ CascadeCategory(h) \/ DeleteHours(h)
        \/ CommitHours(h) \/ InsertImage(h) \/ ReorderImages(h)
    \/ Restart /\ UNCHANGED pages

Spec == Init /\ [][Next]_vars

-----------------------------------------------------------------------------
(* Properties.                                                             *)

\* However two saves of a week overlap, every listing has the whole week of one
\* of them, although each deletes before it adds.  One request at a time a
\* listing is never without a category, and neither the owner nor a gallery has
\* more than is allowed.
ListingIsWhole ==
    /\ \A l \in Rows(listings) : hours[l] # {} =>
        /\ {row.day : row \in hours[l]} = Days
        /\ Cardinality({row.save : row \in hours[l]}) = 1
    /\ overlapped \/
        /\ \A l \in Rows(listings) :
            /\ listings[l].categories # {}
            /\ Cardinality(Gallery(l)) <= MAX_IMAGES_PER_RESTAURANT
        /\ Cardinality(Kept) <= MAX_RESTAURANTS_PER_OWNER

-----------------------------------------------------------------------------
(* Claims that do not hold, the first of one request at a time.            *)

\* "New images land at the end of the gallery": at the place of the count, which
\* after a deletion is one that another has.
LandsAtTheEnd ==
    [][\A l \in Rows(listings), i \in DOMAIN images :
        images[i] = UNUSED /\ images'[i] # UNUSED
            => \A j \in Gallery(l) :
                images'[i].listing = l => images[j].place < images'[i].place]_vars

\* "Category membership is replaced wholesale": of two that overlap, what is
\* left is what both assigned.
ReplacedWholesale ==
    [][\A h \in Handlers :
        /\ req[h].kind = "assign" /\ CommitAssignments(h) /\ listings' # listings
        => listings'[req[h].listing].categories = req[h].categories]_vars

\* A category that is assigned between the count and the delete is stripped,
\* and with it the only one a listing has.
AlwaysFound == \A l \in Rows(listings) : listings[l].categories # {}
=============================================================================
