----------------------------- MODULE MCPlatform -----------------------------
(***************************************************************************)
(* The bounds of the run of Platform.                                      *)
(***************************************************************************)
EXTENDS Platform, TLC

\* One dish of each of two kitchens.
MCKitchenOf == "karahi" :> "grill" @@ "cake" :> "bakery"

\* Three of the statuses of an order.
MCJourney == <<"PLACED", "CONFIRMED", "DELIVERED">>

Interchangeable == Permutations(Handlers) \cup Permutations(Kitchens)

-----------------------------------------------------------------------------
(* The bound of each part.                                                 *)

\* What is claimed of one request at a time is explored no further than the
\* first overlap.
SerialBound == part \in {"riders", "sessions", "campaigns"} => ~ overlapped

\* Of codes, only the texts are explored beyond it.
CodesBound == overlapped => \A c \in 1 .. LastCode : tried[c] = 0 /\ accepted[c] = 0

\* Beyond it, baskets are delivered by any rider.
BasketsBound ==
    part = "baskets" /\ overlapped =>
        \A c \in Customers : carts[c] # NULL => ~ carts[c].pickup /\ ~ carts[c].rider

\* Two dishes of one section, corrected in bulk, or one with another section to
\* move to; beyond it, one dish at a time, and nothing once both requests are
\* answered.
MenusBound ==
    part = "menus" =>
        /\ Cardinality(M!Rows(sections)) + Cardinality(M!Rows(dishes)) <= 3
        /\ Cardinality(M!Rows(dishes)) > 1 => \A h \in Handlers : req[h].kind # "update"
        /\ overlapped =>
            /\ \E h \in Handlers : req[h] # Idle
            /\ Cardinality(M!Rows(dishes)) <= 1 /\ \A h \in Handlers : req[h].kind # "bulk"

\* Variants or a group, which have no step in common.
OptionsBound ==
    part = "options" =>
        \/ \A v \in 1 .. LastVariant : variants[v] = UNUSED
        \/ group = NULL /\ \A o \in 1 .. LastOption : options[o] = UNUSED

\* One at a time: images, a second save of the hours, or a category or a
\* listing beyond the first; and of a second listing, its registration only.
ListingsBound ==
    LET others == retired # {} \/ listings[2] # UNUSED \/ Cardinality(categories) > 1
    IN  part = "listings" =>
            /\ ~ (images[1] # UNUSED /\ saves > 0)
            /\ others => images[1] = UNUSED /\ saves = 0
            /\ listings[2] # UNUSED => \A h \in Handlers : req[h].kind \in {"idle", "register"}

\* A coupon or a banner; of a coupon, its limits or its worth may vary; one
\* that is hidden, or corrected by two, is not redeemed; and two corrections
\* are of one code.
Unlimited(c) == {c.usageLimit, c.perUserLimit} \subseteq {NULL, KEEP}
Worth(c) == c.type = "PERCENTAGE" /\ c.covered # TRUE /\ c.code = "A"

OffersBound ==
    LET rows == {coupons[c] : c \in D!Rows(coupons)}
        sent == {req[h].dto : h \in {g \in Handlers : req[g].kind = "create"}}
                    \cup {req[h].with : h \in {g \in Handlers : req[g].kind = "update"}}
    IN  part = "offers" =>
            /\ D!Rows(banners) # {} => rows = {} /\ \A h \in Handlers : req[h].kind # "create"
            /\ \/ \A c \in rows \cup sent : Unlimited(c)
               \/ \A c \in rows \cup sent : Worth(c)
            /\ \A c \in rows :
                /\ ~ c.isActive \/ (overlapped /\ sent # {}) => c.usageCount = 0
                /\ ~ c.isActive => Unlimited(c) /\ ~ overlapped
            /\ overlapped => \A c \in rows \cup sent : c.code = "A"

\* One token turned out dead, two announcements owed; preferences and notices
\* are changed with no device and no overlap; two tokens at the first event only;
\* after an overlap and two events, what is being sent is sent to its end;
\* a third event of one user, one request at a time; up to the first event, a
\* living token that is found gone, and one without a device id, whose pushes
\* are delivered, one request at a time.
NoticesBound ==
    part = "notices" =>
        /\ Cardinality(dead) <= 1 /\ Cardinality(owed) <= 2
        /\ \/ N!Rows = {} /\ ~ overlapped
           \/ /\ \A u \in Recipients : preferences[u] = N!DEFAULT_CHANNELS
              /\ \A n \in 1 .. LastNotice :
                    inbox[n] \in {UNUSED} \cup [user : Recipients, isRead : {FALSE}]
        /\ events > 1 => Cardinality(N!Rows) <= 1
        /\ overlapped => dead = {} /\ (events > 0 => \E h \in Handlers : req[h] # Idle)
        /\ overlapped /\ events > 0 => Cardinality(N!Rows) <= 1
        /\ overlapped /\ events > 1 => owed = {}
        /\ N!Rows \cap Anonymous # {} =>
            /\ ~ overlapped /\ events <= 1 /\ dead = {}
            /\ \A t \in Anonymous : failed[t] = 0
        /\ \A h \in Handlers : req[h].kind = "push" =>
                req[h].gone \subseteq dead \/ events <= 1
        /\ events > 2 =>
            /\ ~ overlapped /\ dead = {} /\ N!Rows # {} /\ Cardinality(owed) <= 1
            /\ Cardinality({inbox[n] : n \in 1 .. LastNotice} \ {UNUSED}) = 1

\* One connection at a time, the second of them to an order nobody ever carried;
\* after an overlap, one rider and no position; and one snapshot that could not
\* be read, of an order nobody carries.
LiveBound ==
    part = "live" =>
        /\ Cardinality(L!Open) <= 1
        /\ overlapped => shown = {} /\ Cardinality(carried) <= 1
        /\ \A s \in L!Open :
                LET lost == {v \in heard[s] : v < 0}
                IN  lost # {} => Cardinality(lost) = 1 /\ carried = {} /\ s = 1
        /\ sockets[2] # UNUSED => carried = {}

Bound ==
    /\ SerialBound /\ CodesBound /\ BasketsBound /\ MenusBound /\ OptionsBound
    /\ ListingsBound /\ OffersBound /\ NoticesBound /\ LiveBound
=============================================================================
