------------------------------ MODULE Platform ------------------------------
(***************************************************************************)
(* The parts of the platform that share no table with another.  A          *)
(* behaviour is of one of them; the tables of the others stay as they are  *)
(* at first, and so do the properties of those.                            *)
(***************************************************************************)
EXTENDS FiniteSets, Integers, Requests

CONSTANTS
    NULL, UNUSED, KEEP,
    Accounts, Cnics, REQUIRED_DOCUMENTS, REGISTRABLE_VEHICLE_DOCUMENTS, LastFile,
    Users, SessionIds, LastToken,
    OTP_MAX_ATTEMPTS, OTP_DAILY_LIMIT, LastCode, LastDay, LastTry, LastSend,
    AddressIds, MAX_ADDRESSES_PER_USER,
    Customers, Dishes, KitchenOf, MAX_LINES_PER_CART, usageLimit, perUserLimit,
    LastCart, LastLine, LastQuantity,
    Broadcasts, LastRecipient, InboxOn, PushOn, LastPhone, broadcastBatchSize,
    Kitchens, LastMenu, LastSection, LastDish, Prices, Offers,
    LastVariant, MAX_VARIANTS_PER_ITEM, LastOption, MAX_ADDONS_PER_GROUP, LastSelect,
    Categories, Days, MAX_RESTAURANTS_PER_OWNER, MAX_IMAGES_PER_RESTAURANT,
    LastListing, LastImage, LastSave,
    DAYS, HOURS,
    Codes, Limits, Dates, LastCoupon, LastBanner, LastRedemption,
    Agents, LastTicket,
    Recipients, Tokens, Anonymous, maxPushFailures, LastEvent, LastNotice,
    Watchers, Couriers, Journey, LastSocket

ASSUME PlatformAssumption ==
    /\ IsFiniteSet(Handlers)
    /\ REQUIRED_DOCUMENTS # {}
    /\ {LastFile, LastToken, LastCode, LastDay, LastTry, LastSend, LastCart, LastLine,
        LastQuantity, LastRecipient, LastPhone, LastMenu, LastSection, LastDish, LastVariant,
        LastOption, LastListing, LastImage, LastSave, LastCoupon, LastBanner, LastRedemption,
        LastTicket, LastEvent, LastNotice, LastSocket} \subseteq Nat
    /\ {OTP_MAX_ATTEMPTS, OTP_DAILY_LIMIT, MAX_ADDRESSES_PER_USER, MAX_LINES_PER_CART,
        usageLimit, perUserLimit, broadcastBatchSize, MAX_VARIANTS_PER_ITEM,
        MAX_ADDONS_PER_GROUP, LastSelect, MAX_RESTAURANTS_PER_OWNER,
        MAX_IMAGES_PER_RESTAURANT, maxPushFailures, DAYS, HOURS} \subseteq Nat \ {0}
    /\ Prices \cup Offers \cup Limits \cup Dates \subseteq Nat
    /\ DOMAIN KitchenOf = Dishes
    /\ NULL \notin 1 .. LastCart
    /\ NULL # UNUSED /\ KEEP \notin {NULL, UNUSED}
    /\ Watchers \cap Couriers = {} /\ {NULL, UNUSED} \cap (Watchers \cup Couriers) = {}

\* NULL and UNUSED are no rows, NULL is no value of a column, and KEEP is none
\* either: a request that says so leaves it out.
ASSUME RowsAssumption ==
    /\ NULL \notin [user : Users, session : SessionIds, live : BOOLEAN]
    /\ {NULL, UNUSED} \cap BOOLEAN = {} /\ {NULL, UNUSED} \cap {"IN_PROGRESS", "offered"} = {}
    /\ {NULL, UNUSED} \cap
            [section : 1 .. LastSection, kitchen : Kitchens, deleted : BOOLEAN, base : Prices,
             discount : Offers \cup {NULL}] = {}
    /\ {NULL, UNUSED} \cap
            [code : Codes, type : {"PERCENTAGE", "FIXED_AMOUNT", "FREE_DELIVERY"},
             maxDiscountAmount : {1, NULL}, covered : BOOLEAN,
             usageLimit : Limits \cup {NULL}, perUserLimit : Limits \cup {NULL},
             usageCount : Nat, isActive : BOOLEAN] = {}
    /\ NULL \notin [user : Recipients, isActive : BOOLEAN, failureCount : Nat]
    /\ NULL \notin Int
    /\ KEEP \notin Limits \cup {1} /\ KEEP \notin BOOLEAN
    /\ KEEP \notin {"PERCENTAGE", "FIXED_AMOUNT", "FREE_DELIVERY"}

VARIABLES
    part,
    drivers, documents, reviewed,
    users, tokens, access, denied, ended,
    cooldown, daily, code, made, day, texts, tried, accepted,
    addresses,
    carts, cartsMade, linesMade, usageCount, redemptions, orders,
    broadcasts, audience, reached,
    menus, sections, dishes,
    variants, group, options, plain,
    listings, categories, retired, hours, saves, images,
    week, clock,
    coupons, banners,
    tickets, unanswered,
    preferences, devices, inbox, owed, events, dead, failed, inARow,
    stage, driver, sockets, state, joined, heard, carried, shown

R == INSTANCE Riders
S == INSTANCE Sessions
P == INSTANCE PhoneCodes
A == INSTANCE Addresses
B == INSTANCE Baskets
C == INSTANCE Campaigns
M == INSTANCE Menus
O == INSTANCE Options
G == INSTANCE Listings
H == INSTANCE OpeningHours
D == INSTANCE Promotions
T == INSTANCE Tickets
N == INSTANCE Notices
L == INSTANCE Live

riders == <<drivers, documents, reviewed>>
sessions == <<users, tokens, access, denied, ended>>
codes == <<cooldown, daily, code, made, day, texts, tried, accepted>>
baskets == <<carts, cartsMade, linesMade, usageCount, redemptions, orders>>
campaigns == <<broadcasts, audience, reached>>
shelf == <<menus, sections, dishes>>
choices == <<variants, group, options, plain>>
pages == <<listings, categories, retired, hours, saves, images>>
face == <<week, clock>>
offers == <<coupons, banners>>
desk == <<tickets, unanswered>>
notices == <<preferences, devices, inbox, owed, events, dead, failed, inARow>>
feed == <<stage, driver, sockets, state, joined, heard, carried, shown>>

vars == <<part, riders, sessions, codes, addresses, baskets, campaigns, shelf, choices, pages,
          face, offers, desk, notices, feed, req, overlapped>>

Parts ==
    {"riders", "sessions", "codes", "addresses", "baskets", "campaigns", "menus", "options",
     "listings", "hours", "offers", "tickets", "notices", "live"}

Init ==
    /\ part \in Parts
    /\ R!Init /\ S!Init /\ P!Init /\ A!Init /\ B!Init /\ C!Init /\ M!Init
    /\ O!Init /\ G!Init /\ H!Init /\ D!Init /\ T!Init /\ N!Init /\ L!Init

-----------------------------------------------------------------------------
\* A step of one part is no step of another.
Only(p) ==
    /\ part = p /\ UNCHANGED part
    /\ p # "riders" => UNCHANGED riders
    /\ p # "sessions" => UNCHANGED sessions
    /\ p # "codes" => UNCHANGED codes
    /\ p # "addresses" => UNCHANGED addresses
    /\ p # "baskets" => UNCHANGED baskets
    /\ p # "campaigns" => UNCHANGED campaigns
    /\ p # "menus" => UNCHANGED shelf
    /\ p # "options" => UNCHANGED choices
    /\ p # "listings" => UNCHANGED pages
    /\ p # "hours" => UNCHANGED face
    /\ p # "offers" => UNCHANGED offers
    /\ p # "tickets" => UNCHANGED desk
    /\ p # "notices" => UNCHANGED notices
    /\ p # "live" => UNCHANGED feed

RidersStep == Only("riders") /\ R!Next

SessionsStep == Only("sessions") /\ S!Next

CodesStep == Only("codes") /\ P!Next

AddressesStep == Only("addresses") /\ A!Next

BasketsStep == Only("baskets") /\ B!Next

CampaignsStep == Only("campaigns") /\ C!Next

MenusStep == Only("menus") /\ M!Next

OptionsStep == Only("options") /\ O!Next

ListingsStep == Only("listings") /\ G!Next

HoursStep == Only("hours") /\ H!Next /\ UNCHANGED <<req, overlapped>>

OffersStep == Only("offers") /\ D!Next

TicketsStep == Only("tickets") /\ T!Next

NoticesStep == Only("notices") /\ N!Next

LiveStep == Only("live") /\ L!Next

Next ==
    \/ RidersStep \/ SessionsStep \/ CodesStep \/ AddressesStep \/ BasketsStep
    \/ CampaignsStep \/ MenusStep \/ OptionsStep \/ ListingsStep \/ HoursStep
    \/ OffersStep \/ TicketsStep \/ NoticesStep \/ LiveStep

Spec == Init /\ [][Next]_vars

-----------------------------------------------------------------------------
(* Properties: those of the parts, stated where each of them is defined, of *)
(* the behaviours of each part.                                            *)

\* Riders: approved and reinstated riders have every paper, in the file that
\* was verified, and nobody else is on the map.
OnTheRoadIsVetted ==
    [](part = "riders" => R!OthersAreOffline) /\ [][part = "riders" => R!VettedFirst]_vars

\* Sessions: a session whose tokens were revoked mints no further one, and one
\* that was denied as well opens no door, one request at a time.
SignedOutStaysOut == part = "sessions" => S!SignedOutStaysOut

\* PhoneCodes: no day's counter pays for more texts than the limit, and no
\* code is tried more often than its attempts, tries one at a time.
CodesWithinLimits == part = "codes" => P!TextsWithinLimit /\ P!TriesWithinLimit

\* Addresses: one default at most, lost with its own address only.
OneDefault ==
    [](part = "addresses" => A!AtMostOne) /\ [][part = "addresses" => A!KeptWithItsAddress]_vars

\* Baskets: no basket and no order has dishes of two kitchens, and no customer
\* redeems a coupon more often than he may.
BasketsAreFair == part = "baskets" => B!OneKitchenPerBasket /\ B!CouponWithinUser

\* Campaigns: a campaign reaches nobody twice.
NobodyTwice == part = "campaigns" => C!NobodyTwice

\* Menus: a dish is in a section of its own kitchen and its offer is no dearer
\* than its price.
MenuStands ==
    [](part = "menus" => M!InPlace) /\ [][part = "menus" => M!ServedStay]_vars

\* Options: a dish with variants has one preselected, and what a group of
\* options asks for can be given.
DishIsOrderable ==
    [](part = "options" => O!Satisfiable) /\ [][part = "options" => O!NeverEmptied]_vars

\* Listings: a listing has one whole week, and a category to be found in.
ListingIsWhole == part = "listings" => G!ListingIsWhole

\* OpeningHours: a closed listing opens when the app says, and no sooner.
OpensWhenSaid == part = "hours" => H!OpensWhenSaid

\* Promotions: coupons stay coherent, and keep what was promised with them.
OffersHold ==
    [](part = "offers" => D!Coherent) /\ [][part = "offers" => D!PromiseKept]_vars

\* Tickets: what a customer wrote last is somebody's job until it is answered.
CustomerIsHeard ==
    [](part = "tickets" => T!UnansweredIsWorked) /\ [][part = "tickets" => T!ClosedStays]_vars

\* Notices: a phone's token is given up only for its own failures.
PushReachesItsUser ==
    [](part = "notices" => N!OneTokenEach) /\ [][part = "notices" => N!SendsAndGivesUp]_vars

\* Live: who watches an order knows its present status, and watches his own.
WatchersAreServed == part = "live" => L!WatchersCatchUp /\ L!OwnOrdersOnly
=============================================================================
