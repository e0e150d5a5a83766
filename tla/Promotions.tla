----------------------------- MODULE Promotions -----------------------------
(***************************************************************************)
(* Coupons and banners as staff write them.  A coupon is corrected while   *)
(* orders redeem it: what the correction is checked against was read       *)
(* before, and the rows have few checks of their own.                      *)
(*                                                                         *)
(* A coupon's worth is left out but for whether the least order covers it; *)
(* its window, which every request has in full, and a banner's picture and *)
(* place are left out.                                                     *)
(***************************************************************************)
EXTENDS Integers, Requests

CONSTANTS
    NULL,           \* unlimited, no ceiling; no date; and a row that is gone
    UNUSED, KEEP,
    Codes,
    Limits,         \* how often a coupon may be redeemed
    Dates,          \* of a banner
    LastCoupon, LastBanner,
    LastRedemption  \* bound: orders that redeem one coupon

VARIABLES
    coupons, banners

offers == <<coupons, banners>>
vars == <<offers, req, overlapped>>

-----------------------------------------------------------------------------
Rows(table) == {i \in DOMAIN table : table[i] \notin {UNUSED, NULL}}

Fresh(table) ==
    {i \in DOMAIN table : table[i] = UNUSED /\ \A j \in 1 .. i - 1 : table[j] # UNUSED}

Init ==
    /\ coupons = [c \in 1 .. LastCoupon |-> UNUSED]
    /\ banners = [b \in 1 .. LastBanner |-> UNUSED]
    /\ NoRequests

Taken(code) == \E c \in Rows(coupons) : coupons[c].code = code

Start(h, r) == Begin(h, r) /\ UNCHANGED offers

-----------------------------------------------------------------------------
(* CouponRules: a percentage has a ceiling, a fixed amount is within the   *)
(* least order where one is given, and the limits are in order.            *)

Types == {"PERCENTAGE", "FIXED_AMOUNT", "FREE_DELIVERY"}

assertValue(coupon) ==
    /\ coupon.type = "PERCENTAGE" => coupon.maxDiscountAmount # NULL
    /\ coupon.type = "FIXED_AMOUNT" => coupon.covered # FALSE

assertLimits(coupon) ==
    NULL \notin {coupon.usageLimit, coupon.perUserLimit}
        => coupon.perUserLimit <= coupon.usageLimit

assertValid(coupon) == assertValue(coupon) /\ assertLimits(coupon)

\* What a request may say of a coupon; an update that leaves a field out keeps
\* it, a creation has none.  One that sets the worth and the limits does what two
\* do in turn.
Sent ==
    [code : Codes, type : Types, maxDiscountAmount : {1, KEEP}, covered : BOOLEAN \cup {KEEP},
     usageLimit : {KEEP}, perUserLimit : {KEEP}]
    \cup
    [code : Codes, type : {"PERCENTAGE"}, maxDiscountAmount : {1}, covered : {KEEP},
     usageLimit : Limits \cup {KEEP}, perUserLimit : Limits \cup {KEEP}]

Or(new, old) == IF new = KEEP THEN old ELSE new

-----------------------------------------------------------------------------
(* Coupons.                                                                *)

\* The least order is not looked at when it is left out, and is then nothing.
CreateCoupon(h, dto) ==
    /\ ~ Taken(dto.code)
    /\ assertValid([dto EXCEPT !.maxDiscountAmount = Or(@, NULL),
                               !.usageLimit = Or(@, NULL), !.perUserLimit = Or(@, NULL)])
    /\ Start(h, [kind |-> "create", dto |-> dto])

InsertCoupon(h) ==
    /\ req[h].kind = "create"
    /\ LET dto == req[h].dto
       IN  IF Taken(dto.code) THEN UNCHANGED coupons
           ELSE \E c \in Fresh(coupons) :
                coupons' = [coupons EXCEPT ![c] =
                    [code |-> dto.code, type |-> dto.type,
                     maxDiscountAmount |-> Or(dto.maxDiscountAmount, NULL),
                     covered |-> Or(dto.covered, FALSE),
                     usageLimit |-> Or(dto.usageLimit, NULL),
                     perUserLimit |-> Or(dto.perUserLimit, NULL),
                     usageCount |-> 0, isActive |-> TRUE]]
    /\ Finish(h)
    /\ UNCHANGED banners

Merged(coupon, dto) ==
    [code |-> dto.code, type |-> dto.type,
     maxDiscountAmount |-> Or(dto.maxDiscountAmount, coupon.maxDiscountAmount),
     covered |-> Or(dto.covered, coupon.covered),
     usageLimit |-> Or(dto.usageLimit, coupon.usageLimit),
     perUserLimit |-> Or(dto.perUserLimit, coupon.perUserLimit)]

\* Faulty variant: what was checked is the merged coupon, what is written the
\* request.
WrittenAsSent(coupon, dto) == dto

\* The merged coupon is both checked and written.
Written(coupon, dto) == Merged(coupon, dto)

\* The row and the count of its redemptions are two reads: one that lands
\* between them only refuses what would have been allowed.
UpdateCoupon(h, c, dto) ==
    LET existing == coupons[c]
        merged == Merged(existing, dto)
    IN  /\ dto.code # existing.code => existing.usageCount = 0
        /\ assertValid(merged)
        /\ merged.usageLimit # NULL => merged.usageLimit >= existing.usageCount
        /\ Start(h, [kind |-> "update", coupon |-> c, with |-> Written(existing, dto)])

\* No two coupons have one code.
WriteCoupon(h) ==
    /\ req[h].kind = "update"
    /\ LET c == req[h].coupon
           with == req[h].with
           clash == \E d \in Rows(coupons) \ {c} : coupons[d].code = with.code
       IN  coupons' = IF c \notin Rows(coupons) \/ clash THEN coupons
                      ELSE [coupons EXCEPT ![c] =
                        [f \in DOMAIN @ |->
                            IF f \in DOMAIN with THEN Or(with[f], @[f]) ELSE @[f]]]
    /\ Finish(h)
    /\ UNCHANGED banners

SetCouponActive(c, isActive) == coupons' = [coupons EXCEPT ![c].isActive = isActive]

DeleteCoupon(h, c) ==
    /\ coupons[c].usageCount = 0
    /\ Start(h, [kind |-> "delete", coupon |-> c])

\* Its redemptions are deleted with it, and orders forget it.
RemoveCoupon(h) ==
    /\ req[h].kind = "delete"
    /\ coupons' = [coupons EXCEPT ![req[h].coupon] = NULL]
    /\ Finish(h)
    /\ UNCHANGED banners

\* An order is placed with a coupon that its basket was given before: neither
\* the limits nor the switch are looked at again.  The count and the row of the
\* redemption are one transaction.
Redeem(c) ==
    /\ coupons[c].usageCount < LastRedemption
    /\ coupons' = [coupons EXCEPT ![c].usageCount = @ + 1]

-----------------------------------------------------------------------------
(* Banners.                                                                *)

assertWindow(startsAt, endsAt) == NULL \notin {startsAt, endsAt} => startsAt < endsAt

CreateBanner(startsAt, endsAt) ==
    \E b \in Fresh(banners) :
        /\ assertWindow(startsAt, endsAt)
        /\ banners' = [banners EXCEPT ![b] = [startsAt |-> startsAt, endsAt |-> endsAt]]

UpdateBanner(h, b, startsAt, endsAt) ==
    /\ assertWindow(Or(startsAt, banners[b].startsAt), Or(endsAt, banners[b].endsAt))
    /\ Start(h, [kind |-> "banner", banner |-> b, startsAt |-> startsAt, endsAt |-> endsAt])

\* Of a banner, only what the request says is written.
WriteBanner(h) ==
    /\ req[h].kind = "banner"
    /\ LET r == req[h]
       IN  banners' = IF r.banner \notin Rows(banners) THEN banners
                      ELSE [banners EXCEPT ![r.banner] =
                        [startsAt |-> Or(r.startsAt, @.startsAt),
                         endsAt |-> Or(r.endsAt, @.endsAt)]]
    /\ Finish(h)
    /\ UNCHANGED coupons

DeleteBanner(b) == banners' = [banners EXCEPT ![b] = NULL]

-----------------------------------------------------------------------------
Statement ==
    /\ \/ /\ \E c \in Rows(coupons) :
                Redeem(c) \/ \E isActive \in BOOLEAN : SetCouponActive(c, isActive)
          /\ UNCHANGED banners
       \/ /\ \/ \E startsAt, endsAt \in Dates \cup {NULL} : CreateBanner(startsAt, endsAt)
             \/ \E b \in Rows(banners) : DeleteBanner(b)
          /\ UNCHANGED coupons
    /\ UNCHANGED req
    /\ overlapped' = (overlapped \/ \E h \in Handlers : req[h] # Idle)

Request(h) ==
    \/ \E dto \in Sent :
        CreateCoupon(h, dto) \/ \E c \in Rows(coupons) : UpdateCoupon(h, c, dto)
    \/ \E c \in Rows(coupons) : DeleteCoupon(h, c)
    \/ \E b \in Rows(banners), startsAt, endsAt \in Dates \cup {KEEP} :
        UpdateBanner(h, b, startsAt, endsAt)

Next ==
    \/ Statement
    \/ \E h \in Handlers :
        \/ Request(h) \/ InsertCoupon(h) \/ WriteCoupon(h) \/ RemoveCoupon(h)
        \/ WriteBanner(h)
    \/ Restart /\ UNCHANGED offers

Spec == Init /\ [][Next]_vars

-----------------------------------------------------------------------------
(* Properties.                                                             *)

Coherent ==
    /\ \A c \in Rows(coupons) :
        /\ coupons[c].type = "PERCENTAGE" => coupons[c].maxDiscountAmount # NULL
        /\ assertLimits(coupons[c])
    /\ \/ overlapped
       \/ \A b \in Rows(banners) : assertWindow(banners[b].startsAt, banners[b].endsAt)

PromiseKept ==
    \/ overlapped'
    \/ \A c \in Rows(coupons) :
        coupons[c].usageCount > 0
            => /\ c \in Rows(coupons)'
               /\ coupons'[c].code = coupons[c].code
               /\ \/ coupons'[c].usageLimit \in {coupons[c].usageLimit, NULL}
                  \/ coupons'[c].usageLimit >= coupons[c].usageCount

\* However corrections overlap, a percentage has its ceiling and no customer is
\* promised more than everybody together, since what was checked is written in
\* full.  One request at a time, a coupon that was redeemed is neither deleted
\* nor renamed, its limit does not fall below its use, and a banner ends after
\* it starts.
OffersHold == []Coherent /\ [][PromiseKept]_vars

-----------------------------------------------------------------------------
(* Claims that do not hold, the first of one request at a time.            *)

\* "A fixed discount cannot exceed the minimum order it applies to": one that is
\* created without a minimum is not compared with the nothing that is stored.
FixedWithinMinimum ==
    \A c \in Rows(coupons) : coupons[c].type = "FIXED_AMOUNT" => coupons[c].covered

\* "Orders reference it, and deleting it would rewrite the discount out of a
\* customer's receipt": an order placed after the count loses its redemption.
RedeemedStays ==
    [][\A c \in Rows(coupons) : coupons[c].usageCount > 0 => c \in Rows(coupons)']_vars

\* "A banner must stop showing after it starts": two corrections may each have
\* been right about the other's date.
BannerEnds == \A b \in Rows(banners) : assertWindow(banners[b].startsAt, banners[b].endsAt)
=============================================================================
