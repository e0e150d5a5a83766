------------------------------- MODULE Menus -------------------------------
(***************************************************************************)
(* What the kitchens sell: menus of sections of dishes, and the dishes     *)
(* that past order lines still refer to.                                   *)
(*                                                                         *)
(* Ids are not used twice, and a menu never changes its kitchen nor a      *)
(* section its menu, so a request that only needs them to exist is one     *)
(* step: the foreign key repeats its look.  Names, opening times, pictures,*)
(* the order of the sections and the stock counter are left out.           *)
(***************************************************************************)
EXTENDS FiniteSets, Integers, Requests

CONSTANTS
    NULL,           \* no discount; and a row that is gone
    UNUSED,         \* an id not used yet
    KEEP,           \* a field that a patch does not mention
    Kitchens,
    LastMenu, LastSection, LastDish,
    Prices, Offers  \* of dishes, and discounted

VARIABLES
    menus, sections, dishes

shelf == <<menus, sections, dishes>>
vars == <<shelf, req, overlapped>>

-----------------------------------------------------------------------------
Rows(table) == {i \in DOMAIN table : table[i] \notin {UNUSED, NULL}}

Fresh(table) ==
    {i \in DOMAIN table : table[i] = UNUSED /\ \A j \in 1 .. i - 1 : table[j] # UNUSED}

Init ==
    /\ menus = [m \in 1 .. LastMenu |-> UNUSED]
    /\ sections = [s \in 1 .. LastSection |-> UNUSED]
    /\ dishes = [d \in 1 .. LastDish |-> UNUSED]
    /\ NoRequests

KitchenOfSection(s) == menus[sections[s]]

DishesOf(gone) == {d \in Rows(dishes) : dishes[d].section \in gone}

Served(ds) == {d \in ds : ~ dishes[d].deleted}

SectionsOf(m) == {s \in Rows(sections) : sections[s] = m}

\* A discount "above the base price would quietly raise the price instead".
PricedRight(base, discount) == discount # NULL => discount <= base

Start(h, r) == Begin(h, r) /\ UNCHANGED shelf

-----------------------------------------------------------------------------
(* Requests of one statement.                                              *)

CreateMenu(k) ==
    \E m \in Fresh(menus) :
        /\ menus' = [menus EXCEPT ![m] = k]
        /\ UNCHANGED <<sections, dishes>>

CreateMenuCategory(m) ==
    \E s \in Fresh(sections) :
        /\ m \in Rows(menus)
        /\ sections' = [sections EXCEPT ![s] = m]
        /\ UNCHANGED <<menus, dishes>>

\* The kitchen is copied from the menu.
CreateMenuItem(s, base, discount) ==
    \E d \in Fresh(dishes) :
        /\ s \in Rows(sections)
        /\ PricedRight(base, discount)
        /\ dishes' = [dishes EXCEPT ![d] =
                [section |-> s, kitchen |-> KitchenOfSection(s), deleted |-> FALSE,
                 base |-> base, discount |-> discount]]
        /\ UNCHANGED <<menus, sections>>

\* Soft: the row stays for the order lines that refer to it.
DeleteMenuItem(d) ==
    /\ d \in Served(Rows(dishes))
    /\ dishes' = [dishes EXCEPT ![d].deleted = TRUE]
    /\ UNCHANGED <<menus, sections>>

Statement ==
    /\ \/ \E k \in Kitchens : CreateMenu(k)
       \/ \E m \in Rows(menus) : CreateMenuCategory(m)
       \/ \E s \in Rows(sections), base \in Prices, discount \in Offers \cup {NULL} :
            CreateMenuItem(s, base, discount)
       \/ \E d \in Rows(dishes) : DeleteMenuItem(d)
    /\ UNCHANGED req
    /\ overlapped' = (overlapped \/ req # [h \in Handlers |-> Idle])

-----------------------------------------------------------------------------
(* Correcting a dish, or many of one kitchen: checked on the rows as read. *)

\* A patch of the section and one of the prices do together what they do apart.
Patches ==
    [section : {KEEP}, base : Prices \cup {KEEP}, discount : Offers \cup {NULL, KEEP}]
        \cup [section : 1 .. LastSection, base : {KEEP}, discount : {KEEP}]

Or(new, old) == IF new = KEEP THEN old ELSE new

Patched(dish, p) ==
    [dish EXCEPT !.section = Or(p.section, @), !.base = Or(p.base, @),
                 !.discount = Or(p.discount, @)]

\* Faulty variant: a dish moves to whatever section there is.
MayJoinAny(d, s) == s \in Rows(sections) \cup {KEEP}

\* "A dish can only be moved to a section of the same business."
MayJoin(d, s) ==
    s # KEEP => s \in Rows(sections) /\ KitchenOfSection(s) = dishes[d].kitchen

\* A removed dish can be corrected too.
UpdateMenuItem(h, d, p) ==
    /\ d \in Rows(dishes)
    /\ MayJoin(d, p.section)
    /\ LET dish == Patched(dishes[d], p)
       IN  PricedRight(dish.base, dish.discount)
    /\ Start(h, [kind |-> "update", dish |-> d, patch |-> p])

\* In bulk, taking an offer back is checked as if the offer stayed.
BulkUpdateItems(h, ds, p) ==
    /\ p.section = KEEP
    /\ ds # {} /\ \E k \in Kitchens : \A d \in ds : dishes[d].kitchen = k
    /\ \A d \in ds :
        PricedRight(Or(p.base, dishes[d].base),
                    IF p.discount \in {NULL, KEEP} THEN dishes[d].discount ELSE p.discount)
    /\ Start(h, [kind |-> "bulk", dishes |-> ds, patch |-> p])

\* Faulty variant: the table has no check of its own.
StoresAnyPrice(dish) == TRUE

\* menu_items_discount_below_base, at the write.
StoresPrice(dish) == PricedRight(dish.base, dish.discount)

Storable(dish) == dish.section \in Rows(sections) /\ StoresPrice(dish)

\* One update of a row that must be there, or one transaction of updates that
\* pass over the rows removed since: it lands in full or not at all.
WritePatch(h) ==
    /\ req[h].kind \in {"update", "bulk"}
    /\ LET r == req[h]
           found == IF r.kind = "update" THEN {r.dish} \cap Rows(dishes)
                    ELSE Served(r.dishes \cap Rows(dishes))
       IN  dishes' = IF \A d \in found : Storable(Patched(dishes[d], r.patch))
                     THEN [d \in DOMAIN dishes |->
                            IF d \in found THEN Patched(dishes[d], r.patch) ELSE dishes[d]]
                     ELSE dishes
    /\ Finish(h)
    /\ UNCHANGED <<menus, sections>>

-----------------------------------------------------------------------------
(* Deleting a menu or a section: counted first, then deleted with all the  *)
(* rows below it, the soft deleted among them.                             *)

\* Faulty variant: whatever the menu holds.
Whatever(ss) == TRUE

\* "This menu still contains ... item(s)."
NothingServed(ss) == Served(DishesOf(ss)) = {}

DeleteMenu(h, m) ==
    /\ m \in Rows(menus)
    /\ NothingServed(SectionsOf(m))
    /\ Start(h, [kind |-> "deleteMenu", menu |-> m])

DeleteMenuCategory(h, s) ==
    /\ s \in Rows(sections)
    /\ NothingServed({s})
    /\ Start(h, [kind |-> "deleteSection", section |-> s])

Without(table, gone) == [i \in DOMAIN table |-> IF i \in gone THEN NULL ELSE table[i]]

Cascade(h) ==
    /\ req[h].kind \in {"deleteMenu", "deleteSection"}
    /\ LET r == req[h]
           gone == IF r.kind = "deleteMenu" THEN SectionsOf(r.menu)
                   ELSE {r.section} \cap Rows(sections)
       IN  /\ menus' = IF r.kind = "deleteMenu" THEN Without(menus, {r.menu}) ELSE menus
           /\ sections' = Without(sections, gone)
           /\ dishes' = Without(dishes, DishesOf(gone))
    /\ Finish(h)

-----------------------------------------------------------------------------
Request(h) ==
    \/ \E p \in Patches :
        \/ \E d \in Rows(dishes) : UpdateMenuItem(h, d, p)
        \/ \E ds \in SUBSET Served(Rows(dishes)) : BulkUpdateItems(h, ds, p)
    \/ \E m \in Rows(menus) : DeleteMenu(h, m)
    \/ \E s \in Rows(sections) : DeleteMenuCategory(h, s)

Next ==
    \/ Statement
    \/ \E h \in Handlers : Request(h) \/ WritePatch(h) \/ Cascade(h)
    \/ Restart /\ UNCHANGED shelf

Spec == Init /\ [][Next]_vars

-----------------------------------------------------------------------------
(* Properties.                                                             *)

InPlace ==
    \A d \in Rows(dishes) :
        /\ dishes[d].section \in Rows(sections)
        /\ KitchenOfSection(dishes[d].section) = dishes[d].kitchen
        /\ PricedRight(dishes[d].base, dishes[d].discount)

ServedStay == overlapped' \/ \A d \in Served(Rows(dishes)) : d \in Rows(dishes)'

\* However the requests of a kitchen overlap, a dish is in a section of a menu
\* of its own kitchen and its offer is no dearer than its price, although both
\* are checked on rows read before; and one request at a time no dish that is
\* still served is deleted with the menu or the section it was in.
MenuStands == []InPlace /\ [][ServedStay]_vars

-----------------------------------------------------------------------------
(* A claim that does not hold.                                             *)

\* "Past order lines reference this dish and must keep resolving": the count
\* before a menu is deleted passes over removed dishes, the cascade does not.
RemovedDishResolves == [][\A d \in Rows(dishes) : d \in Rows(dishes)']_vars
=============================================================================
