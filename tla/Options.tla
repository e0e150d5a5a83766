------------------------------ MODULE Options ------------------------------
(***************************************************************************)
(* The variants and the option groups of one dish, of which a customer     *)
(* chooses when he adds it to his basket.                                  *)
(*                                                                         *)
(* No index makes the default variant unique, and only the range of a      *)
(* group is checked by its table: the rest is what the use cases look at   *)
(* before they write.                                                      *)
(***************************************************************************)
EXTENDS FiniteSets, Integers, Requests

CONSTANTS
    NULL,           \* no group; nothing asked; and a row that is gone
    KEEP,           \* a field that a patch does not mention
    UNUSED,         \* an id not used yet
    LastVariant, MAX_VARIANTS_PER_ITEM,
    LastOption, MAX_ADDONS_PER_GROUP,
    LastSelect

VARIABLES
    variants, group, options,
    plain           \* history: the first variant was asked not to be the default

choices == <<variants, group, options, plain>>
vars == <<choices, req, overlapped>>

-----------------------------------------------------------------------------
Rows(table) == {i \in DOMAIN table : table[i] \notin {UNUSED, NULL}}

Fresh(table) ==
    {i \in DOMAIN table : table[i] = UNUSED /\ \A j \in 1 .. i - 1 : table[j] # UNUSED}

Groups == [isRequired : BOOLEAN, minSelect : 0 .. LastSelect, maxSelect : 1 .. LastSelect]

\* A variant's row is whether it is the default; an option's, its group.
Init ==
    /\ variants = [v \in 1 .. LastVariant |-> UNUSED]
    /\ group = NULL
    /\ options = [o \in 1 .. LastOption |-> UNUSED]
    /\ plain = FALSE
    /\ NoRequests

Start(h, r) == Begin(h, r) /\ UNCHANGED choices

-----------------------------------------------------------------------------
(* Variants.                                                               *)

\* asked is what the request says of the default, NULL if nothing.
CreateVariant(h, asked) ==
    /\ Cardinality(Rows(variants)) < MAX_VARIANTS_PER_ITEM
    /\ LET isFirst == Rows(variants) = {}
       IN  Start(h, [kind |-> "create", isFirst |-> isFirst,
                     isDefault |-> IF asked = NULL THEN isFirst ELSE asked])

InsertVariant(h) ==
    /\ req[h].kind = "create"
    /\ \E v \in Fresh(variants) :
        /\ variants' = [variants EXCEPT ![v] = req[h].isDefault]
        /\ Continue(h, IF req[h].isDefault THEN [kind |-> "promote", variant |-> v] ELSE Idle)
    /\ plain' = IF req[h].isFirst THEN ~ req[h].isDefault ELSE plain
    /\ UNCHANGED <<group, options>>

\* The correction is written before the promotion, and tells nothing here.
UpdateVariant(h, v) ==
    /\ v \in Rows(variants) /\ ~ variants[v]
    /\ Start(h, [kind |-> "promote", variant |-> v])

\* One transaction, rolled back if the variant is gone.
SetDefaultVariant(h) ==
    /\ req[h].kind = "promote"
    /\ variants' = IF req[h].variant \in Rows(variants)
                   THEN [v \in DOMAIN variants |->
                            IF v \in Rows(variants) THEN v = req[h].variant ELSE variants[v]]
                   ELSE variants
    /\ Finish(h)
    /\ UNCHANGED <<group, options, plain>>

\* Faulty variant: the default may be removed beside others.
AnyRemovable(v) == TRUE

\* "Set another variant as the default before removing this one."
Removable(v) == variants[v] => Rows(variants) = {v}

RemoveVariant(h, v) ==
    /\ v \in Rows(variants)
    /\ Removable(v)
    /\ Start(h, [kind |-> "remove", variant |-> v])

DeleteVariant(h) ==
    /\ req[h].kind = "remove"
    /\ variants' = [variants EXCEPT ![req[h].variant] = NULL]
    /\ Finish(h)
    /\ UNCHANGED <<group, options, plain>>

-----------------------------------------------------------------------------
(* The option group.                                                       *)

assertSelectionRules(g) ==
    /\ g.minSelect <= g.maxSelect
    /\ g.isRequired => g.minSelect >= 1

CreateGroup(g) ==
    /\ group = NULL
    /\ assertSelectionRules(g)
    /\ group' = g

Patches ==
    [isRequired : BOOLEAN \cup {KEEP}, minSelect : (0 .. LastSelect) \cup {KEEP},
     maxSelect : (1 .. LastSelect) \cup {KEEP}]

Patched(g, p) == [f \in DOMAIN g |-> IF p[f] = KEEP THEN g[f] ELSE p[f]]

\* What the request leaves out is taken from the row as it is read.
UpdateGroup(h, p) ==
    /\ group # NULL
    /\ assertSelectionRules(Patched(group, p))
    /\ Start(h, [kind |-> "group", patch |-> p])

\* Faulty variant: the table has no check of its own.
AnyRange(g) == TRUE

\* add_on_groups_select_range.
SelectRange(g) == g.minSelect <= g.maxSelect

WriteGroup(h) ==
    /\ req[h].kind = "group"
    /\ LET g == Patched(group, req[h].patch)
       IN  group' = IF group = NULL THEN NULL ELSE IF SelectRange(g) THEN g ELSE group
    /\ Finish(h)
    /\ UNCHANGED <<variants, options, plain>>

RemoveGroup ==
    /\ group # NULL
    /\ group' = NULL
    /\ options' = [o \in DOMAIN options |-> IF o \in Rows(options) THEN NULL ELSE options[o]]

CreateAddOn(h) ==
    /\ group # NULL
    /\ Cardinality(Rows(options)) < MAX_ADDONS_PER_GROUP
    /\ Start(h, [kind |-> "option"])

InsertAddOn(h) ==
    /\ req[h].kind = "option"
    /\ \E o \in Fresh(options) :
        options' = IF group # NULL THEN [options EXCEPT ![o] = "offered"] ELSE options
    /\ Finish(h)
    /\ UNCHANGED <<variants, group, plain>>

\* "A required group with nothing left to choose would block checkout".
RemoveAddOn(h, o) ==
    /\ o \in Rows(options)
    /\ ~ (group.isRequired /\ Cardinality(Rows(options)) <= 1)
    /\ Start(h, [kind |-> "drop", option |-> o])

DeleteAddOn(h) ==
    /\ req[h].kind = "drop"
    /\ options' = [options EXCEPT ![req[h].option] = NULL]
    /\ Finish(h)
    /\ UNCHANGED <<variants, group, plain>>

-----------------------------------------------------------------------------
Statement ==
    /\ \/ \E g \in Groups : CreateGroup(g) /\ UNCHANGED options
       \/ RemoveGroup
    /\ UNCHANGED <<variants, plain, req>>
    /\ overlapped' = (overlapped \/ req # [h \in Handlers |-> Idle])

Request(h) ==
    \/ \E asked \in BOOLEAN \cup {NULL} : CreateVariant(h, asked)
    \/ \E v \in Rows(variants) : UpdateVariant(h, v) \/ RemoveVariant(h, v)
    \/ \E p \in Patches : UpdateGroup(h, p)
    \/ CreateAddOn(h)
    \/ \E o \in Rows(options) : RemoveAddOn(h, o)

Proceed(h) ==
    \/ InsertVariant(h) \/ SetDefaultVariant(h) \/ DeleteVariant(h)
    \/ WriteGroup(h) \/ InsertAddOn(h) \/ DeleteAddOn(h)

Next ==
    \/ Statement
    \/ \E h \in Handlers : Request(h) \/ Proceed(h)
    \/ Restart /\ UNCHANGED choices

Spec == Init /\ [][Next]_vars

-----------------------------------------------------------------------------
(* Properties.                                                             *)

Defaults == {v \in Rows(variants) : variants[v]}

Satisfiable ==
    /\ group # NULL => group.minSelect <= group.maxSelect
    /\ ~ overlapped =>
        /\ Rows(variants) # {} /\ ~ plain => Defaults # {}
        /\ group # NULL /\ group.isRequired => group.minSelect >= 1

NeverEmptied ==
    \/ overlapped'
    \/ group = NULL \/ group' = NULL
    \/ ~ group.isRequired \/ Rows(options) = {} \/ Rows(options)' # {}

\* "Selection rules must be satisfiable, or checkout can never be completed":
\* a group never asks for more than it allows, whatever requests overlap.  One
\* request at a time, even if one of them dies half way, a dish with variants
\* has one preselected unless its first was asked not to be, a required group
\* asks for something, and one that had options keeps one.
DishIsOrderable == []Satisfiable /\ [][NeverEmptied]_vars

-----------------------------------------------------------------------------
(* Claims that do not hold.                                                *)

\* "The one default rule lives in a single place and demotion is atomic": a
\* new default is inserted beside the old one, and demotes it later or never.
OneDefaultVariant == (\A h \in Handlers : req[h] = Idle) => Cardinality(Defaults) <= 1

\* A required group can always be satisfied: it is created without options,
\* and one that is emptied while optional may be required again.
RequiredHasOptions == group # NULL /\ group.isRequired => Rows(options) # {}
=============================================================================
