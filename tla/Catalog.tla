--------------------------------- MODULE Catalog ---------------------------------
(***************************************************************************)
(* The catalog of a tenant: products with variants and SKUs, the           *)
(* attributes and options that tell variants apart, the category tree,     *)
(* brands, tags, media, and what stores charge and have.                   *)
(*                                                                         *)
(*   catalog/service.py   the operations, one transaction each             *)
(*   catalog/router.py    the endpoints                                    *)
(*   catalog/models.py    the rows and their constraints                   *)
(*   catalog/domain.py    combination keys, lifecycle                      *)
(*                                                                         *)
(* Rows carry no revision and nothing is locked: an operation that first   *)
(* looks whether it may and then writes is modelled as these two steps, so *)
(* that two of them can overlap. The others are one step.                  *)
(***************************************************************************)
EXTENDS Naturals, FiniteSets

CONSTANTS
    Products, Variants, Skus,
    Categories, Brands, Tags, Assets,
    Attributes, Options,
    AttributeOf,    \* AttributeOf[o]: the attribute that o is an option of
    Starts,         \* catalogs to start with: their rows, and what each belongs to
    Editors,        \* requests that look before they write
    None,           \* no row
    MaxChanges      \* bound: operations that are carried out

Rows ==
    Products \cup Variants \cup Skus \cup Categories \cup Brands \cup Tags
        \cup Assets \cup Attributes \cup Options

Tables == <<Products, Variants, Skus, Categories, Brands, Tags, Assets, Attributes, Options>>

ASSUME CatalogAssumption ==
    /\ \A i, j \in DOMAIN Tables : i # j => Tables[i] \cap Tables[j] = {}
    /\ AttributeOf \in [Options -> Attributes]
    /\ \A belongs \in Starts :
          /\ DOMAIN belongs \subseteq Rows
          /\ \A e \in DOMAIN belongs : belongs[e] \in DOMAIN belongs \cup {None}
          /\ \A c \in DOMAIN belongs \cap Categories : belongs[c] \in Categories \cup {None}
          /\ \A v \in DOMAIN belongs \cap Variants : belongs[v] \in Products
    /\ None \notin Rows
    /\ IsFiniteSet(Editors)
    /\ MaxChanges \in Nat

VARIABLES
    status,     \* status[e]: what has become of row e
    of,         \* of[e]: the row that e belongs to (parent, product, variant, brand)
    enabled,    \* enabled[p][a]: whether p has attribute a, and a tells its variants apart
    options,    \* options[v]: the options of variant v
    key,        \* key[v]: the options that its combination key has been made of
    joins,      \* assignments of categories, tags and media to products
    primary,    \* primary[p]: the medium that stands for p
    offers,     \* SKUs that a store has a price, or an availability, for
    editor,     \* editor[r]: what r has seen and is about to write
    changes     \* how much of MaxChanges is used up

\* At most one row for each: the tables are unique in these pairs.
Joins == Products \X (Categories \cup Tags \cup Assets)
Offers == Skus \X {"price", "availability"}

rows == <<status, of>>
matrix == <<enabled, options, key>>
shelf == <<joins, primary, offers>>
catalogVars == <<rows, matrix, shelf, editor, changes>>

--------------------------------------------------------------------------------
(* Requests                                                                *)

\* overtaken: another operation has been carried out since r began to look;
\* rewritten: one that has replaced the options of the same variant.
Call(op, on, with, chosen, keyed, writes) ==
    [op |-> op, on |-> on, with |-> with, chosen |-> chosen, keyed |-> keyed,
     writes |-> writes, cursor |-> None, next |-> None, seen |-> {},
     overtaken |-> FALSE, rewritten |-> FALSE]
NoCall == Call("idle", None, None, {}, {}, "nothing")

\* A change is still within the bound, with those that are under way.
Room == changes + Cardinality({r \in Editors : editor[r] # NoCall}) < MaxChanges

\* What the requests under way become when an operation is carried out.
Overtaken ==
    [r \in Editors |->
        IF editor[r] = NoCall THEN NoCall ELSE [editor[r] EXCEPT !.overtaken = TRUE]]

\* An operation of one step.
Apply ==
    /\ Room
    /\ changes' = changes + 1
    /\ editor' = Overtaken

\* r begins: it has looked, and found nothing in its way.
Start(r, call) ==
    /\ Room
    /\ editor[r] = NoCall
    /\ editor' = [editor EXCEPT ![r] = call]
    /\ UNCHANGED <<rows, matrix, shelf, changes>>

\* r is over, and its transaction committed.
Commit(r) ==
    /\ changes' = changes + 1
    /\ editor' = [Overtaken EXCEPT ![r] = NoCall]

\* r is over, and nothing of it has happened.
Refuse(r) ==
    /\ editor' = [editor EXCEPT ![r] = NoCall]
    /\ UNCHANGED <<rows, matrix, shelf, changes>>

Live(e) == status[e] = "live"
Unborn(e) == status[e] = "none"

\* draft, active and inactive make no difference here; a row may be archived from
\* the start.
Born == {"live", "archived"}

--------------------------------------------------------------------------------
(* Rows                                                                    *)

\* create_product(): with its default variant and SKU, or not at all.
CreateProduct(p, v, k) ==
    /\ Unborn(p) /\ Unborn(v) /\ Unborn(k)
    /\ Apply
    /\ \E s \in Born : status' = [status EXCEPT ![p] = s, ![v] = s, ![k] = s]
    /\ of' = [of EXCEPT ![v] = p, ![k] = v]
    /\ UNCHANGED <<matrix, shelf>>

\* A row of its own: create_attribute(), create_brand(), create_tag(), create_media_asset().
Create(e) ==
    /\ Unborn(e)
    /\ Apply
    /\ \E s \in Born : status' = [status EXCEPT ![e] = s]
    /\ UNCHANGED <<of, matrix, shelf>>

CreateLabel(e) == e \in Brands \cup Tags /\ Create(e)
CreateAttribute(e) == e \in Attributes /\ Create(e)
CreateAsset(e) == e \in Assets /\ Create(e)

\* create_attribute_option(): of an attribute that is not archived.
CreateOption(e) == e \in Options /\ Live(AttributeOf[e]) /\ Create(e)

\* create_category(): under a parent or at the top.
CreateCategory(c, p) ==
    /\ Unborn(c)
    /\ p # None => Live(p)
    /\ Apply
    /\ \E s \in Born : status' = [status EXCEPT ![c] = s]
    /\ of' = [of EXCEPT ![c] = p]
    /\ UNCHANGED <<matrix, shelf>>

\* create_sku().
CreateSku(k, v) ==
    /\ Unborn(k)
    /\ Live(v)
    /\ Apply
    /\ \E s \in Born : status' = [status EXCEPT ![k] = s]
    /\ of' = [of EXCEPT ![k] = v]
    /\ UNCHANGED <<matrix, shelf>>

\* An update that gives a row another status than the one it was read with.
BeginEdit(r, e) ==
    /\ Live(e)
    /\ e \notin Assets
    /\ Start(r, Call("edit", e, None, {}, {}, "update"))

\* Mutated form of Unused: what is in use may be archived.
UnusedOrNot(e) == TRUE

\* An attribute that a product has, and an option that a variant has, are in use.
Unused(e) ==
    /\ e \in Attributes => \A p \in Products : enabled[p][e] = "no"
    /\ e \in Options => \A v \in Variants : e \notin options[v]

\* Archiving, by DELETE or by the status of an update.
BeginRetire(r, e) ==
    /\ Live(e)
    /\ e \notin Assets
    /\ Unused(e)
    /\ Start(r, Call("retire", e, None, {}, {}, "update"))

\* The row is written, whatever its status is by now.
SaveStatus(r) ==
    /\ editor[r].op \in {"edit", "retire"}
    /\ status' =
          [status EXCEPT ![editor[r].on] =
              IF editor[r].op = "retire" THEN "archived" ELSE "live"]
    /\ Commit(r)
    /\ UNCHANGED <<of, matrix, shelf>>

--------------------------------------------------------------------------------
(* The category tree                                                       *)

\* update_category() with another parent: the walk up from it begins.
BeginReparent(r, c, p) ==
    /\ Live(c)
    /\ p # None => Live(p) /\ p # c
    /\ Start(r, [Call("move", c, p, {}, {}, IF p = of[c] THEN "nothing" ELSE "update")
                    EXCEPT !.cursor = p, !.next = IF p = None THEN None ELSE of[p]])

\* Mutated form of Barred: the hierarchy is not looked at.
BarredByNothing(r) == FALSE

\* Mutated form of Barred: the walk does not mind where it has been.
BarredByItself(r) == editor[r].cursor = editor[r].on

\* The walk has come to the category itself, or to one where it has been.
Barred(r) == editor[r].cursor = editor[r].on \/ editor[r].cursor \in editor[r].seen

\* One turn of the loop: the next row up is read.
Walk(r) ==
    LET c == editor[r] IN
    /\ c.op = "move"
    /\ c.cursor # None
    /\ ~Barred(r)
    /\ editor' =
          [editor EXCEPT ![r] =
              [c EXCEPT !.cursor = c.next,
                        !.next = IF c.next = None THEN None ELSE of[c.next],
                        !.seen = @ \cup {c.cursor}]]
    /\ UNCHANGED <<rows, matrix, shelf, changes>>

WalkEnds(r) ==
    /\ editor[r].op = "move"
    /\ editor[r].cursor # None
    /\ Barred(r)
    /\ Refuse(r)

\* The walk has reached the top.
SaveParent(r) ==
    LET c == editor[r] IN
    /\ c.op = "move"
    /\ c.cursor = None
    /\ of' = IF c.writes = "update" THEN [of EXCEPT ![c.on] = c.with] ELSE of
    /\ Commit(r)
    /\ UNCHANGED <<status, matrix, shelf>>

--------------------------------------------------------------------------------
(* Attributes of a product, and its variants                               *)

\* What set_product_attribute(attach=True) will do about a row it has found or not.
Write(found, mode) ==
    IF found = "no" THEN "insert" ELSE IF found = mode THEN "nothing" ELSE "update"

BeginAttach(r, p, a, mode) ==
    /\ Live(p) /\ Live(a)
    /\ Start(r, Call(mode, p, a, {}, {}, Write(enabled[p][a], mode)))

\* The INSERT fails on a row that is there by now, the UPDATE on one that is not.
SaveEnabled(r) ==
    LET c == editor[r]
        now == enabled[c.on][c.with]
    IN
    /\ c.op \in {"plain", "defining"}
    /\ IF (c.writes = "insert" /\ now # "no") \/ (c.writes = "update" /\ now = "no")
       THEN Refuse(r)
       ELSE /\ enabled' = IF c.writes = "nothing" THEN enabled
                          ELSE [enabled EXCEPT ![c.on][c.with] = c.op]
            /\ Commit(r)
            /\ UNCHANGED <<rows, options, key, shelf>>

\* set_product_attribute(attach=False): no variant of the product has an option of it.
BeginDetach(r, p, a) ==
    /\ Live(p) /\ Live(a)
    /\ enabled[p][a] # "no"
    /\ \A v \in Variants : of[v] = p => \A o \in options[v] : AttributeOf[o] # a
    /\ Start(r, Call("disable", p, a, {}, {}, "update"))

SaveDisabled(r) ==
    /\ editor[r].op = "disable"
    /\ enabled' = [enabled EXCEPT ![editor[r].on][editor[r].with] = "no"]
    /\ Commit(r)
    /\ UNCHANGED <<rows, options, key, shelf>>

\* _option_pairs(): all are there, and of attributes that the product has.
Choosable(p, chosen) ==
    \A o \in chosen : Live(o) /\ enabled[p][AttributeOf[o]] # "no"

\* canonical_combination_key() of the options that tell variants apart.
Keyed(p, chosen) == {o \in chosen : enabled[p][AttributeOf[o]] = "defining"}

\* canonical_combination_key() refuses two options of one attribute.
Canonical(keyed) ==
    \A o1, o2 \in keyed : AttributeOf[o1] = AttributeOf[o2] => o1 = o2

\* Unique constraint: a variant has one option of an attribute.
OnePerAttribute(chosen) == Canonical(chosen)

BeginVariant(r, v, p, chosen) ==
    /\ Unborn(v)
    /\ Live(p)
    /\ Choosable(p, chosen)
    /\ Canonical(Keyed(p, chosen))
    /\ Start(r, Call("variant", v, p, chosen, Keyed(p, chosen), "insert"))

\* Unique constraint: no other variant of the product has the key.
KeyFree(v, p, k) ==
    \A w \in Variants \ {v} : ~Unborn(w) /\ of[w] = p => key[w] # k

SaveVariant(r) ==
    LET c == editor[r] IN
    /\ c.op = "variant"
    /\ IF Unborn(c.on) /\ KeyFree(c.on, c.with, c.keyed) /\ OnePerAttribute(c.chosen)
       THEN /\ \E s \in Born : status' = [status EXCEPT ![c.on] = s]
            /\ of' = [of EXCEPT ![c.on] = c.with]
            /\ options' = [options EXCEPT ![c.on] = c.chosen]
            /\ key' = [key EXCEPT ![c.on] = c.keyed]
            /\ Commit(r)
            /\ UNCHANGED <<enabled, shelf>>
       ELSE Refuse(r)

\* replace_variant_options(): the DELETE of the old options is part of this step.
BeginReplace(r, v, chosen) ==
    LET keyed == Keyed(of[v], chosen) IN
    /\ Live(v)
    /\ Choosable(of[v], chosen)
    /\ Canonical(keyed)
    /\ Start(r, Call("replace", v, None, chosen, keyed,
                     IF keyed = key[v] THEN "nothing" ELSE "update"))

\* The DELETE has not seen options that another request has written since.
SaveOptions(r) ==
    LET c == editor[r]
        left == IF c.rewritten THEN options[c.on] ELSE {}
        new == IF c.writes = "update" THEN c.keyed ELSE key[c.on]
    IN
    /\ c.op = "replace"
    /\ IF /\ KeyFree(c.on, of[c.on], new)
          /\ left \cap c.chosen = {}
          /\ OnePerAttribute(left \cup c.chosen)
       THEN /\ options' = [options EXCEPT ![c.on] = left \cup c.chosen]
            /\ key' = [key EXCEPT ![c.on] = new]
            /\ changes' = changes + 1
            /\ editor' =
                  [q \in Editors |->
                      IF q = r THEN NoCall
                      ELSE IF editor[q].op = "replace" /\ editor[q].on = c.on
                           THEN [editor[q] EXCEPT !.overtaken = TRUE, !.rewritten = TRUE]
                           ELSE Overtaken[q]]
            /\ UNCHANGED <<rows, enabled, shelf>>
       ELSE Refuse(r)

--------------------------------------------------------------------------------
(* The rest: one step each                                                 *)

\* assign_brand().
AssignBrand(p, b) ==
    /\ Live(p)
    /\ b # None => Live(b)
    /\ Apply
    /\ of' = [of EXCEPT ![p] = b]
    /\ UNCHANGED <<status, matrix, shelf>>

\* _set_product_join(): a category or a tag is assigned or taken away.
Relate(p, e) ==
    /\ Live(p) /\ Live(e)
    /\ Apply
    /\ \/ joins' = joins \cup {<<p, e>>}
       \/ joins' = joins \ {<<p, e>>}
    /\ UNCHANGED <<rows, matrix, primary, offers>>

\* attach_media(): another primary medium takes the place of the one before.
AttachMedia(p, m) ==
    /\ Live(p) /\ Live(m)
    /\ <<p, m>> \notin joins
    /\ Apply
    /\ joins' = joins \cup {<<p, m>>}
    /\ primary' \in {primary, [primary EXCEPT ![p] = m]}
    /\ UNCHANGED <<rows, matrix, offers>>

DetachMedia(p, m) ==
    /\ Live(p)
    /\ <<p, m>> \in joins
    /\ Apply
    /\ joins' = joins \ {<<p, m>>}
    /\ primary' = [primary EXCEPT ![p] = IF @ = m THEN None ELSE @]
    /\ UNCHANGED <<rows, matrix, offers>>

\* _commercial_sku(): the SKU, its variant and its product are not archived.
Commercial(k) == Live(k) /\ Live(of[k]) /\ Live(of[of[k]])

\* upsert_price() and upsert_availability().
Price(k) ==
    /\ Commercial(k)
    /\ Apply
    /\ offers' = offers \cup {<<k, "price">>}
    /\ UNCHANGED <<rows, matrix, joins, primary>>

Stock(k) ==
    /\ Commercial(k)
    /\ Apply
    /\ offers' = offers \cup {<<k, "availability">>}
    /\ UNCHANGED <<rows, matrix, joins, primary>>

--------------------------------------------------------------------------------
CatalogInit ==
    /\ \E belongs \in Starts :
          /\ status = [e \in Rows |-> IF e \in DOMAIN belongs THEN "live" ELSE "none"]
          /\ of = [e \in Rows |-> IF e \in DOMAIN belongs THEN belongs[e] ELSE None]
    /\ enabled = [p \in Products |-> [a \in Attributes |-> "no"]]
    /\ options = [v \in Variants |-> {}]
    /\ key = [v \in Variants |-> {}]
    /\ joins = {}
    /\ primary = [p \in Products |-> None]
    /\ offers = {}
    /\ editor = [r \in Editors |-> NoCall]
    /\ changes = 0

CreateRow ==
    \/ \E p \in Products, v \in Variants, k \in Skus : CreateProduct(p, v, k)
    \/ \E e \in Rows : CreateLabel(e) \/ CreateAttribute(e) \/ CreateAsset(e) \/ CreateOption(e)
    \/ \E c \in Categories, p \in Categories \cup {None} : CreateCategory(c, p)
    \/ \E k \in Skus, v \in Variants : CreateSku(k, v)

Begin(r) ==
    \/ \E e \in Rows : BeginEdit(r, e) \/ BeginRetire(r, e)
    \/ \E c \in Categories, p \in Categories \cup {None} : BeginReparent(r, c, p)
    \/ \E p \in Products, a \in Attributes :
          \/ BeginDetach(r, p, a)
          \/ \E mode \in {"plain", "defining"} : BeginAttach(r, p, a, mode)
    \/ \E v \in Variants, chosen \in SUBSET Options :
          \/ \E p \in Products : BeginVariant(r, v, p, chosen)
          \/ BeginReplace(r, v, chosen)

Climb(r) == Walk(r) \/ WalkEnds(r) \/ SaveParent(r)

Proceed(r) ==
    \/ SaveStatus(r)
    \/ Climb(r)
    \/ SaveEnabled(r) \/ SaveDisabled(r)
    \/ SaveVariant(r) \/ SaveOptions(r)

Arrange ==
    \/ \E p \in Products :
          \/ \E b \in Brands \cup {None} : AssignBrand(p, b)
          \/ \E e \in Categories \cup Tags : Relate(p, e)
          \/ \E m \in Assets : AttachMedia(p, m) \/ DetachMedia(p, m)
    \/ \E k \in Skus : Price(k) \/ Stock(k)

CatalogNext == CreateRow \/ Arrange \/ \E r \in Editors : Begin(r) \/ Proceed(r)

CatalogSpec == CatalogInit /\ [][CatalogNext]_catalogVars

\* A request that has begun to walk is not left alone.
FairCatalogSpec == CatalogSpec /\ \A r \in Editors : WF_catalogVars(Climb(r))

--------------------------------------------------------------------------------
(* Properties                                                              *)

Calls ==
    [op : {"idle", "edit", "retire", "move", "plain", "defining", "disable", "variant", "replace"},
     on : Rows \cup {None}, with : Rows \cup {None},
     chosen : SUBSET Options, keyed : SUBSET Options,
     writes : {"insert", "update", "nothing"},
     cursor : Categories \cup {None}, next : Categories \cup {None}, seen : SUBSET Categories,
     overtaken : BOOLEAN, rewritten : BOOLEAN]

\* Every variable holds what its declaration says.
CatalogTypeOK ==
    /\ status \in [Rows -> {"none", "live", "archived"}]
    /\ of \in [Rows -> Rows \cup {None}]
    /\ enabled \in [Products -> [Attributes -> {"no", "plain", "defining"}]]
    /\ options \in [Variants -> SUBSET Options]
    /\ key \in [Variants -> SUBSET Options]
    /\ joins \subseteq Joins
    /\ primary \in [Products -> Assets \cup {None}]
    /\ offers \subseteq Offers
    /\ editor \in [Editors -> Calls]
    /\ changes \in 0 .. MaxChanges

\* r is carried out in this step, although it has been overtaken.
Late(r) == editor[r].overtaken /\ editor'[r] = NoCall

\* No category is above itself.
Forest ==
    ~ \E loop \in SUBSET Categories : loop # {} /\ \A c \in loop : of[c] \in loop

\* A move that is not overtaken never closes a cycle, whatever the tree looks like.
CyclesNeedARace == [][Forest /\ ~Forest' => \E r \in Editors : Late(r)]_catalogVars

\* What a product or a variant is made of is not archived, a variant has only options
\* of attributes that its product has, and the medium that stands for a product is one
\* of its media.
UsesHold ==
    /\ \A p \in Products, a \in Attributes : enabled[p][a] # "no" => Live(a)
    /\ \A v \in Variants : \A o \in options[v] :
          Live(o) /\ enabled[of[v]][AttributeOf[o]] # "no"
    /\ \A p \in Products : primary[p] = None \/ <<p, primary[p]>> \in joins

\* Only a request that is overtaken can archive, remove or disable what is in use.
UsesEndOnlyInARace == [][UsesHold /\ ~UsesHold' => \E r \in Editors : Late(r)]_catalogVars

\* Every move ends, even one whose walk meets a cycle that a race has left.
EveryMoveEnds == \A r \in Editors : editor[r].op = "move" ~> editor[r].op # "move"

\* A variant is not created beside another of the same product that has the same
\* options of the attributes that tell variants apart.
DuplicatesRefused ==
    [][\A v, w \in Variants :
          Unborn(v) /\ ~Unborn(v)' /\ ~Unborn(w) /\ of'[v] = of[w] =>
              Keyed(of'[v], options'[v]) # Keyed(of[w], options[w])]_catalogVars
================================================================================
