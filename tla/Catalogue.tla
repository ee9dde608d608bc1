------------------------------- MODULE Catalogue -------------------------------
(***************************************************************************)
(* The catalogue of a company: the tree of its categories, its products    *)
(* with their variants, and the names shared by every company (brands;     *)
(* colours and sizes).                                                     *)
(*                                                                         *)
(* Moving a category, creating or renaming a shared name and deleting a    *)
(* reference decide on rows they have not locked, so each is several       *)
(* steps: what is read, and what is saved.  The rest is one step.  Codes,  *)
(* prices and pictures are left out: a variant is its colour and size.     *)
(***************************************************************************)
EXTENDS Naturals, FiniteSets

CONSTANTS
    Categories,
    Products, Variants,
    ProductOf,     \* ProductOf[v]: the product variant v may be created in
    Spellings,     \* ways of writing names
    Fold,          \* Fold[s]: the name that s writes, whatever its capitals
    Names,         \* rows that may be created of each shared catalogue
    Editors,       \* requests in progress at the same time
    Root           \* no parent

Shared == {"BRAND", "COLOR", "SIZE"}

ASSUME CatalogueAssumption ==
    /\ ProductOf \in [Variants -> Products] /\ DOMAIN Fold = Spellings
    /\ Root \notin Categories /\ IsFiniteSet(Names)

VARIABLES
    category,   \* rows of categories: status
    parent,     \* their parentId, Root when it is null
    product,    \* rows of products: status
    variant,    \* rows of product_variants: status
    moved,      \* variants with a movement or a reservation
    named,      \* variants that only a line of a document names
    entry,      \* rows of brands, colors and sizes
    editing,    \* requests in progress
    crossed,    \* two moves of categories were decided at the same time
    sameTime    \* two names of a catalogue were being decided at the same time

treeVars == <<category, parent, crossed>>
referenceVars == <<product, variant, moved, named>>
nameVars == <<entry, sameTime>>
catalogueVars == <<treeVars, referenceVars, nameVars, editing>>

-----------------------------------------------------------------------------
(* Rows *)

RowStatus == {"NONE", "ACTIVE", "INACTIVE"}

Quiet == [op |-> "NONE"]

NoEntry == [status |-> "NONE"]

\* slug: how many brands of the same name there were before it, in its slug.
Entries == [status: {"ACTIVE", "INACTIVE"}, name: Spellings, slug: Nat] \cup {NoEntry}

CatalogueTypeOK ==
    /\ category \in [Categories -> RowStatus] /\ parent \in [Categories -> Categories \cup {Root}]
    /\ product \in [Products -> RowStatus] /\ variant \in [Variants -> RowStatus]
    /\ moved \subseteq Variants /\ named \subseteq Variants
    /\ entry \in [Shared -> [Names -> Entries]]
    /\ \A e \in Editors : editing[e].op \in {"NONE", "MOVE", "NAME", "SLUG", "DELETE"}
    /\ crossed \in BOOLEAN /\ sameTime \in BOOLEAN

Doing(op) == {e \in Editors : editing[e].op = op}

Take(e, row) == editing[e] = Quiet /\ editing' = [editing EXCEPT ![e] = row]
Leave(e) == editing' = [editing EXCEPT ![e] = Quiet]

-----------------------------------------------------------------------------
(* The tree of categories *)

Exists(c) == category[c] # "NONE"

\* A move in progress has the row of its category.
CategoryFree(c) == \A e \in Doing("MOVE") : editing[e].category # c

UnchangedTree == UNCHANGED <<referenceVars, nameVars>>

\* Its parent only has to exist.
CreateCategory(c, under) ==
    /\ category[c] = "NONE" /\ (under # Root => Exists(under) /\ CategoryFree(under))
    /\ category' = [category EXCEPT ![c] = "ACTIVE"]
    /\ parent' = [parent EXCEPT ![c] = under]
    /\ UNCHANGED <<crossed, editing>> /\ UnchangedTree

\* isDescendant (WITH RECURSIVE), in the rows that are committed: the least set that
\* has the children of c and those of its own members.
Branch(c) ==
    LET Closed(S) == \A x \in Categories : parent[x] \in S \cup {c} => x \in S
    IN  {x \in Categories : \A S \in SUBSET Categories : Closed(S) => x \in S}

\* Mutant: only its own subcategories are looked at.
IsChild(c, candidate) == parent[candidate] = c

IsDescendant(c, candidate) == candidate \in Branch(c)

\* Locks the category and decides (assertNewParent).
BeginMove(e, c, under) ==
    /\ Exists(c) /\ CategoryFree(c) /\ under # parent[c]
    /\ under # Root => under # c /\ Exists(under) /\ ~IsDescendant(c, under)
    /\ Take(e, [op |-> "MOVE", category |-> c, under |-> under])
    /\ crossed' = (crossed \/ Doing("MOVE") # {})
    /\ UNCHANGED <<category, parent>> /\ UnchangedTree

\* The foreign key waits for whoever has the row of the new parent.
SaveMove(e) ==
    /\ e \in Doing("MOVE")
    /\ \A d \in Doing("MOVE") \ {e} : editing[d].category # editing[e].under
    /\ parent' = [parent EXCEPT ![editing[e].category] = editing[e].under]
    /\ Leave(e)
    /\ UNCHANGED <<category, crossed>> /\ UnchangedTree

\* Two moves that wait for each other: the database undoes one.
UndoMove(e) ==
    /\ e \in Doing("MOVE")
    /\ \E d \in Doing("MOVE") : /\ editing[d].category = editing[e].under
                                /\ editing[d].under = editing[e].category
    /\ Leave(e)
    /\ UNCHANGED treeVars /\ UnchangedTree

DeactivateCategory(c) ==
    /\ Exists(c) /\ CategoryFree(c)
    /\ \A x \in Categories : parent[x] = c => category[x] # "ACTIVE"
    /\ category' = [category EXCEPT ![c] = "INACTIVE"]
    /\ UNCHANGED <<parent, crossed, editing>> /\ UnchangedTree

ActivateCategory(c) ==
    /\ category[c] = "INACTIVE" /\ CategoryFree(c)
    /\ category' = [category EXCEPT ![c] = "ACTIVE"]
    /\ UNCHANGED <<parent, crossed, editing>> /\ UnchangedTree

-----------------------------------------------------------------------------
(* Products and variants *)

VariantsOf(p) == {v \in Variants : ProductOf[v] = p /\ variant[v] # "NONE"}

ProductFree(p) == \A e \in Doing("DELETE") : editing[e].product # p

UnchangedReferences == UNCHANGED <<treeVars, nameVars>>

CreateProduct(p) ==
    /\ product[p] = "NONE"
    /\ product' = [product EXCEPT ![p] = "ACTIVE"]
    /\ UNCHANGED <<variant, moved, named, editing>> /\ UnchangedReferences

DeactivateProduct(p) ==
    /\ product[p] # "NONE" /\ ProductFree(p)
    /\ \A v \in VariantsOf(p) : variant[v] # "ACTIVE"
    /\ product' = [product EXCEPT ![p] = "INACTIVE"]
    /\ UNCHANGED <<variant, moved, named, editing>> /\ UnchangedReferences

ActivateProduct(p) ==
    /\ product[p] = "INACTIVE" /\ ProductFree(p)
    /\ product' = [product EXCEPT ![p] = "ACTIVE"]
    /\ UNCHANGED <<variant, moved, named, editing>> /\ UnchangedReferences

\* The foreign key waits for the product, which may be inactive.
CreateVariant(v) ==
    /\ variant[v] = "NONE" /\ product[ProductOf[v]] # "NONE" /\ ProductFree(ProductOf[v])
    /\ variant' = [variant EXCEPT ![v] = "ACTIVE"]
    /\ UNCHANGED <<product, moved, named, editing>> /\ UnchangedReferences

\* Locks the variant alone.
SwitchVariant(v) ==
    /\ variant[v] # "NONE"
    /\ variant' = [variant EXCEPT ![v] = IF @ = "ACTIVE" THEN "INACTIVE" ELSE "ACTIVE"]
    /\ UNCHANGED <<product, moved, named, editing>> /\ UnchangedReferences

\* External: a movement, a reservation, or only a line of a document.
MoveVariant(v) ==
    /\ variant[v] # "NONE"
    /\ moved' = moved \cup {v}
    /\ UNCHANGED <<product, variant, named, editing>> /\ UnchangedReferences

NameVariant(v) ==
    /\ variant[v] # "NONE"
    /\ named' = named \cup {v}
    /\ UNCHANGED <<product, variant, moved, editing>> /\ UnchangedReferences

\* deleteReferenceWithin: locks the product and reads its variants and their activity.
BeginDelete(e, p, superAdmin) ==
    /\ product[p] # "NONE" /\ ProductFree(p)
    /\ Take(e, [op |-> "DELETE", product |-> p, variants |-> VariantsOf(p),
                hard |-> superAdmin /\ VariantsOf(p) \cap moved = {}])
    /\ UNCHANGED referenceVars /\ UnchangedReferences

\* No foreign key lets a row go that others name.
Deletable(gone) == gone \cap (moved \cup named) = {}

DeactivateReference(e) ==
    LET d == editing[e] IN
    /\ e \in Doing("DELETE") /\ ~d.hard
    /\ product' = [product EXCEPT ![d.product] = "INACTIVE"]
    /\ variant' = [v \in Variants |-> IF v \in d.variants THEN "INACTIVE" ELSE variant[v]]
    /\ Leave(e)
    /\ UNCHANGED <<moved, named>> /\ UnchangedReferences

RemoveReference(e) ==
    LET d == editing[e] IN
    /\ e \in Doing("DELETE") /\ d.hard /\ Deletable(d.variants)
    /\ product' = [product EXCEPT ![d.product] = "NONE"]
    /\ variant' = [v \in Variants |-> IF v \in d.variants THEN "NONE" ELSE variant[v]]
    /\ Leave(e)
    /\ UNCHANGED <<moved, named>> /\ UnchangedReferences

RefuseRemoval(e) ==
    /\ e \in Doing("DELETE") /\ editing[e].hard /\ ~Deletable(editing[e].variants)
    /\ Leave(e)
    /\ UNCHANGED referenceVars /\ UnchangedReferences

-----------------------------------------------------------------------------
(* Names that every company shares *)

UnchangedNames == UNCHANGED <<treeVars, referenceVars>>

NameRows(kind) == {n \in Names : entry[kind][n] # NoEntry}

\* assertNameFree, over the rows that are committed; a row may keep its own name.  Names
\* have none of the characters that mean something else to ILIKE (percent, underscore
\* and backslash): one with them may be refused, or taken, by what it matches.
NameFree(kind, s, n) == \A x \in NameRows(kind) \ {n} : Fold[entry[kind][x].name] # Fold[s]

Deciding(kind) == {e \in Doing("NAME") \cup Doing("SLUG") : editing[e].kind = kind}

\* Creates row n, or renames it.
CheckName(e, kind, n, s) ==
    /\ \A d \in Deciding(kind) : editing[d].row # n
    /\ entry[kind][n] # NoEntry => kind = "BRAND" /\ entry[kind][n].name # s
    /\ NameFree(kind, s, n)
    /\ Take(e, [op |-> IF kind = "BRAND" THEN "NAME" ELSE "SLUG", kind |-> kind, row |-> n,
                name |-> s, slug |-> 0])
    /\ sameTime' = (sameTime \/ Deciding(kind) # {})
    /\ UNCHANGED entry /\ UnchangedNames

\* uniqueSlug: the first suffix that no other brand uses.
FreeSlug(s, n) ==
    LET used == {entry["BRAND"][x].slug : x \in {y \in NameRows("BRAND") \ {n} :
                                                     Fold[entry["BRAND"][y].name] = Fold[s]}}
    IN CHOOSE k \in 0 .. Cardinality(used) : k \notin used /\ \A j \in 0 .. k - 1 : j \in used

ChooseSlug(e) ==
    /\ e \in Doing("NAME")
    /\ editing' = [editing EXCEPT ![e].op = "SLUG",
                                  ![e].slug = FreeSlug(editing[e].name, editing[e].row)]
    /\ UNCHANGED nameVars /\ UnchangedNames

\* The unique indexes: the name as it is written, and the slug of a brand.
SaveName(e) ==
    LET d == editing[e] IN
    /\ e \in Doing("SLUG")
    /\ Leave(e)
    /\ entry' = IF \E x \in NameRows(d.kind) \ {d.row} :
                       LET other == entry[d.kind][x] IN
                       \/ other.name = d.name
                       \/ d.kind = "BRAND" /\ Fold[other.name] = Fold[d.name] /\ other.slug = d.slug
                THEN entry
                ELSE [entry EXCEPT ![d.kind][d.row] =
                         [status |-> IF @ = NoEntry THEN "ACTIVE" ELSE @.status,
                          name |-> d.name, slug |-> d.slug]]
    /\ UNCHANGED sameTime /\ UnchangedNames

\* deactivate and activate, which only brands have; a rename in progress has the row.
SwitchBrand(n) ==
    /\ n \in NameRows("BRAND") /\ \A d \in Deciding("BRAND") : editing[d].row # n
    /\ entry' = [entry EXCEPT !["BRAND"][n].status = IF @ = "ACTIVE" THEN "INACTIVE" ELSE "ACTIVE"]
    /\ UNCHANGED <<sameTime, editing>> /\ UnchangedNames

-----------------------------------------------------------------------------
(* Specification *)

CatalogueInit ==
    /\ category = [c \in Categories |-> "NONE"] /\ parent = [c \in Categories |-> Root]
    /\ product = [p \in Products |-> "NONE"] /\ variant = [v \in Variants |-> "NONE"]
    /\ moved = {} /\ named = {}
    /\ entry = [k \in Shared |-> [n \in Names |-> NoEntry]]
    /\ editing = [e \in Editors |-> Quiet]
    /\ crossed = FALSE /\ sameTime = FALSE

TreeStep ==
    \/ \E c \in Categories :
        \/ \E under \in Categories \cup {Root} :
            \/ CreateCategory(c, under)
            \/ \E e \in Editors : BeginMove(e, c, under)
        \/ DeactivateCategory(c)
        \/ ActivateCategory(c)
    \/ \E e \in Editors : SaveMove(e) \/ UndoMove(e)

ReferenceStep ==
    \/ \E p \in Products :
        \/ CreateProduct(p)
        \/ DeactivateProduct(p)
        \/ ActivateProduct(p)
        \/ \E e \in Editors, superAdmin \in BOOLEAN : BeginDelete(e, p, superAdmin)
    \/ \E v \in Variants : CreateVariant(v) \/ SwitchVariant(v) \/ MoveVariant(v) \/ NameVariant(v)
    \/ \E e \in Editors : DeactivateReference(e) \/ RemoveReference(e) \/ RefuseRemoval(e)

NameStep ==
    \/ \E e \in Editors :
        \/ \E kind \in Shared, n \in Names, s \in Spellings : CheckName(e, kind, n, s)
        \/ ChooseSlug(e)
        \/ SaveName(e)
    \/ \E n \in Names : SwitchBrand(n)

CatalogueNext == TreeStep \/ ReferenceStep \/ NameStep

CatalogueSpec == CatalogueInit /\ [][CatalogueNext]_catalogueVars

-----------------------------------------------------------------------------
(* Properties *)

\* What assertNewParent says: a category is never under one of its own branch.
NoCategoryUnderItself == \A c \in Categories : c \notin Branch(c)

\* The categories are a tree however they are moved, unless two moves were decided
\* at the same time: each looks at the tree without the other.
TreeUnlessMovesCross == ~crossed => NoCategoryUnderItself

\* What moved once keeps its variant and its product, even if it moved between the
\* check of a deletion and the deletion itself (deleteReferenceWithin).
HistoryKeepsItsReference ==
    \A v \in moved : variant[v] # "NONE" /\ product[ProductOf[v]] # "NONE"

\* "Nike" and "nike" are one brand: two rows differ in more than capitals, unless two
\* names were being decided at the same time (assertNameFree).
NamesToldApart ==
    ~sameTime =>
        \A kind \in Shared : \A m, n \in NameRows(kind) :
            m # n => Fold[entry[kind][m].name] # Fold[entry[kind][n].name]

\* Tree, history and names of the catalogue hold together.
CatalogueHolds ==
    CatalogueTypeOK /\ TreeUnlessMovesCross /\ HistoryKeepsItsReference /\ NamesToldApart
=============================================================================
