----------------------------- MODULE Categories -----------------------------
(***************************************************************************)
(* The categories of the users: trees of rows that name their parent, with  *)
(* nothing that keeps them trees.                                           *)
(*                                                                          *)
(* Code: services/categories, handlers/categories and the repository.       *)
(*                                                                          *)
(* The id of a row is its position.  A name is a number: what matters is    *)
(* which comes first, and which default categories share one.  The          *)
(* statements of a request commute with those of any other (the owner of a  *)
(* row never changes, and the update skips rows deleted meanwhile), so that *)
(* a request is one action.                                                 *)
(***************************************************************************)
EXTENDS Integers, SequencesExt

CONSTANTS
    CatUsers,    \* users
    Defaults,    \* default_categories: [name, parent, isIncome], the id is the position
    Names,       \* names a request may give
    MaxCats,     \* bound: rows ever inserted
    MaxEdits     \* bound: requests that change categories

NoCategory == 0  \* a NULL parent_id or category_id

ASSUME CategoriesAssumption ==
    /\ Defaults \in Seq([name : Nat, parent : Nat, isIncome : BOOLEAN])
    /\ Names \subseteq Nat
    /\ MaxCats \in Nat /\ MaxEdits \in Nat

VARIABLES
    cats,        \* user_categories
    edits        \* bound: how many requests have changed categories

catVars == <<cats, edits>>

CategoryRow == [user : CatUsers, name : Nat, parent : Nat, isIncome : BOOLEAN,
                deleted : BOOLEAN]

-----------------------------------------------------------------------------
(* Registration copies the default categories, in two statements: if the    *)
(* second one fails the user starts with the roots, if both do with nothing. *)

Copy(u, k, parent) == [user |-> u, name |-> Defaults[k].name, parent |-> parent,
                       isIncome |-> Defaults[k].isIncome, deleted |-> FALSE]

DefaultRoots == {k \in DOMAIN Defaults : Defaults[k].parent = NoCategory}

\* A statement without ORDER BY: the rows come in any order.
CopyRoots(C, u) ==
    {C \o [j \in DOMAIN order |-> Copy(u, order[j], NoCategory)] : order \in SetToSeqs(DefaultRoots)}

\* The copies of a child's parent are found by name.
CopiesOfParent(C, u, k) ==
    {p \in DOMAIN C : /\ C[p].user = u /\ C[p].parent = NoCategory
                      /\ C[p].name = Defaults[Defaults[k].parent].name}

\* Pairs of a child and a copy of its parent.
ChildCopies(C, u) ==
    {x \in (DOMAIN Defaults) \X (DOMAIN C) :
        Defaults[x[1]].parent # NoCategory /\ x[2] \in CopiesOfParent(C, u, x[1])}

CopyChildren(C, u) ==
    {C \o [j \in DOMAIN order |-> Copy(u, order[j][1], order[j][2])] : order \in SetToSeqs(ChildCopies(C, u))}

CopyDefaultCategories(C, u) ==
    CopyRoots(C, u) \cup UNION {CopyChildren(D, u) : D \in CopyRoots(C, u)}

InitCats == cats = << >> /\ edits = 0

SetUpCategories(u) ==
    /\ \A c \in DOMAIN cats : cats[c].user # u
    /\ cats' \in CopyDefaultCategories(cats, u)
    /\ UNCHANGED edits

-----------------------------------------------------------------------------
(* Requests.  The parent a request names is not looked at.                  *)

Edit == edits < MaxEdits /\ edits' = edits + 1

\* GetByID shows live rows; the service then compares the user.
MayEditCategory(u, id) == ~cats[id].deleted /\ cats[id].user = u

CreateCategory(u, name, parent, isIncome) ==
    /\ Edit
    /\ Len(cats) < MaxCats
    /\ cats' = Append(cats, [user |-> u, name |-> name, parent |-> parent,
                             isIncome |-> isIncome, deleted |-> FALSE])

UpdateCategory(u, id, name, parent, isIncome) ==
    /\ Edit
    /\ MayEditCategory(u, id)
    /\ cats' = [cats EXCEPT ![id].name = name, ![id].parent = parent,
                            ![id].isIncome = isIncome]

\* The children stay, with a parent nobody sees any more.
DeleteCategory(u, id) ==
    /\ Edit
    /\ MayEditCategory(u, id)
    /\ cats' = [cats EXCEPT ![id].deleted = TRUE]

CategoryRequest(u) ==
    \/ \E name \in Names, parent \in {NoCategory} \cup DOMAIN cats, income \in BOOLEAN :
          \/ CreateCategory(u, name, parent, income)
          \/ \E id \in DOMAIN cats : UpdateCategory(u, id, name, parent, income)
    \/ \E id \in DOMAIN cats : DeleteCategory(u, id)

CategoriesNext ==
    \E u \in CatUsers : SetUpCategories(u) \/ CategoryRequest(u)

-----------------------------------------------------------------------------
(* What a user is shown of the rows C.                                      *)

GetByUserID(C, u) == {c \in DOMAIN C : C[c].user = u /\ ~C[c].deleted}

\* By name; the database may return rows of the same name in any order.
ByName(C, S) == SetToSortSeq(S, LAMBDA x, y : C[x].name < C[y].name
                                              \/ (C[x].name = C[y].name /\ x < y))

\* ORDER BY is_income, name
Roots(C, u) ==
    LET roots  == {c \in GetByUserID(C, u) : C[c].parent = NoCategory}
        income == {c \in roots : C[c].isIncome}
    IN  ByName(C, roots \ income) \o ByName(C, income)

\* Fault: roots and their children only.
TwoLevels(C, u) ==
    LET children(c) == ByName(C, {d \in GetByUserID(C, u) : C[d].parent = c})
    IN  FlattenSeq([k \in DOMAIN Roots(C, u) |-> <<Roots(C, u)[k]>> \o children(Roots(C, u)[k])])

\* A category and everything under it, each before its own children: no row has
\* two parents, so that going down from a root never meets a cycle.
GetFlat(C, u) ==
    LET children(c) == ByName(C, {d \in GetByUserID(C, u) : C[d].parent = c})
        addChildren[c \in DOMAIN C] ==
            <<c>> \o FlattenSeq([k \in DOMAIN children(c) |-> addChildren[children(c)[k]]])
    IN  FlattenSeq([k \in DOMAIN Roots(C, u) |-> addChildren[Roots(C, u)[k]]])

\* Children are hung under their parents first; what hangs under a root is shown
\* with the root, in the list of the root's kind.
GetGrouped(C, u) ==
    LET own   == GetByUserID(C, u)
        hung  == {<<C[c].parent, c>> : c \in {d \in own : C[d].parent \in own}}
        under[n \in 0..Len(C), c \in own] ==
            IF n = 0 THEN {c} ELSE {c} \cup UNION {under[n - 1, d] : d \in {e \in own : <<c, e>> \in hung}}
        list(income) == UNION {under[Len(C), c] : c \in
                            {d \in own : C[d].parent = NoCategory /\ C[d].isIncome = income}}
    IN  [income |-> list(TRUE), expenses |-> list(FALSE)]

=============================================================================
