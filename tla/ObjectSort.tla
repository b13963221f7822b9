------------------------------ MODULE ObjectSort ------------------------------
(***************************************************************************)
(* The order of the object list: the comparators of utils.js               *)
(* (sortObjectsByName, sortObjectsBySize, sortObjectsByDate), the dispatch *)
(* of sortObjectsList, the date-descending sort a fetched listing gets in  *)
(* fetchObjects, and the header clicks of sortObjects (objects/actions.js).*)
(*                                                                         *)
(* An object is a record: its name, abstracted to the rank of              *)
(* name.toLowerCase() among the names, whether the raw name has upper-case *)
(* letters, and whether it ends with "/" (a folder); its size; its         *)
(* lastModified, abstracted to its rank in time.  Array.prototype.sort is  *)
(* stable (ES2019), so a comparator returning 0 keeps the input order.     *)
(***************************************************************************)
EXTENDS Integers, SequencesExt

CONSTANTS
    Keys,       \* ranks of name.toLowerCase()
    Sizes,      \* object sizes
    Dates,      \* ranks of lastModified
    MaxLen      \* bound on the length of a listing

SORT_BY_NAME == "name"
SORT_BY_SIZE == "size"
SORT_BY_LAST_MODIFIED == "last-modified"
SORT_ORDER_ASC == "asc"
SORT_ORDER_DESC == "desc"
SortKeys == {SORT_BY_NAME, SORT_BY_SIZE, SORT_BY_LAST_MODIFIED}

Names == [key: Keys, upper: BOOLEAN, folder: BOOLEAN]
\* a folder of a listing carries no size and no date that is ever compared
Objects == {o \in [name: Names, size: Sizes, date: Dates] :
              o.name.folder => o.size = Min(Sizes) /\ o.date = Min(Dates)}

\* the listings ListObjects can return: no name twice
Listings == {l \in BoundedSeq(Objects, MaxLen) :
               \A i, j \in DOMAIN l : l[i].name = l[j].name => i = j}

VARIABLES
    list,       \* objects.list
    sortBy,     \* objects.sortBy
    sortOrder,  \* objects.sortOrder
    before      \* the list the last sort started from

vars == <<list, sortBy, sortOrder, before>>

IsFolder(o) == o.name.folder

(***************************************************************************)
(* The comparators: a JS comparator returns a negative, zero or positive   *)
(* number.  Names compare by toLowerCase(), which the raw comparison of    *)
(* two names would not do: in code-unit order every upper-case letter      *)
(* precedes every lower-case one.                                          *)
(***************************************************************************)
CompareNamesRaw(a, b) ==
    LET r(o) == IF o.name.upper THEN o.name.key ELSE o.name.key + Cardinality(Keys)
    IN  IF r(a) < r(b) THEN -1 ELSE IF r(a) > r(b) THEN 1 ELSE 0

CompareNames(a, b) ==
    IF a.name.key < b.name.key THEN -1
    ELSE IF a.name.key > b.name.key THEN 1 ELSE 0

CompareSizes(a, b) == a.size - b.size

CompareDates(a, b) == a.date - b.date

\* the comparator each sort function passes for its key
Compare(a, b, by) ==
    CASE by = SORT_BY_NAME -> CompareNames(a, b)
      [] by = SORT_BY_SIZE -> CompareSizes(a, b)
      [] OTHER             -> CompareDates(a, b)

\* Array.prototype.sort(cmp): a stable insertion of each element, in input
\* order, after every element already placed that does not compare above it
StableSort(s, by) ==
    LET insert(acc, x) ==
          InsertAt(acc, Cardinality({i \in DOMAIN acc : Compare(acc[i], x, by) <= 0}) + 1, x)
    IN  FoldLeft(insert, <<>>, s)

Folders(objects) == SelectSeq(objects, IsFolder)

\* the files filter written without its negation
FilesOfFolders(objects) == SelectSeq(objects, IsFolder)

Files(objects) == SelectSeq(objects, LAMBDA o : ~IsFolder(o))

InOrder(s, order) == IF order = SORT_ORDER_DESC THEN Reverse(s) ELSE s

sortObjectsByName(objects, order) ==
    InOrder(StableSort(Folders(objects), SORT_BY_NAME), order)
      \o InOrder(StableSort(Files(objects), SORT_BY_NAME), order)

sortObjectsBySize(objects, order) ==
    Folders(objects) \o InOrder(StableSort(Files(objects), SORT_BY_SIZE), order)

sortObjectsByDate(objects, order) ==
    Folders(objects) \o InOrder(StableSort(Files(objects), SORT_BY_LAST_MODIFIED), order)

sortObjectsList(objects, by, order) ==
    CASE by = SORT_BY_NAME          -> sortObjectsByName(objects, order)
      [] by = SORT_BY_SIZE          -> sortObjectsBySize(objects, order)
      [] by = SORT_BY_LAST_MODIFIED -> sortObjectsByDate(objects, order)

-----------------------------------------------------------------------------
(***************************************************************************)
(* A listing has arrived: the .then of fetchObjects sets the sort to       *)
(* last-modified descending and the list to the listing sorted so.         *)
(***************************************************************************)
Init ==
    /\ before \in Listings
    /\ sortBy = SORT_BY_LAST_MODIFIED
    /\ sortOrder = SORT_ORDER_DESC
    /\ list = sortObjectsList(before, sortBy, sortOrder)

(***************************************************************************)
(* sortObjects(by): a header click; ascending unless the list is sorted by *)
(* that key ascending already, and the current list re-sorted.            *)
(***************************************************************************)
SortObjects(by) ==
    LET order == IF sortBy = by /\ sortOrder = SORT_ORDER_ASC
                   THEN SORT_ORDER_DESC ELSE SORT_ORDER_ASC
    IN  /\ sortBy' = by
        /\ sortOrder' = order
        /\ list' = sortObjectsList(list, by, order)
        /\ before' = list

Next == \E by \in SortKeys : SortObjects(by)

Spec == Init /\ [][Next]_vars

-----------------------------------------------------------------------------
TypeOK ==
    /\ Len(list) <= MaxLen /\ ToSet(list) \subseteq Objects
    /\ sortBy \in SortKeys
    /\ sortOrder \in {SORT_ORDER_ASC, SORT_ORDER_DESC}
    /\ before \in Listings

(***************************************************************************)
(* Reference order, stated without any sorting procedure: object a comes   *)
(* before object b of the list the sort started from when a is a folder    *)
(* and b a file; two folders keep their order, except under the name sort, *)
(* which orders them like files; two files (and folders under the name     *)
(* sort) go by the key, ascending or descending, and equal keys go by      *)
(* their earlier position, reversed for a descending sort.                 *)
(***************************************************************************)
Precedes(a, b, from, by, order) ==
    LET pos(o) == CHOOSE i \in DOMAIN from : from[i] = o
        key(o) == CASE by = SORT_BY_NAME -> o.name.key
                    [] by = SORT_BY_SIZE -> o.size
                    [] OTHER             -> o.date
        earlier == IF order = SORT_ORDER_ASC THEN pos(a) < pos(b) ELSE pos(a) > pos(b)
        ranked  == IF key(a) = key(b) THEN earlier
                   ELSE IF order = SORT_ORDER_ASC THEN key(a) < key(b)
                                                  ELSE key(a) > key(b)
    IN  CASE IsFolder(a) # IsFolder(b)           -> IsFolder(a)
          [] IsFolder(a) /\ by # SORT_BY_NAME   -> pos(a) < pos(b)
          [] OTHER                              -> ranked

(***************************************************************************)
(* The list shown is always the list the last sort (a header click or the  *)
(* sort of a fresh listing) started from, with the same objects, in the    *)
(* reference order for the current sortBy and sortOrder.                   *)
(***************************************************************************)
SortedAsReference ==
    /\ Len(list) = Len(before)
    /\ ToSet(list) = ToSet(before)
    /\ IsSorted(list, LAMBDA a, b : Precedes(a, b, before, sortBy, sortOrder))

=============================================================================
