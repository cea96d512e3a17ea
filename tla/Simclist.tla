------------------------------- MODULE Simclist -------------------------------
(***************************************************************************)
(* SimCList (simclist.c), the list behind chitcp's queues: entries linked  *)
(* both ways between two sentinels, a pointer to the middle entry that     *)
(* every insertion and removal has to move, spare entries that are used    *)
(* again before malloc is asked, an iterator that forbids changes, and the *)
(* sort.                                                                   *)
(*                                                                         *)
(* The operations are operators on a list record, as the C functions are   *)
(* on a list_t; the properties compare them with operations on sequences.  *)
(* Lists of copied data, hashing, and dumps to files are left out.         *)
(***************************************************************************)
EXTENDS Integers, FiniteSets, SequencesExt

CONSTANTS
  MaxElems,      \* bound: elements of the list
  MaxSorted,     \* bound: elements of a list that is sorted
  MaxSpare,      \* SIMCLIST_MAX_SPARE_ELEMS
  MinQuick,      \* SIMCLIST_MINQUICKSORTELS
  ListValues     \* what is stored, compared as numbers

ASSUME SimclistAssumption ==
  /\ MaxElems \in Nat /\ MaxSorted \in Nat /\ MaxSpare \in Nat /\ MinQuick \in Nat
  /\ ListValues \subseteq Nat \ {0}

NIL == 0
HEAD == -1
TAIL == -2
ListEntries == 1 .. MaxElems + MaxSpare    \* what malloc has to give
Pointers == ListEntries \cup {NIL, HEAD, TAIL}

VARIABLES
  lst,           \* the list_t
  iter,          \* its iterator
  sorting        \* list_sort

listVars == <<lst, iter, sorting>>

list_init ==
  [next |-> [p \in Pointers |-> IF p = HEAD THEN TAIL ELSE NIL],
   prev |-> [p \in Pointers |-> IF p = TAIL THEN HEAD ELSE NIL],
   data |-> [p \in Pointers |-> NIL],
   mid |-> NIL, numels |-> 0, spareels |-> <<>>]

NotIterating == [active |-> FALSE, pos |-> 0, curentry |-> NIL]
NotSorting == [at |-> "idle"]

ListInit == lst = list_init /\ iter = NotIterating /\ sorting = NotSorting

-----------------------------------------------------------------------------
(* Entries *)

\* n steps along next or prev.
Steps(link, p, n) == LET at[i \in 0 .. n] == IF i = 0 THEN p ELSE link[at[i - 1]] IN at[n]

MidIndex(l) == (l.numels - 1) \div 2

\* The walk to a position starts at the nearest of head, middle and tail: x, the fraction of
\* the list before it, is a float in C, and no number if the list is empty.
list_findpos(l, pos) ==
  LET UpTo(quarters) == l.numels # 0 /\ 4 * (pos + 1) <= quarters * l.numels
      Half == l.numels # 0 /\ 4 * (pos + 1) < 2 * l.numels
  IN CASE UpTo(1) -> Steps(l.next, HEAD, pos + 1)
       [] ~UpTo(1) /\ Half -> Steps(l.prev, l.mid, MidIndex(l) - pos)
       [] ~Half /\ UpTo(3) -> Steps(l.next, l.mid, pos - MidIndex(l))
       [] OTHER -> Steps(l.prev, TAIL, l.numels - pos)

Positions(l) == 0 .. l.numels - 1
Listed(l) == {list_findpos(l, i) : i \in Positions(l)}

\* The names of the entries do not matter: malloc gives the first free one. What an entry
\* outside the list points at is never read, and kept NIL.
Malloc(l) == CHOOSE e \in ListEntries \ (Listed(l) \cup ToSet(l.spareels)) :
               \A f \in ListEntries \ (Listed(l) \cup ToSet(l.spareels)) : e <= f

\* Entries become spares as long as there is room, and are freed otherwise.
SpareOrFree(l, es) ==
  [l EXCEPT !.next = [p \in Pointers |-> IF p \in ToSet(es) THEN NIL ELSE @[p]],
            !.prev = [p \in Pointers |-> IF p \in ToSet(es) THEN NIL ELSE @[p]],
            !.data = [p \in Pointers |-> IF p \in ToSet(es) THEN NIL ELSE @[p]],
            !.spareels = SubSeq(@ \o es, 1,
                           IF Len(@) + Len(es) <= MaxSpare THEN Len(@) + Len(es) ELSE MaxSpare)]

Link(l, p, q) == [l EXCEPT !.next[p] = q, !.prev[q] = p]

-----------------------------------------------------------------------------
(* Operations *)

list_insert_at(l, d, pos) ==
  LET spare == l.spareels # <<>>
      lent == IF spare THEN Last(l.spareels) ELSE Malloc(l)
      prec == list_findpos(l, pos - 1)
      linked == Link(Link([l EXCEPT !.data[lent] = d, !.numels = @ + 1,
                                    !.spareels = IF spare THEN Front(@) ELSE @],
                          lent, l.next[prec]), prec, lent)
      n == linked.numels
  IN [linked EXCEPT !.mid =
        CASE n = 1 -> lent
          [] n # 1 /\ n % 2 = 1 -> IF pos >= (n - 1) \div 2 THEN linked.next[@] ELSE @
          [] OTHER -> IF pos <= (n - 1) \div 2 THEN linked.prev[@] ELSE @]

\* Whether the middle is before or at pos. Mutant: the middle itself does not count.
AfterMiddle(l, pos) == pos > l.numels \div 2
UpperHalf(l, pos) == pos >= l.numels \div 2

\* mid is moved along the links as they were.
list_drop_elem(l, tmp, pos) ==
  LET mid == CASE l.numels = 1 -> NIL
               [] l.numels # 1 /\ l.numels % 2 = 1 ->
                    IF UpperHalf(l, pos) THEN l.prev[l.mid] ELSE l.mid
               [] OTHER -> IF ~UpperHalf(l, pos) THEN l.next[l.mid] ELSE l.mid
  IN SpareOrFree(Link([l EXCEPT !.mid = mid], l.prev[tmp], l.next[tmp]), <<tmp>>)

list_delete_at(l, pos) ==
  [list_drop_elem(l, list_findpos(l, pos), pos) EXCEPT !.numels = @ - 1]

\* list_extract_at makes the same changes, and returns what the entry held: list_fetch.
Extracted(l, pos) == l.data[list_findpos(l, pos)]

list_clear(l) ==
  LET all == [i \in 1 .. l.numels |-> Steps(l.next, HEAD, i)]
  IN [Link(SpareOrFree(l, all), HEAD, TAIL) EXCEPT !.numels = 0, !.mid = NIL]

list_delete_range(l, posstart, posend) ==
  LET numdel == posend - posstart + 1
      first == list_findpos(l, posstart)
      after == (l.numels - 1 - numdel) \div 2
      movedx == (IF after < posstart THEN after ELSE after + numdel) - MidIndex(l)
      mid == IF movedx > 0 THEN Steps(l.next, l.mid, movedx) ELSE Steps(l.prev, l.mid, -movedx)
      deleted == [i \in 1 .. numdel |-> Steps(l.next, first, i - 1)]
  IN IF numdel = l.numels
       THEN list_clear(l)
       ELSE [Link(SpareOrFree([l EXCEPT !.mid = mid], deleted), l.prev[first],
                  Steps(l.next, first, numdel)) EXCEPT !.numels = @ - numdel]

\* A new list of new entries; its mid is first the last entry from l1, then put right.
list_concat(l1, l2) ==
  LET n == l1.numels + l2.numels
      place(i) == IF i = 0 THEN HEAD ELSE IF i = n + 1 THEN TAIL ELSE i
      copied == [i \in 1 .. n |-> IF i <= l1.numels THEN l1.data[Steps(l1.next, HEAD, i)]
                                  ELSE l2.data[Steps(l2.next, HEAD, i - l1.numels)]]
      next == [p \in Pointers |-> IF p = HEAD THEN place(1)
                                 ELSE IF p \in 1 .. n THEN place(p + 1) ELSE NIL]
      prev == [p \in Pointers |-> IF p = TAIL THEN place(n)
                                 ELSE IF p \in 1 .. n THEN place(p - 1) ELSE NIL]
      err == l2.numels - l1.numels
  IN IF n = 0 THEN list_init
     ELSE [next |-> next, prev |-> prev, numels |-> n, spareels |-> <<>>,
           data |-> [p \in Pointers |-> IF p \in 1 .. n THEN copied[p] ELSE NIL],
           mid |-> IF err > 0 THEN Steps(next, place(l1.numels), (err + 1) \div 2)
                              ELSE Steps(prev, place(l1.numels), (-err) \div 2)]

\* The first position that holds d, or -1.
list_locate(l, d) ==
  LET held == {i \in Positions(l) : l.data[Steps(l.next, HEAD, i + 1)] = d}
  IN IF held = {} THEN -1 ELSE CHOOSE i \in held : \A j \in held : i <= j

\* Nothing changes a list that is iterated over.
Changeable == ~iter.active /\ sorting.at = "idle"

Insert(d, pos) ==
  /\ Changeable /\ lst.numels < MaxElems /\ pos <= lst.numels
  /\ lst' = list_insert_at(lst, d, pos)
  /\ UNCHANGED <<iter, sorting>>

DeleteAt(pos) ==
  /\ Changeable /\ pos < lst.numels
  /\ lst' = list_delete_at(lst, pos)
  /\ UNCHANGED <<iter, sorting>>

\* list_delete
Delete(d) == list_locate(lst, d) >= 0 /\ DeleteAt(list_locate(lst, d))

DeleteRange(posstart, posend) ==
  /\ Changeable /\ posstart <= posend /\ posend < lst.numels
  /\ lst' = list_delete_range(lst, posstart, posend)
  /\ UNCHANGED <<iter, sorting>>

Clear ==
  /\ Changeable
  /\ lst' = list_clear(lst)
  /\ UNCHANGED <<iter, sorting>>

-----------------------------------------------------------------------------
(* The iterator *)

list_iterator_start ==
  /\ Changeable
  /\ iter' = [active |-> TRUE, pos |-> 0, curentry |-> lst.next[HEAD]]
  /\ UNCHANGED <<lst, sorting>>

list_iterator_hasnext == iter.active /\ iter.pos < lst.numels

list_iterator_next ==
  /\ list_iterator_hasnext
  /\ iter' = [iter EXCEPT !.curentry = lst.next[@], !.pos = @ + 1]
  /\ UNCHANGED <<lst, sorting>>

list_iterator_stop ==
  /\ iter.active
  /\ iter' = NotIterating
  /\ UNCHANGED <<lst, sorting>>

-----------------------------------------------------------------------------
(* list_sort: data moves, entries stay. The pointers left, right and pivot are positions. *)

Entry(i) == Steps(lst.next, HEAD, i + 1)
Datum(i) == lst.data[Entry(i)]

\* Positive if a belongs behind b: the comparator's answer times -versus.
Order(a, b) == sorting.versus * (a - b)

\* moved is a function from positions to the positions whose data they get.
Move(moved) ==
  lst' = [lst EXCEPT !.data = [e \in Pointers |->
            IF \E i \in DOMAIN moved : Entry(i) = e
              THEN Datum(moved[CHOOSE i \in DOMAIN moved : Entry(i) = e])
              ELSE @[e]]]
Swapped(i, j) == [p \in {i, j} |-> IF p = i THEN j ELSE i]

LeastOf(S) == CHOOSE i \in S : \A j \in S : i <= j
GreatestOf(S) == CHOOSE i \in S : \A j \in S : i >= j

\* calls is the stack of the recursion; before is a ghost.
list_sort(versus) ==
  /\ Changeable /\ lst.numels > 1 /\ lst.numels <= MaxSorted
  /\ sorting' = [at |-> "call", versus |-> versus, calls |-> <<<<0, lst.numels - 1>>>>,
                 before |-> [i \in 1 .. lst.numels |-> Datum(i - 1)],
                 unsorted |-> 0, pivot |-> 0, left |-> 0, right |-> 0]
  /\ UNCHANGED <<lst, iter>>

\* Of a call's own variables, those its stage does not use are 0.
With(at, calls) ==
  [at |-> at, versus |-> sorting.versus, calls |-> calls, before |-> sorting.before,
   unsorted |-> 0, pivot |-> 0, left |-> 0, right |-> 0]

\* Short ranges are sorted by selection. rand() picks any pivot.
SortCall ==
  /\ sorting.at = "call" /\ sorting.calls # <<>>
  /\ LET first == Head(sorting.calls)[1]
         last == Head(sorting.calls)[2]
     IN IF last <= first
          THEN sorting' = With("call", Tail(sorting.calls))
          ELSE IF last - first + 1 <= MinQuick
            THEN sorting' = [With("select", sorting.calls) EXCEPT !.unsorted = first]
            ELSE \E pivot \in first .. last :
                   sorting' = [With("partition", sorting.calls) EXCEPT
                                 !.pivot = pivot, !.left = first, !.right = last]
  /\ UNCHANGED <<lst, iter>>

\* list_sort_selectionsort: the first of the extreme elements is swapped to the front.
SelectionStep ==
  /\ sorting.at = "select"
  /\ LET last == Head(sorting.calls)[2]
         rest == sorting.unsorted .. last
         toswap == LeastOf({i \in rest : \A j \in rest : Order(Datum(i), Datum(j)) <= 0})
     IN IF sorting.unsorted = last
          THEN sorting' = With("call", Tail(sorting.calls)) /\ UNCHANGED lst
          ELSE /\ Move(Swapped(sorting.unsorted, toswap))
               /\ sorting' = [sorting EXCEPT !.unsorted = @ + 1]
  /\ UNCHANGED iter

\* One round of the loop that swaps a pair across the pivot.
PartitionStep ==
  /\ sorting.at = "partition"
  /\ LET p == sorting.pivot
         left == LeastOf({i \in sorting.left .. p : i = p \/ Order(Datum(i), Datum(p)) > 0})
         right == GreatestOf({i \in p .. sorting.right : i = p \/ Order(Datum(i), Datum(p)) < 0})
     IN IF sorting.left = p \/ sorting.right = p
          THEN /\ sorting' = [sorting EXCEPT !.at =
                                IF sorting.right = p THEN "left longer" ELSE "right longer"]
               /\ UNCHANGED lst
          ELSE IF left = p \/ right = p
            THEN sorting' = [sorting EXCEPT !.left = left, !.right = right] /\ UNCHANGED lst
            ELSE /\ Move(Swapped(left, right))
                 /\ sorting' = [sorting EXCEPT !.left = left + 1, !.right = right - 1]
  /\ UNCHANGED iter

\* What is left on the wrong side moves across the pivot, which moves with it.
LeftLonger ==
  /\ sorting.at = "left longer" /\ sorting.left # sorting.pivot
  /\ LET p == sorting.pivot
         i == sorting.left
     IN IF Order(Datum(i), Datum(p)) > 0
          THEN /\ Move(IF p - 1 = i THEN Swapped(i, p)
                                    ELSE [q \in {i, p - 1, p} |->
                                            IF q = i THEN p - 1 ELSE IF q = p THEN i ELSE p])
               /\ sorting' = [sorting EXCEPT !.pivot = p - 1]
          ELSE sorting' = [sorting EXCEPT !.left = i + 1] /\ UNCHANGED lst
  /\ UNCHANGED iter

RightLonger ==
  /\ sorting.at = "right longer" /\ sorting.right # sorting.pivot
  /\ LET p == sorting.pivot
         i == sorting.right
     IN IF Order(Datum(i), Datum(p)) < 0
          THEN /\ Move(IF p + 1 = i THEN Swapped(i, p)
                                    ELSE [q \in {i, p + 1, p} |->
                                            IF q = i THEN p + 1 ELSE IF q = p THEN i ELSE p])
               /\ sorting' = [sorting EXCEPT !.pivot = p + 1]
          ELSE sorting' = [sorting EXCEPT !.right = i - 1] /\ UNCHANGED lst
  /\ UNCHANGED iter

\* The two recursive calls, the left part first.
Recurse ==
  /\ \/ sorting.at = "left longer" /\ sorting.left = sorting.pivot
     \/ sorting.at = "right longer" /\ sorting.right = sorting.pivot
  /\ LET first == Head(sorting.calls)[1]
         last == Head(sorting.calls)[2]
         p == sorting.pivot
     IN sorting' = With("call", (IF p > first THEN <<<<first, p - 1>>>> ELSE <<>>)
                                \o (IF p < last THEN <<<<p + 1, last>>>> ELSE <<>>)
                                \o Tail(sorting.calls))
  /\ UNCHANGED <<lst, iter>>

SortReturn ==
  /\ sorting.at = "call" /\ sorting.calls = <<>>
  /\ sorting' = NotSorting
  /\ UNCHANGED <<lst, iter>>

ListNext ==
  \/ \E d \in ListValues, pos \in 0 .. MaxElems : Insert(d, pos)
  \/ \E pos \in 0 .. MaxElems : DeleteAt(pos)
  \/ \E d \in ListValues : Delete(d)
  \/ \E posstart, posend \in 0 .. MaxElems : DeleteRange(posstart, posend)
  \/ Clear
  \/ list_iterator_start \/ list_iterator_next \/ list_iterator_stop
  \/ \E versus \in {-1, 1} : list_sort(versus)
  \/ SortCall \/ SelectionStep \/ PartitionStep \/ LeftLonger \/ RightLonger \/ Recurse \/ SortReturn

ListSpec == ListInit /\ [][ListNext]_listVars

-----------------------------------------------------------------------------
(* Properties *)

Contents(l) == [i \in 1 .. l.numels |-> l.data[Steps(l.next, HEAD, i)]]

\* list_repOk, which the code asserts after every change: the links agree in both directions,
\* from head to tail in numels + 1 steps, and mid is the middle entry.
RepOk(l) ==
  /\ l.prev[HEAD] = NIL /\ l.next[TAIL] = NIL
  /\ Len(l.spareels) <= MaxSpare
  /\ l.mid = IF l.numels = 0 THEN NIL ELSE Steps(l.next, HEAD, MidIndex(l) + 1)
  /\ Steps(l.next, HEAD, l.numels + 1) = TAIL
  /\ \A i \in 0 .. l.numels :
       LET e == Steps(l.next, HEAD, i) IN e # NIL /\ l.prev[l.next[e]] = e

\* A walk finds every position, the sentinels' too, from whichever end it starts.
WalksArrive ==
  \A pos \in -1 .. lst.numels : list_findpos(lst, pos) = Steps(lst.next, HEAD, pos + 1)

\* Whatever is inserted or deleted, wherever, the list holds what a sequence would hold.
OperationsAgree ==
  LET s == Contents(lst)
      n == lst.numels
  IN /\ n < MaxElems => \A d \in ListValues, pos \in 0 .. n :
          Contents(list_insert_at(lst, d, pos)) = InsertAt(s, pos + 1, d)
     /\ \A pos \in 0 .. n - 1 :
          /\ Contents(list_delete_at(lst, pos)) = RemoveAt(s, pos + 1)
          /\ Extracted(lst, pos) = s[pos + 1]
     /\ \A i, j \in 0 .. n - 1 : i <= j =>
          Contents(list_delete_range(lst, i, j)) = SubSeq(s, 1, i) \o SubSeq(s, j + 2, n)

\* A list and what is left of it after a deletion, joined in either order.
ConcatAgrees ==
  \A i, j \in Positions(lst) :
    LET rest == list_delete_range(lst, i, j)
    IN i <= j /\ lst.numels + rest.numels <= Cardinality(ListEntries) =>
         \A pair \in {<<lst, rest>>, <<rest, lst>>} :
           LET joined == list_concat(pair[1], pair[2])
           IN RepOk(joined) /\ Contents(joined) = Contents(pair[1]) \o Contents(pair[2])

\* An iterator's current entry is the one at its position.
IteratorInPlace == iter.active => iter.curentry = Steps(lst.next, HEAD, iter.pos + 1)

\* list_sort returns with the same elements, in order.
SortSorts ==
  sorting.at = "call" /\ sorting.calls = <<>> =>
    /\ \A i \in 1 .. lst.numels - 1 : Order(Datum(i - 1), Datum(i)) <= 0
    /\ \A d \in ListValues : Cardinality({i \in 1 .. lst.numels : Datum(i - 1) = d})
                             = Cardinality({i \in 1 .. lst.numels : sorting.before[i] = d})

\* After any sequence of calls the representation is sound (the assertion list_repOk), every
\* position is found, and the operations do to the list what they would do to a sequence:
\* one step too many or too few of the middle pointer shows only some calls later, in the walk
\* to an element of the second or third quarter.
ListsAreSequences ==
  /\ RepOk(lst) /\ WalksArrive /\ IteratorInPlace
  /\ sorting.at = "idle" => OperationsAgree /\ ConcatAgrees
  /\ SortSorts

ListTypeOK ==
  /\ lst.next \in [Pointers -> Pointers] /\ lst.prev \in [Pointers -> Pointers]
  /\ lst.data \in [Pointers -> ListValues \cup {NIL}]
  /\ lst.mid \in Pointers /\ lst.numels \in 0 .. MaxElems
  /\ lst.spareels \in Seq(ListEntries)
  /\ iter.active \in BOOLEAN /\ iter.pos \in 0 .. MaxElems /\ iter.curentry \in Pointers
  /\ sorting.at \in {"idle", "call", "select", "partition", "left longer", "right longer"}

=============================================================================
