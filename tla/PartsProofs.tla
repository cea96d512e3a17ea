------------------------------ MODULE PartsProofs ------------------------------
(***************************************************************************)
(* Theorems about the parts that stand alone; those about the buffer are   *)
(* in CircularBufferProofs.                                                *)
(*                                                                         *)
(* Simclist, for lists of any length, any data and any sizes of its spares *)
(* and short ranges: a list behaves as a sequence. A list's entries in     *)
(* order are a function w from positions to pointers (Laid), which every   *)
(* operation maps to another; the sort keeps w and moves data (Sorting).   *)
(*                                                                         *)
(* Router, for every set of interfaces, every routing table a file may     *)
(* hold, and any number of frames: what the router and its server may have *)
(* sent each other at any time, and that an ARP reply goes back by the     *)
(* interface its request has come by.                                      *)
(*                                                                         *)
(* Tester, for its four tests: the types of its calls and of its peers.    *)
(* And that the parts keep their types together, as the runs have them.    *)
(***************************************************************************)
EXTENDS MCParts, CircularBufferProofs, SequenceTheorems, FiniteSetTheorems,
        WellFoundedInduction, TLAPS

-----------------------------------------------------------------------------
(* The list: walks *)

\* A set of numbers that is not empty has a least one.
LEMMA LeastNumber ==
  ASSUME NEW T, T \subseteq Nat, T # {}
  PROVE  \E x \in T : \A y \in T : x <= y
<1> DEFINE R == {ss \in Nat \X Nat : ss[1] < ss[2]}
<1>1. IsWellFoundedOn(R, Nat)
  BY NatLessThanWellFounded DEF OpToRel
<1> HIDE DEF R
<1>2. PICK x \in T : \A y \in T : <<y, x>> \notin R
  BY <1>1, WFMin
<1>3. ASSUME NEW y \in T PROVE x <= y
  <2>1. x \in Nat /\ y \in Nat /\ <<y, x>> \notin R
    BY <1>2
  <2>2. ~(y < x)
    BY <2>1 DEF R
  <2> QED BY <2>1, <2>2
<1> QED BY <1>2, <1>3

\* Induction, for sets of numbers.
LEMMA SetInduction ==
  ASSUME NEW G, 0 \in G, \A n \in Nat : n \in G => n + 1 \in G
  PROVE  Nat \subseteq G
<1> SUFFICES ASSUME Nat \ G # {} PROVE FALSE
  OBVIOUS
<1>1. PICK x \in Nat \ G : \A y \in Nat \ G : x <= y
  BY LeastNumber
<1>2. x # 0 /\ x \in Nat
  BY <1>1
<1>3. x - 1 \in Nat /\ ~(x <= x - 1) /\ (x - 1) + 1 = x
  BY <1>2
<1>4. x - 1 \in G
  BY <1>1, <1>3
<1> QED BY <1>1, <1>3, <1>4

\* f holds the entries that a walk of n steps along link from p comes to.
Trod(link, p, n, f) == f = [i \in 0 .. n |-> IF i = 0 THEN p ELSE link[f[i - 1]]]

\* There is one such function.
LEMMA TrodOnce ==
  ASSUME NEW link, NEW p, NEW n \in Nat, NEW f, NEW g, Trod(link, p, n, f), Trod(link, p, n, g)
  PROVE  f = g
<1> DEFINE G == {kk \in Nat : kk \in 0 .. n => f[kk] = g[kk]}
<1>1. \A i \in 0 .. n : f[i] = IF i = 0 THEN p ELSE link[f[i - 1]]
  BY DEF Trod
<1>2. \A i \in 0 .. n : g[i] = IF i = 0 THEN p ELSE link[g[i - 1]]
  BY DEF Trod
<1>3. 0 \in G
  BY <1>1, <1>2
<1>4. ASSUME NEW kk \in Nat, kk \in G PROVE kk + 1 \in G
  <2> SUFFICES ASSUME kk + 1 \in 0 .. n PROVE f[kk + 1] = g[kk + 1]
    OBVIOUS
  <2>1. kk + 1 # 0 /\ (kk + 1) - 1 = kk /\ kk \in 0 .. n
    OBVIOUS
  <2>2. f[kk] = g[kk]
    BY <1>4, <2>1
  <2> QED BY <1>1, <1>2, <2>1, <2>2
<1> HIDE DEF G
<1>5. Nat \subseteq G
  BY <1>3, <1>4, SetInduction
<1>6. \A kk \in 0 .. n : f[kk] = g[kk]
  BY <1>5 DEF G
<1>7. f = [kk \in 0 .. n |-> f[kk]] /\ g = [kk \in 0 .. n |-> g[kk]]
  BY DEF Trod
<1> QED BY <1>6, <1>7

\* One step more.
LEMMA TrodOn ==
  ASSUME NEW link, NEW p, NEW n \in Nat, NEW f, Trod(link, p, n, f)
  PROVE  Trod(link, p, n + 1, [i \in 0 .. n + 1 |-> IF i <= n THEN f[i] ELSE link[f[n]]])
<1> DEFINE g == [i \in 0 .. n + 1 |-> IF i <= n THEN f[i] ELSE link[f[n]]]
<1>1. \A i \in 0 .. n : f[i] = IF i = 0 THEN p ELSE link[f[i - 1]]
  BY DEF Trod
<1>2. ASSUME NEW i \in 0 .. n + 1 PROVE g[i] = IF i = 0 THEN p ELSE link[g[i - 1]]
  <2>1. CASE i = 0
    BY <1>1, <2>1
  <2>2. CASE i # 0 /\ i <= n
    <3>1. i \in 0 .. n /\ i - 1 \in 0 .. n + 1 /\ i - 1 <= n
      BY <2>2
    <3> QED BY <1>1, <2>2, <3>1
  <2>3. CASE i = n + 1
    <3>1. i # 0 /\ ~(i <= n) /\ i - 1 = n /\ n \in 0 .. n + 1
      BY <2>3
    <3> QED BY <3>1
  <2> QED BY <2>1, <2>2, <2>3
<1>3. g = [i \in 0 .. n + 1 |-> g[i]]
  OBVIOUS
<1> HIDE DEF g
<1>4. Trod(link, p, n + 1, g)
  BY <1>2, <1>3 DEF Trod
<1> QED BY <1>4 DEF g

\* A walk of any number of steps has such a function.
LEMMA TrodExists ==
  ASSUME NEW link, NEW p, NEW n \in Nat
  PROVE  \E f : Trod(link, p, n, f)
<1> DEFINE G == {kk \in Nat : \E f : Trod(link, p, kk, f)}
<1>1. 0 \in G
  <2> DEFINE f == [i \in 0 .. 0 |-> p]
  <2>1. f = [i \in 0 .. 0 |-> IF i = 0 THEN p ELSE link[f[i - 1]]]
    OBVIOUS
  <2> QED BY <2>1 DEF Trod
<1>2. ASSUME NEW kk \in Nat, kk \in G PROVE kk + 1 \in G
  <2>1. PICK f : Trod(link, p, kk, f)
    BY <1>2
  <2>2. \E g : Trod(link, p, kk + 1, g)
    BY <2>1, TrodOn
  <2> QED BY <2>2
<1> HIDE DEF G
<1>3. Nat \subseteq G
  BY <1>1, <1>2, SetInduction
<1> QED BY <1>3 DEF G

\* What the recursive function of Steps computes.
LEMMA StepsTrod ==
  ASSUME NEW link, NEW p, NEW n \in Nat, NEW f, Trod(link, p, n, f)
  PROVE  Steps(link, p, n) = f[n]
<1> DEFINE at == CHOOSE g : Trod(link, p, n, g)
<1>1. Trod(link, p, n, at)
  OBVIOUS
<1>2. at = f
  BY <1>1, TrodOnce
<1>3. Steps(link, p, n) = at[n]
  BY DEF Steps, Trod
<1> QED BY <1>2, <1>3

\* A walk of no step stays, and one step more follows the link once more.
LEMMA StepsAre ==
  ASSUME NEW link, NEW p, NEW n \in Nat
  PROVE  Steps(link, p, 0) = p /\ Steps(link, p, n + 1) = link[Steps(link, p, n)]
<1>1. PICK f : Trod(link, p, n, f)
  BY TrodExists
<1>2. Steps(link, p, n) = f[n]
  BY <1>1, StepsTrod
<1> DEFINE g == [i \in 0 .. n + 1 |-> IF i <= n THEN f[i] ELSE link[f[n]]]
<1>3. Trod(link, p, n + 1, g)
  BY <1>1, TrodOn
<1>4. g[n + 1] = link[f[n]]
  OBVIOUS
<1> HIDE DEF g
<1>5. Steps(link, p, n + 1) = link[f[n]]
  <2>1. n + 1 \in Nat
    OBVIOUS
  <2> QED BY <1>3, <1>4, <2>1, StepsTrod
<1>6. Steps(link, p, 0) = p
  <2>1. PICK h : Trod(link, p, 0, h)
    BY TrodExists
  <2>2. h[0] = p
    BY <2>1 DEF Trod
  <2> QED BY <2>1, <2>2, StepsTrod
<1> QED BY <1>2, <1>5, <1>6

-----------------------------------------------------------------------------
(* The list: what is laid out *)

Lists ==
  [next : [Pointers -> Pointers], prev : [Pointers -> Pointers],
   data : [Pointers -> ListValues \cup {NIL}], mid : Pointers, numels : Nat,
   spareels : Seq(ListEntries)]

\* w has the entries of l in order, between the two sentinels.
Linked(l, w) ==
  /\ w \in [0 .. l.numels + 1 -> Pointers] /\ w[0] = HEAD /\ w[l.numels + 1] = TAIL
  /\ \A i \in 1 .. l.numels : w[i] \in ListEntries /\ l.data[w[i]] \in ListValues
  /\ \A i, jj \in 0 .. l.numels + 1 : w[i] = w[jj] => i = jj
  /\ \A i \in 0 .. l.numels : l.next[w[i]] = w[i + 1] /\ l.prev[w[i + 1]] = w[i]
  /\ l.prev[HEAD] = NIL /\ l.next[TAIL] = NIL

\* mid is the one in the middle.
Centred(l, w) == l.mid = IF l.numels = 0 THEN NIL ELSE w[MidIndex(l) + 1]

\* The spare entries are not among them, and differ.
SparesApart(l, w) ==
  /\ Len(l.spareels) <= MaxSpare
  /\ \A kk \in 1 .. Len(l.spareels) : \A i \in 0 .. l.numels + 1 : l.spareels[kk] # w[i]
  /\ \A jj, kk \in 1 .. Len(l.spareels) : l.spareels[jj] = l.spareels[kk] => jj = kk

Laid(l, w) == l \in Lists /\ Linked(l, w) /\ Centred(l, w) /\ SparesApart(l, w)

\* Pointers are numbers; the sentinels and NIL are no entries.
LEMMA PointerFacts ==
  /\ HEAD \in Pointers /\ TAIL \in Pointers /\ NIL \in Pointers /\ ListEntries \subseteq Pointers
  /\ ListEntries \subseteq Nat \ {0}
  /\ HEAD \notin ListEntries /\ TAIL \notin ListEntries /\ NIL \notin ListEntries
  /\ HEAD # TAIL /\ HEAD # NIL /\ TAIL # NIL /\ NIL \notin ListValues
  /\ MaxElems \in Nat /\ MaxSpare \in Nat /\ ListValues \subseteq Nat
BY SimclistAssumption DEF HEAD, TAIL, NIL, Pointers, ListEntries

\* Halves of a number.
LEMMA Halves ==
  ASSUME NEW n \in Nat
  PROVE  /\ n \div 2 \in Nat /\ (n % 2 = 0 \/ n % 2 = 1) /\ n = 2 * (n \div 2) + (n % 2)
         /\ n % 2 = 1 => (n + 1) \div 2 = n \div 2 + 1
         /\ n % 2 = 0 => (n + 1) \div 2 = n \div 2
OBVIOUS

\* The middle position of a list that is not empty.
LEMMA MidIndexIs ==
  ASSUME NEW l, l.numels \in Nat, l.numels # 0
  PROVE  /\ MidIndex(l) \in 0 .. l.numels - 1
         /\ l.numels = 2 * MidIndex(l) + 1 \/ l.numels = 2 * MidIndex(l) + 2
<1> DEFINE n == l.numels
           m == (n - 1) \div 2
<1>1. n \in Nat /\ n # 0
  OBVIOUS
<1>2. m \in 0 .. n - 1 /\ (n = 2 * m + 1 \/ n = 2 * m + 2)
  <2> HIDE DEF n
  <2> QED BY <1>1
<1> QED BY <1>2 DEF MidIndex

\* A walk along next, and one along prev.
LEMMA WalkOn ==
  ASSUME NEW l, NEW w, l.numels \in Nat, Linked(l, w), NEW i \in 0 .. l.numels + 1, NEW kk \in Nat,
         i + kk <= l.numels + 1
  PROVE  Steps(l.next, w[i], kk) = w[i + kk]
<1> DEFINE G == {h \in Nat : i + h <= l.numels + 1 => Steps(l.next, w[i], h) = w[i + h]}
<1>1. 0 \in G
  BY StepsAre
<1>2. ASSUME NEW h \in Nat, h \in G PROVE h + 1 \in G
  <2> SUFFICES ASSUME i + (h + 1) <= l.numels + 1 PROVE Steps(l.next, w[i], h + 1) = w[i + (h + 1)]
    OBVIOUS
  <2>1. i + h \in 0 .. l.numels /\ i + h <= l.numels + 1 /\ (i + h) + 1 = i + (h + 1)
    OBVIOUS
  <2>2. Steps(l.next, w[i], h) = w[i + h]
    BY <1>2, <2>1
  <2>3. l.next[w[i + h]] = w[(i + h) + 1]
    BY <2>1 DEF Linked
  <2> QED BY <2>1, <2>2, <2>3, StepsAre
<1> HIDE DEF G
<1>3. Nat \subseteq G
  BY <1>1, <1>2, SetInduction
<1> QED BY <1>3 DEF G

\* A walk back from a position of the list comes to the one so much before it.
LEMMA WalkBack ==
  ASSUME NEW l, NEW w, l.numels \in Nat, Linked(l, w), NEW i \in 0 .. l.numels + 1, NEW kk \in Nat,
         kk <= i
  PROVE  Steps(l.prev, w[i], kk) = w[i - kk]
<1> DEFINE G == {h \in Nat : h <= i => Steps(l.prev, w[i], h) = w[i - h]}
<1>1. 0 \in G
  BY StepsAre
<1>2. ASSUME NEW h \in Nat, h \in G PROVE h + 1 \in G
  <2> SUFFICES ASSUME h + 1 <= i PROVE Steps(l.prev, w[i], h + 1) = w[i - (h + 1)]
    OBVIOUS
  <2>1. i - (h + 1) \in 0 .. l.numels /\ h <= i /\ (i - (h + 1)) + 1 = i - h
    OBVIOUS
  <2>2. Steps(l.prev, w[i], h) = w[i - h]
    BY <1>2, <2>1
  <2>3. l.prev[w[(i - (h + 1)) + 1]] = w[i - (h + 1)]
    BY <2>1 DEF Linked
  <2> QED BY <2>1, <2>2, <2>3, StepsAre
<1> HIDE DEF G
<1>3. Nat \subseteq G
  BY <1>1, <1>2, SetInduction
<1> QED BY <1>3 DEF G

\* So the walk from HEAD is w.
LEMMA FromHead ==
  ASSUME NEW l, NEW w, l.numels \in Nat, Linked(l, w), NEW i \in 0 .. l.numels + 1
  PROVE  Steps(l.next, HEAD, i) = w[i]
<1>1. w[0] = HEAD /\ 0 \in 0 .. l.numels + 1 /\ i \in Nat /\ 0 + i = i /\ i <= l.numels + 1
  BY DEF Linked
<1> QED BY <1>1, WalkOn

\* A position is found from whichever end, or the middle, the walk starts.
LEMMA FindPos ==
  ASSUME NEW l, NEW w, l.numels \in Nat, Linked(l, w), Centred(l, w), NEW pos \in -1 .. l.numels
  PROVE  list_findpos(l, pos) = w[pos + 1]
<1> DEFINE n == l.numels
           m == MidIndex(l)
<1>0. n \in Nat /\ w[0] = HEAD /\ w[n + 1] = TAIL /\ pos \in Int /\ -1 <= pos /\ pos <= n
  BY DEF Linked
<1>1. n # 0 => l.mid = w[m + 1] /\ m \in 0 .. n - 1 /\ (n = 2 * m + 1 \/ n = 2 * m + 2)
  BY MidIndexIs DEF Centred
<1>2. CASE n # 0 /\ 4 * (pos + 1) <= 1 * n
  <2>1. list_findpos(l, pos) = Steps(l.next, HEAD, pos + 1)
    <3>1. 4 * (pos + 1) < 2 * n
      <4> HIDE DEF n
      <4> QED BY <1>0, <1>2
    <3> QED BY <1>2, <3>1 DEF list_findpos
  <2>2. pos + 1 \in 0 .. l.numels + 1
    OBVIOUS
  <2> QED BY <2>1, <2>2, FromHead
<1>3. CASE n # 0 /\ ~(4 * (pos + 1) <= 1 * n) /\ 4 * (pos + 1) < 2 * n
  <2>1. list_findpos(l, pos) = Steps(l.prev, l.mid, m - pos)
    BY <1>3 DEF list_findpos
  <2>2. m + 1 \in 0 .. n + 1 /\ m - pos \in Nat /\ m - pos <= m + 1 /\ (m + 1) - (m - pos) = pos + 1
    <3> HIDE DEF n, m
    <3> QED BY <1>0, <1>1, <1>3
  <2>3. Steps(l.prev, w[m + 1], m - pos) = w[(m + 1) - (m - pos)]
    <3> HIDE DEF m
    <3> QED BY <2>2, WalkBack
  <2> QED BY <1>1, <1>3, <2>1, <2>2, <2>3
<1>4. CASE n # 0 /\ ~(4 * (pos + 1) < 2 * n) /\ 4 * (pos + 1) <= 3 * n
  <2>1. list_findpos(l, pos) = Steps(l.next, l.mid, pos - m)
    <3>1. ~(4 * (pos + 1) <= 1 * n)
      <4> HIDE DEF n
      <4> QED BY <1>0, <1>4
    <3> QED BY <1>4, <3>1 DEF list_findpos
  <2>2. m + 1 \in 0 .. n + 1 /\ pos - m \in Nat /\ (m + 1) + (pos - m) = pos + 1 /\ pos + 1 <= n + 1
    <3> HIDE DEF n, m
    <3> QED BY <1>0, <1>1, <1>4
  <2>3. Steps(l.next, w[m + 1], pos - m) = w[(m + 1) + (pos - m)]
    <3> HIDE DEF m
    <3> QED BY <2>2, WalkOn
  <2> QED BY <1>1, <1>4, <2>1, <2>2, <2>3
<1>5. CASE n = 0 \/ ~(4 * (pos + 1) <= 3 * n)
  <2>1. list_findpos(l, pos) = Steps(l.prev, TAIL, n - pos)
    <3>1. n # 0 => ~(4 * (pos + 1) <= 1 * n) /\ ~(4 * (pos + 1) < 2 * n)
      <4> HIDE DEF n
      <4> QED BY <1>0, <1>5
    <3> QED BY <1>5, <3>1 DEF list_findpos
  <2>2. n + 1 \in 0 .. n + 1 /\ n - pos \in Nat /\ n - pos <= n + 1 /\ (n + 1) - (n - pos) = pos + 1
    <3> HIDE DEF n
    <3> QED BY <1>0
  <2>3. Steps(l.prev, w[n + 1], n - pos) = w[(n + 1) - (n - pos)]
    BY <2>2, WalkBack
  <2> QED BY <1>0, <2>1, <2>2, <2>3
<1> QED BY <1>2, <1>3, <1>4, <1>5

\* What list_repOk asserts, and what the list holds.
LEMMA LaidIsOk ==
  ASSUME NEW l, NEW w, Laid(l, w)
  PROVE  RepOk(l) /\ Contents(l) = [i \in 1 .. l.numels |-> l.data[w[i]]]
<1>1. l.numels \in Nat /\ Linked(l, w) /\ Centred(l, w) /\ SparesApart(l, w)
  BY DEF Laid, Lists
<1>2. \A i \in 0 .. l.numels + 1 : Steps(l.next, HEAD, i) = w[i]
  BY <1>1, FromHead
<1>3. Contents(l) = [i \in 1 .. l.numels |-> l.data[w[i]]]
  BY <1>1, <1>2 DEF Contents
<1>4. l.mid = IF l.numels = 0 THEN NIL ELSE Steps(l.next, HEAD, MidIndex(l) + 1)
  <2>1. l.numels # 0 => MidIndex(l) + 1 \in 0 .. l.numels + 1
    BY <1>1, MidIndexIs
  <2> QED BY <1>1, <1>2, <2>1 DEF Centred
<1>5. Steps(l.next, HEAD, l.numels + 1) = TAIL
  <2>1. l.numels + 1 \in 0 .. l.numels + 1
    BY <1>1
  <2> QED BY <1>1, <1>2, <2>1 DEF Linked
<1>6. ASSUME NEW i \in 0 .. l.numels
      PROVE  LET e == Steps(l.next, HEAD, i) IN e # NIL /\ l.prev[l.next[e]] = e
  <2>1. Steps(l.next, HEAD, i) = w[i]
    BY <1>1, <1>2
  <2>2. w[i] # NIL
    <3>1. i = 0 \/ i \in 1 .. l.numels
      BY <1>1
    <3> QED BY <1>1, <3>1, PointerFacts DEF Linked
  <2>3. l.prev[l.next[w[i]]] = w[i]
    BY <1>1 DEF Linked
  <2> QED BY <2>1, <2>2, <2>3
<1>7. RepOk(l)
  BY <1>1, <1>4, <1>5, <1>6 DEF RepOk, Linked, SparesApart
<1> QED BY <1>3, <1>7

-----------------------------------------------------------------------------
(* The list: taking entries out *)

\* The kk entries after the s-th are taken out: what is left, and the list without them.
Rest(w, n, s, kk) == [i \in 0 .. n - kk + 1 |-> IF i <= s THEN w[i] ELSE w[i + kk]]
TakenOut(w, s, kk) == {w[s + i] : i \in 1 .. kk}
Spared(q) == IF Len(q) <= MaxSpare THEN Len(q) ELSE MaxSpare
CutOut(l, w, s, kk, mid, numels) ==
  LET es == [i \in 1 .. kk |-> w[s + i]]
  IN [next |-> [p \in Pointers |-> IF p \in TakenOut(w, s, kk) THEN NIL
                                   ELSE IF p = w[s] THEN w[s + kk + 1] ELSE l.next[p]],
      prev |-> [p \in Pointers |-> IF p \in TakenOut(w, s, kk) THEN NIL
                                   ELSE IF p = w[s + kk + 1] THEN w[s] ELSE l.prev[p]],
      data |-> [p \in Pointers |-> IF p \in TakenOut(w, s, kk) THEN NIL ELSE l.data[p]],
      mid |-> mid, numels |-> numels,
      spareels |-> SubSeq(l.spareels \o es, 1, Spared(l.spareels \o es))]
Without(l, w, s, kk, mid) == CutOut(l, w, s, kk, mid, l.numels - kk)

\* Spare entries are added to spare ones, as many as there is room for.
LEMMA JoinSpares ==
  ASSUME NEW q \in Seq(ListEntries), NEW r \in Seq(ListEntries)
  PROVE  LET x == SubSeq(q \o r, 1, Spared(q \o r))
         IN /\ x \in Seq(ListEntries) /\ Len(x) <= MaxSpare /\ Len(x) <= Len(q) + Len(r)
            /\ \A i \in 1 .. Len(x) : x[i] = IF i <= Len(q) THEN q[i] ELSE r[i - Len(q)]
<1> DEFINE y == q \o r
           c == Spared(y)
           x == SubSeq(y, 1, c)
<1>1. y \in Seq(ListEntries) /\ Len(y) = Len(q) + Len(r) /\ Len(q) \in Nat /\ Len(r) \in Nat
  OBVIOUS
<1>2. c \in 0 .. Len(y) /\ c <= MaxSpare
  <2> HIDE DEF y
  <2> QED BY <1>1, PointerFacts DEF Spared
<1>3. \A i \in 1 .. Len(y) : y[i] = IF i <= Len(q) THEN q[i] ELSE r[i - Len(q)]
  OBVIOUS
<1> HIDE DEF y, c
<1>4. x \in Seq(ListEntries) /\ Len(x) = c /\ \A i \in 1 .. c : x[i] = y[i]
  BY <1>1, <1>2
<1> HIDE DEF x
<1>5. /\ x \in Seq(ListEntries) /\ Len(x) <= MaxSpare /\ Len(x) <= Len(q) + Len(r)
      /\ \A i \in 1 .. Len(x) : x[i] = IF i <= Len(q) THEN q[i] ELSE r[i - Len(q)]
  BY <1>1, <1>2, <1>3, <1>4
<1> QED BY <1>5 DEF x, y, c

\* What is left stands as it stood, and is linked.
LEMMA WithoutLinked ==
  ASSUME NEW l, NEW w, Laid(l, w), NEW s \in Nat, NEW kk \in Nat, kk # 0, s + kk <= l.numels, NEW mid
  PROVE  Linked(Without(l, w, s, kk, mid), Rest(w, l.numels, s, kk))
<1> DEFINE n == l.numels
           m == Without(l, w, s, kk, mid)
           v == Rest(w, n, s, kk)
           old(i) == IF i <= s THEN i ELSE i + kk
<1>0. /\ n \in Nat /\ Linked(l, w)
      /\ l.next \in [Pointers -> Pointers] /\ l.prev \in [Pointers -> Pointers]
  BY DEF Laid, Lists
<1>1. /\ w \in [0 .. n + 1 -> Pointers] /\ w[0] = HEAD /\ w[n + 1] = TAIL
      /\ \A i \in 1 .. n : w[i] \in ListEntries /\ l.data[w[i]] \in ListValues
      /\ \A i, jj \in 0 .. n + 1 : w[i] = w[jj] => i = jj
      /\ \A i \in 0 .. n : l.next[w[i]] = w[i + 1] /\ l.prev[w[i + 1]] = w[i]
      /\ l.prev[HEAD] = NIL /\ l.next[TAIL] = NIL
  BY <1>0 DEF Linked
<1>2. /\ m.numels = n - kk /\ n - kk \in Nat
      /\ \A p \in Pointers : p \notin TakenOut(w, s, kk) =>
           /\ m.next[p] = IF p = w[s] THEN w[s + kk + 1] ELSE l.next[p]
           /\ m.prev[p] = IF p = w[s + kk + 1] THEN w[s] ELSE l.prev[p]
           /\ m.data[p] = l.data[p]
  BY <1>0 DEF Without, CutOut
<1>3. \A i \in 0 .. n - kk + 1 : /\ old(i) \in 0 .. n + 1 /\ v[i] = w[old(i)]
                               /\ (old(i) <= s \/ old(i) > s + kk)
  BY <1>0 DEF Rest
<1>4. ASSUME NEW i \in 0 .. n + 1, i <= s \/ i > s + kk PROVE w[i] \notin TakenOut(w, s, kk) /\ w[i] \in Pointers
  <2>1. ASSUME NEW jj \in 1 .. kk PROVE w[i] # w[s + jj]
    <3>1. s + jj \in 0 .. n + 1 /\ s + jj # i
      BY <1>0, <1>4
    <3> QED BY <1>1, <3>1
  <2> QED BY <1>1, <2>1 DEF TakenOut
<1> HIDE DEF m
<1>5. v \in [0 .. n - kk + 1 -> Pointers]
  <2>1. v = [i \in 0 .. n - kk + 1 |-> v[i]]
    BY DEF Rest
  <2> HIDE DEF v
  <2> QED BY <1>3, <1>4, <2>1
<1>6. v[0] = HEAD /\ v[n - kk + 1] = TAIL
  <2>1. 0 \in 0 .. n - kk + 1 /\ n - kk + 1 \in 0 .. n - kk + 1 /\ old(0) = 0 /\ old(n - kk + 1) = n + 1
    BY <1>0
  <2> QED BY <1>1, <1>3, <2>1
<1> HIDE DEF v
<1>7. ASSUME NEW i \in 1 .. n - kk PROVE v[i] \in ListEntries /\ m.data[v[i]] \in ListValues
  <2>1. i \in 0 .. n - kk + 1 /\ old(i) \in 1 .. n
    BY <1>0
  <2>2. v[i] = w[old(i)] /\ w[old(i)] \in Pointers /\ w[old(i)] \notin TakenOut(w, s, kk)
    BY <1>0, <1>3, <1>4, <2>1
  <2> HIDE DEF old
  <2> QED BY <1>1, <1>2, <2>1, <2>2
<1>8. ASSUME NEW i \in 0 .. n - kk + 1, NEW jj \in 0 .. n - kk + 1, v[i] = v[jj] PROVE i = jj
  <2>1. old(i) = old(jj)
    BY <1>1, <1>3, <1>8
  <2> QED BY <1>0, <2>1
<1>9. ASSUME NEW i \in 0 .. n - kk PROVE m.next[v[i]] = v[i + 1] /\ m.prev[v[i + 1]] = v[i]
  <2>1. i \in 0 .. n - kk + 1 /\ i + 1 \in 0 .. n - kk + 1
    BY <1>0
  <2>2. /\ v[i] = w[old(i)] /\ w[old(i)] \in Pointers /\ w[old(i)] \notin TakenOut(w, s, kk)
        /\ v[i + 1] = w[old(i + 1)] /\ w[old(i + 1)] \in Pointers /\ w[old(i + 1)] \notin TakenOut(w, s, kk)
    BY <1>0, <1>3, <1>4, <2>1
  <2>3. s \in 0 .. n + 1 /\ s + kk + 1 \in 0 .. n + 1
    BY <1>0
  <2>4. CASE i = s
    <3>1. old(i) = s /\ old(i + 1) = s + kk + 1
      BY <2>4
    <3> QED BY <1>2, <2>2, <3>1
  <2>5. CASE i # s
    <3>1. old(i) # s /\ old(i + 1) # s + kk + 1 /\ old(i + 1) = old(i) + 1 /\ old(i) \in 0 .. n
      BY <1>0, <2>5
    <3>2. w[old(i)] # w[s] /\ w[old(i + 1)] # w[s + kk + 1]
      BY <1>1, <1>3, <2>1, <2>3, <3>1
    <3>3. l.next[w[old(i)]] = w[old(i + 1)] /\ l.prev[w[old(i + 1)]] = w[old(i)]
      BY <1>1, <3>1
    <3> HIDE DEF old
    <3> QED BY <1>2, <2>2, <3>2, <3>3
  <2> QED BY <2>4, <2>5
<1>10. m.prev[HEAD] = NIL /\ m.next[TAIL] = NIL
  <2>1. 0 \in 0 .. n + 1 /\ n + 1 \in 0 .. n + 1 /\ s \in 0 .. n + 1 /\ s + kk + 1 \in 0 .. n + 1 /\ s # n + 1
        /\ s + kk + 1 # 0 /\ n + 1 > s + kk /\ 0 <= s
    BY <1>0
  <2>2. HEAD \notin TakenOut(w, s, kk) /\ TAIL \notin TakenOut(w, s, kk) /\ HEAD # w[s + kk + 1] /\ TAIL # w[s]
    BY <1>1, <1>4, <2>1
  <2> QED BY <1>1, <1>2, <2>2, PointerFacts
<1>11. Linked(m, v)
  BY <1>2, <1>5, <1>6, <1>7, <1>8, <1>9, <1>10 DEF Linked
<1> QED BY <1>11 DEF m, v

\* The entries taken out join the spare ones.
LEMMA WithoutSpares ==
  ASSUME NEW l, NEW w, Laid(l, w), NEW s \in Nat, NEW kk \in Nat, kk # 0, s + kk <= l.numels, NEW mid
  PROVE  /\ SparesApart(Without(l, w, s, kk, mid), Rest(w, l.numels, s, kk))
         /\ Without(l, w, s, kk, mid).spareels \in Seq(ListEntries)
<1> DEFINE n == l.numels
           m == Without(l, w, s, kk, mid)
           v == Rest(w, n, s, kk)
           q == l.spareels
           es == [i \in 1 .. kk |-> w[s + i]]
           x == SubSeq(q \o es, 1, Spared(q \o es))
<1>0. n \in Nat /\ q \in Seq(ListEntries) /\ Linked(l, w) /\ SparesApart(l, w)
  BY DEF Laid, Lists
<1>1. \A i \in 1 .. n : w[i] \in ListEntries
  BY <1>0 DEF Linked
<1>2. \A i, jj \in 0 .. n + 1 : w[i] = w[jj] => i = jj
  BY <1>0 DEF Linked
<1>3. /\ \A jj \in 1 .. Len(q) : \A i \in 0 .. n + 1 : q[jj] # w[i]
      /\ \A jj, i \in 1 .. Len(q) : q[jj] = q[i] => jj = i
  BY <1>0 DEF SparesApart
<1>4. es \in Seq(ListEntries) /\ Len(es) = kk /\ \A i \in 1 .. kk : es[i] = w[s + i]
  <2>1. \A i \in 1 .. kk : s + i \in 1 .. n
    BY <1>0
  <2>2. es \in [1 .. kk -> ListEntries]
    BY <1>1, <2>1
  <2> QED BY <2>2
<1>5. Len(q) \in Nat
  BY <1>0
<1>6. m.spareels = x /\ m.numels = n - kk
  BY DEF Without, CutOut
<1> HIDE DEF es, q, m
<1>7. /\ x \in Seq(ListEntries) /\ Len(x) <= MaxSpare /\ Len(x) <= Len(q) + kk
      /\ \A i \in 1 .. Len(x) : x[i] = IF i <= Len(q) THEN q[i] ELSE w[s + (i - Len(q))]
  <2>1. /\ x \in Seq(ListEntries) /\ Len(x) <= MaxSpare /\ Len(x) <= Len(q) + Len(es)
        /\ \A i \in 1 .. Len(x) : x[i] = IF i <= Len(q) THEN q[i] ELSE es[i - Len(q)]
    BY <1>0, <1>4, JoinSpares
  <2> HIDE DEF x
  <2>2. \A i \in 1 .. Len(x) : ~(i <= Len(q)) => i - Len(q) \in 1 .. kk
    BY <1>4, <1>5, <2>1
  <2> QED BY <1>4, <2>1, <2>2
<1> HIDE DEF x
<1>l. Len(x) \in Nat
  BY <1>7
<1>8. ASSUME NEW jj \in 1 .. Len(x), NEW i \in 0 .. n - kk + 1 PROVE x[jj] # v[i]
  <2>1. v[i] = w[IF i <= s THEN i ELSE i + kk]
    BY DEF Rest
  <2>2. (IF i <= s THEN i ELSE i + kk) \in 0 .. n + 1
    BY <1>0
  <2>3. CASE jj <= Len(q)
    <3>1. jj \in 1 .. Len(q)
      BY <1>5, <1>l, <2>3
    <3> QED BY <1>3, <1>7, <2>1, <2>2, <2>3, <3>1
  <2>4. CASE ~(jj <= Len(q))
    <3> DEFINE h == jj - Len(q)
               a == s + h
               b == IF i <= s THEN i ELSE i + kk
    <3>1. n \in Nat /\ Len(q) \in Nat /\ Len(x) \in Nat /\ Len(x) <= Len(q) + kk
      BY <1>0, <1>5, <1>7, <1>l
    <3>2. h \in 1 .. kk
      BY ONLY <2>4, <3>1, kk \in Nat
    <3>3. x[jj] = w[a] /\ v[i] = w[b]
      BY <1>7, <2>1, <2>4
    <3> HIDE DEF h
    <3>4. a \in 0 .. n + 1 /\ a # b
      BY ONLY <3>1, <3>2, s \in Nat, kk \in Nat, s + kk <= n
    <3> HIDE DEF a, b
    <3> QED BY <1>2, <2>2, <3>3, <3>4 DEF b
  <2> QED BY <2>3, <2>4
<1>9. ASSUME NEW i \in 1 .. Len(x), NEW jj \in 1 .. Len(x), x[i] = x[jj] PROVE i = jj
  <2>1. ASSUME NEW h \in 1 .. Len(x), ~(h <= Len(q))
        PROVE  s + (h - Len(q)) \in 0 .. n + 1 /\ x[h] = w[s + (h - Len(q))]
    BY <1>0, <1>5, <1>7, <1>l, <2>1
  <2>2. ASSUME NEW h \in 1 .. Len(x), h <= Len(q) PROVE h \in 1 .. Len(q) /\ x[h] = q[h]
    <3>1. h \in 1 .. Len(q)
      BY <1>5, <1>l, <2>2
    <3>2. \A g \in 1 .. Len(x) : g <= Len(q) => x[g] = q[g]
      BY <1>7
    <3> QED BY <2>2, <3>1, <3>2
  <2>3. CASE i <= Len(q) /\ jj <= Len(q)
    BY <1>3, <1>9, <2>2, <2>3
  <2>4. CASE (i <= Len(q)) # (jj <= Len(q))
    <3>1. ASSUME NEW h \in 1 .. Len(x), NEW g \in 1 .. Len(x), h <= Len(q), ~(g <= Len(q)) PROVE x[h] # x[g]
      <4>1. h \in 1 .. Len(q) /\ x[h] = q[h]
        BY <2>2, <3>1
      <4>2. s + (g - Len(q)) \in 0 .. n + 1 /\ x[g] = w[s + (g - Len(q))]
        BY <2>1, <3>1
      <4> QED BY <1>3, <4>1, <4>2
    <3> QED BY <1>9, <2>4, <3>1
  <2>5. CASE ~(i <= Len(q)) /\ ~(jj <= Len(q))
    <3>1. s + (i - Len(q)) = s + (jj - Len(q))
      BY <1>2, <1>9, <2>1, <2>5
    <3> QED BY <1>0, <1>5, <1>l, <3>1
  <2> QED BY <2>3, <2>4, <2>5
<1>10. SparesApart(m, v)
  BY <1>6, <1>7, <1>8, <1>9 DEF SparesApart
<1> QED BY <1>6, <1>7, <1>10 DEF m

\* A function on the first numbers is a sequence.
LEMMA IsSequence ==
  ASSUME NEW S, NEW n \in Nat, NEW f, f = [i \in 1 .. n |-> f[i]], \A i \in 1 .. n : f[i] \in S
  PROVE  f \in Seq(S) /\ Len(f) = n
<1>1. f \in [1 .. n -> S]
  OBVIOUS
<1> QED BY <1>1

\* A sequence without the kk elements after the s-th.
LEMMA SequenceWithout ==
  ASSUME NEW S, NEW c \in Seq(S), NEW s \in Nat, NEW kk \in Nat, s + kk <= Len(c)
  PROVE  LET r == SubSeq(c, 1, s) \o SubSeq(c, s + kk + 1, Len(c))
         IN /\ r = [i \in 1 .. Len(c) - kk |-> r[i]]
            /\ \A i \in 1 .. Len(c) - kk : r[i] = c[IF i <= s THEN i ELSE i + kk]
<1> DEFINE n == Len(c)
           a == SubSeq(c, 1, s)
           b == SubSeq(c, s + kk + 1, n)
<1>0. n \in Nat /\ s + kk <= n
  OBVIOUS
<1>1. a \in Seq(S) /\ Len(a) = s /\ \A i \in 1 .. s : a[i] = c[i]
  BY <1>0
<1>2. b \in Seq(S) /\ Len(b) = n - kk - s /\ \A i \in 1 .. n - kk - s : b[i] = c[s + kk + i]
  <2>1. b \in Seq(S) /\ Len(b) = n - kk - s
    BY <1>0
  <2>2. \A i \in 1 .. Len(b) : b[i] = c[(s + kk + 1) + i - 1]
    <3> DEFINE m == s + kk + 1
    <3>1. m \in Nat
      OBVIOUS
    <3> HIDE DEF m
    <3>2. \A i \in 1 .. Len(SubSeq(c, m, n)) : SubSeq(c, m, n)[i] = c[m + i - 1]
      BY <1>0, <3>1
    <3> QED BY <3>2 DEF m
  <2>3. \A i \in 1 .. n - kk - s : (s + kk + 1) + i - 1 = s + kk + i
    BY <1>0
  <2> HIDE DEF b, n
  <2> QED BY <2>1, <2>2, <2>3
<1> HIDE DEF a, b
<1>3. a \o b \in Seq(S) /\ Len(a \o b) = Len(a) + Len(b)
  BY <1>1, <1>2
<1>4. \A i \in 1 .. Len(a) + Len(b) : (a \o b)[i] = IF i <= Len(a) THEN a[i] ELSE b[i - Len(a)]
  BY <1>1, <1>2
<1>5. Len(a) + Len(b) = n - kk
  <2> HIDE DEF n
  <2> QED BY <1>0, <1>1, <1>2
<1>6. ASSUME NEW i \in 1 .. n - kk PROVE (a \o b)[i] = c[IF i <= s THEN i ELSE i + kk]
  <2>1. CASE i <= s
    BY <1>1, <1>4, <1>5, <2>1
  <2>2. CASE ~(i <= s)
    <3>1. i - s \in 1 .. n - kk - s /\ s + kk + (i - s) = i + kk
      BY <1>0, <2>2
    <3> QED BY <1>1, <1>2, <1>4, <1>5, <2>2, <3>1
  <2> QED BY <2>1, <2>2
<1>7. a \o b = [i \in 1 .. n - kk |-> (a \o b)[i]]
  <2> DEFINE ab == a \o b
  <2>1. ab \in Seq(S) /\ Len(ab) = n - kk
    BY <1>3, <1>5
  <2> HIDE DEF ab
  <2>2. ab = [i \in 1 .. n - kk |-> ab[i]]
    BY <2>1
  <2> QED BY <2>2 DEF ab
<1> QED BY <1>6, <1>7 DEF a, b

\* What a list holds is a sequence.
LEMMA ContentsAre ==
  ASSUME NEW l, NEW w, Laid(l, w)
  PROVE  /\ Contents(l) \in Seq(ListValues) /\ Len(Contents(l)) = l.numels
         /\ \A i \in 1 .. l.numels : Contents(l)[i] = l.data[w[i]] /\ l.data[w[i]] \in ListValues
<1> DEFINE c == Contents(l)
<1>1. c = [i \in 1 .. l.numels |-> l.data[w[i]]]
  BY LaidIsOk
<1>2. l.numels \in Nat /\ \A i \in 1 .. l.numels : l.data[w[i]] \in ListValues
  BY DEF Laid, Lists, Linked
<1> HIDE DEF c
<1>3. c = [i \in 1 .. l.numels |-> c[i]] /\ \A i \in 1 .. l.numels : c[i] = l.data[w[i]]
  BY <1>1
<1>4. c \in Seq(ListValues) /\ Len(c) = l.numels
  <2> DEFINE n == l.numels
  <2>1. n \in Nat /\ c = [i \in 1 .. n |-> c[i]] /\ \A i \in 1 .. n : c[i] \in ListValues
    BY <1>2, <1>3
  <2> HIDE DEF n
  <2>2. c \in Seq(ListValues) /\ Len(c) = n
    BY <2>1, IsSequence, Zenon
  <2> QED BY <2>2 DEF n
<1> QED BY <1>2, <1>3, <1>4 DEF c

\* The same of stored values.
LEMMA ValuesWithout ==
  ASSUME NEW c \in Seq(ListValues), NEW s \in Nat, NEW kk \in Nat, s + kk <= Len(c), NEW d,
         d = [i \in 1 .. Len(c) - kk |-> c[IF i <= s THEN i ELSE i + kk]]
  PROVE  d = SubSeq(c, 1, s) \o SubSeq(c, s + kk + 1, Len(c))
<1> DEFINE r == SubSeq(c, 1, s) \o SubSeq(c, s + kk + 1, Len(c))
<1>1. r = [i \in 1 .. Len(c) - kk |-> r[i]]
  BY SequenceWithout
<1>2. \A i \in 1 .. Len(c) - kk : r[i] = c[IF i <= s THEN i ELSE i + kk]
  BY SequenceWithout
<1> HIDE DEF r
<1>3. r = d
  BY <1>1, <1>2
<1> QED BY <1>3 DEF r

\* What the list holds without them.
Shortened(c, s, kk, n) == SubSeq(c, 1, s) \o SubSeq(c, s + kk + 1, n)

\* A list without a run of its entries, its middle put right, is laid as the rest is.
LEMMA WithoutHolds ==
  ASSUME NEW l, NEW w, Laid(l, w), NEW s \in Nat, NEW kk \in Nat, kk # 0, s + kk <= l.numels, NEW mid,
         mid = IF l.numels - kk = 0 THEN NIL
               ELSE Rest(w, l.numels, s, kk)[(l.numels - kk - 1) \div 2 + 1]
  PROVE  /\ Laid(Without(l, w, s, kk, mid), Rest(w, l.numels, s, kk))
         /\ Contents(Without(l, w, s, kk, mid)) = Shortened(Contents(l), s, kk, l.numels)
<1> DEFINE n == l.numels
           m == Without(l, w, s, kk, mid)
           v == Rest(w, n, s, kk)
           c == Contents(l)
<1>0. /\ n \in Nat /\ Linked(l, w) /\ l.next \in [Pointers -> Pointers] /\ l.prev \in [Pointers -> Pointers]
      /\ l.data \in [Pointers -> ListValues \cup {NIL}] /\ n - kk \in Nat
  BY DEF Laid, Lists
<1>1. Linked(m, v) /\ SparesApart(m, v) /\ m.spareels \in Seq(ListEntries)
  BY WithoutLinked, WithoutSpares
<1>2. m.numels = n - kk /\ m.mid = mid
  BY DEF Without, CutOut
<1>3. mid \in Pointers
  <2>1. n - kk # 0 => (n - kk - 1) \div 2 + 1 \in 0 .. n - kk + 1
    BY <1>0
  <2>2. v \in [0 .. n - kk + 1 -> Pointers]
    BY <1>1, <1>2 DEF Linked
  <2> HIDE DEF v
  <2> QED BY <2>1, <2>2, PointerFacts DEF v
<1>4. m \in Lists
  <2>1. w \in [0 .. n + 1 -> Pointers] /\ s \in 0 .. n + 1 /\ s + kk + 1 \in 0 .. n + 1
    BY <1>0 DEF Linked
  <2>2. w[s] \in Pointers /\ w[s + kk + 1] \in Pointers
    BY <2>1
  <2> DEFINE nx == m.next
             pv == m.prev
             dt == m.data
  <2>3. nx \in [Pointers -> Pointers] /\ pv \in [Pointers -> Pointers] /\ dt \in [Pointers -> ListValues \cup {NIL}]
    BY <1>0, <2>2, PointerFacts DEF Without, CutOut
  <2> DEFINE sp == m.spareels
             nn == n - kk
  <2>4. m = [next |-> nx, prev |-> pv, data |-> dt, mid |-> mid, numels |-> nn, spareels |-> sp]
    BY DEF Without, CutOut
  <2>5. sp \in Seq(ListEntries) /\ nn \in Nat
    BY <1>0, <1>1
  <2> HIDE DEF nx, pv, dt, sp, nn, m
  <2> QED BY <1>3, <2>3, <2>4, <2>5 DEF Lists
<1>5. Centred(m, v)
  BY <1>2 DEF Centred, MidIndex
<1>6. Laid(m, v)
  BY <1>1, <1>4, <1>5 DEF Laid
<1>7. c \in Seq(ListValues) /\ Len(c) = n /\ \A i \in 1 .. n : c[i] = l.data[w[i]]
  BY ContentsAre
<1>8. Contents(m) = [i \in 1 .. n - kk |-> m.data[v[i]]]
  <2> HIDE DEF m, v
  <2> QED BY <1>2, <1>6, LaidIsOk
<1>9. ASSUME NEW i \in 1 .. n - kk PROVE m.data[v[i]] = c[IF i <= s THEN i ELSE i + kk]
  <2> DEFINE jj == IF i <= s THEN i ELSE i + kk
  <2>1. jj \in 1 .. n /\ i \in 0 .. n - kk + 1
    BY <1>0
  <2>2. v[i] = w[jj]
    BY <2>1 DEF Rest
  <2>3. w[jj] \notin TakenOut(w, s, kk)
    <3>1. ASSUME NEW h \in 1 .. kk PROVE w[jj] # w[s + h]
      <4>1. s + h \in 0 .. n + 1 /\ jj \in 0 .. n + 1 /\ s + h # jj
        BY <1>0, <2>1
      <4> HIDE DEF jj
      <4> QED BY <1>0, <4>1 DEF Linked
    <3> HIDE DEF jj
    <3> QED BY <3>1 DEF TakenOut
  <2>4. w[jj] \in Pointers
    <3>1. jj \in 0 .. n + 1
      BY <1>0, <2>1
    <3> HIDE DEF jj
    <3> QED BY <1>0, <3>1 DEF Linked
  <2>5. m.data[w[jj]] = l.data[w[jj]]
    <3> HIDE DEF jj
    <3> QED BY <2>3, <2>4 DEF Without, CutOut
  <2>6. c[jj] = l.data[w[jj]]
    BY <1>7, <2>1
  <2> QED BY <2>2, <2>5, <2>6
<1> HIDE DEF m, v, c
<1>10. Contents(m) = SubSeq(c, 1, s) \o SubSeq(c, s + kk + 1, n)
  <2>1. Contents(m) = [i \in 1 .. n - kk |-> c[IF i <= s THEN i ELSE i + kk]]
    BY <1>8, <1>9
  <2> DEFINE d == Contents(m)
  <2>2. d = [i \in 1 .. Len(c) - kk |-> c[IF i <= s THEN i ELSE i + kk]] /\ s + kk <= Len(c)
    BY <1>7, <2>1
  <2> HIDE DEF d
  <2>3. d = SubSeq(c, 1, s) \o SubSeq(c, s + kk + 1, Len(c))
    BY <1>7, <2>2, ValuesWithout
  <2> QED BY <1>7, <2>3 DEF d
<1> QED BY <1>6, <1>10 DEF m, v, c, Shortened

\* Entries that are given back, and a link that is made, in a record written out.
LEMMA SpareOrFreeIs ==
  ASSUME NEW l \in Lists, NEW es \in Seq(ListEntries)
  PROVE  SpareOrFree(l, es) =
           [next |-> [p \in Pointers |-> IF p \in ToSet(es) THEN NIL ELSE l.next[p]],
            prev |-> [p \in Pointers |-> IF p \in ToSet(es) THEN NIL ELSE l.prev[p]],
            data |-> [p \in Pointers |-> IF p \in ToSet(es) THEN NIL ELSE l.data[p]],
            mid |-> l.mid, numels |-> l.numels,
            spareels |-> SubSeq(l.spareels \o es, 1, Spared(l.spareels \o es))]
<1>1. Len(l.spareels \o es) = Len(l.spareels) + Len(es)
  BY DEF Lists
<1> DEFINE sp == SubSeq(l.spareels \o es, 1, Spared(l.spareels \o es))
           nx == [p \in Pointers |-> IF p \in ToSet(es) THEN NIL ELSE l.next[p]]
           pv == [p \in Pointers |-> IF p \in ToSet(es) THEN NIL ELSE l.prev[p]]
           dt == [p \in Pointers |-> IF p \in ToSet(es) THEN NIL ELSE l.data[p]]
<1>2. SpareOrFree(l, es) =
        [l EXCEPT !.next = nx, !.prev = pv, !.data = dt, !.spareels = sp]
  BY <1>1 DEF SpareOrFree, Spared
<1> HIDE DEF sp, nx, pv, dt
<1>3. SpareOrFree(l, es) =
        [next |-> nx, prev |-> pv, data |-> dt, mid |-> l.mid, numels |-> l.numels, spareels |-> sp]
  BY <1>2 DEF Lists
<1> QED BY <1>3 DEF sp, nx, pv, dt

\* What Link changes.
LEMMA LinkIs ==
  ASSUME NEW l \in Lists, NEW p \in Pointers, NEW q \in Pointers
  PROVE  /\ Link(l, p, q) =
              [next |-> [x \in Pointers |-> IF x = p THEN q ELSE l.next[x]],
               prev |-> [x \in Pointers |-> IF x = q THEN p ELSE l.prev[x]],
               data |-> l.data, mid |-> l.mid, numels |-> l.numels, spareels |-> l.spareels]
         /\ Link(l, p, q) \in Lists
<1>1. /\ l.next \in [Pointers -> Pointers] /\ l.prev \in [Pointers -> Pointers]
      /\ l = [next |-> l.next, prev |-> l.prev, data |-> l.data, mid |-> l.mid, numels |-> l.numels,
              spareels |-> l.spareels]
  BY DEF Lists
<1>2. /\ [l.next EXCEPT ![p] = q] = [x \in Pointers |-> IF x = p THEN q ELSE l.next[x]]
      /\ [l.prev EXCEPT ![q] = p] = [x \in Pointers |-> IF x = q THEN p ELSE l.prev[x]]
  BY <1>1
<1>3. Link(l, p, q) = [l EXCEPT !.next = [l.next EXCEPT ![p] = q], !.prev = [l.prev EXCEPT ![q] = p]]
  BY DEF Link, Lists
<1> DEFINE nx == [l.next EXCEPT ![p] = q]
           pv == [l.prev EXCEPT ![q] = p]
<1>4. nx \in [Pointers -> Pointers] /\ pv \in [Pointers -> Pointers]
  BY <1>1
<1> HIDE DEF nx, pv
<1>5. Link(l, p, q) = [next |-> nx, prev |-> pv, data |-> l.data, mid |-> l.mid, numels |-> l.numels,
                       spareels |-> l.spareels]
  BY <1>3 DEF Lists, nx, pv
<1>6. Link(l, p, q) \in Lists
  BY <1>4, <1>5 DEF Lists
<1> QED BY <1>2, <1>5, <1>6 DEF nx, pv

\* The same, pointer by pointer.
LEMMA LinkHas ==
  ASSUME NEW l \in Lists, NEW p \in Pointers, NEW q \in Pointers
  PROVE  /\ Link(l, p, q) \in Lists
         /\ \A x \in Pointers : /\ Link(l, p, q).next[x] = IF x = p THEN q ELSE l.next[x]
                               /\ Link(l, p, q).prev[x] = IF x = q THEN p ELSE l.prev[x]
         /\ Link(l, p, q).data = l.data /\ Link(l, p, q).mid = l.mid
         /\ Link(l, p, q).numels = l.numels /\ Link(l, p, q).spareels = l.spareels
<1> DEFINE kk == Link(l, p, q)
<1> HIDE DEF kk
<1>1. kk = [next |-> [x \in Pointers |-> IF x = p THEN q ELSE l.next[x]],
           prev |-> [x \in Pointers |-> IF x = q THEN p ELSE l.prev[x]],
           data |-> l.data, mid |-> l.mid, numels |-> l.numels, spareels |-> l.spareels]
  BY LinkIs DEF kk
<1>2. kk \in Lists
  BY LinkIs DEF kk
<1>3. \A x \in Pointers : /\ kk.next[x] = IF x = p THEN q ELSE l.next[x]
                         /\ kk.prev[x] = IF x = q THEN p ELSE l.prev[x]
  BY <1>1
<1>4. kk.data = l.data /\ kk.mid = l.mid /\ kk.numels = l.numels /\ kk.spareels = l.spareels
  BY <1>1
<1> QED BY <1>2, <1>3, <1>4 DEF kk

\* The entries taken out, as the sequence that is given back.
Run(w, s, kk) == [i \in 1 .. kk |-> w[s + i]]

\* The entries of a run: they are entries, and the two beside the run are not in it.
LEMMA TakenAre ==
  ASSUME NEW l, NEW w, Laid(l, w), NEW s \in Nat, NEW kk \in Nat, kk # 0, s + kk <= l.numels
  PROVE  /\ Run(w, s, kk) \in Seq(ListEntries) /\ ToSet(Run(w, s, kk)) = TakenOut(w, s, kk)
         /\ w[s] \notin TakenOut(w, s, kk) /\ w[s + kk + 1] \notin TakenOut(w, s, kk)
         /\ w[s] \in Pointers /\ w[s + kk + 1] \in Pointers
<1> DEFINE n == l.numels
           es == Run(w, s, kk)
<1>0. n \in Nat /\ Linked(l, w)
  BY DEF Laid, Lists
<1>e. es = [i \in 1 .. kk |-> w[s + i]]
  BY DEF Run
<1> HIDE DEF es
<1>1. \A i \in 1 .. kk : s + i \in 1 .. n
  BY <1>0
<1>2. \A i \in 1 .. kk : es[i] \in ListEntries
  BY <1>0, <1>1, <1>e DEF Linked
<1>3. es \in Seq(ListEntries) /\ Len(es) = kk
  BY <1>2, <1>e, IsSequence
<1>4. DOMAIN es = 1 .. kk
  BY <1>3
<1>5. ToSet(es) = TakenOut(w, s, kk)
  BY <1>4, <1>e DEF ToSet, TakenOut
<1>6. s \in 0 .. n + 1 /\ s + kk + 1 \in 0 .. n + 1
  BY <1>0
<1>7. w[s] \in Pointers /\ w[s + kk + 1] \in Pointers
  BY <1>0, <1>6 DEF Linked
<1>8. ASSUME NEW h \in 1 .. kk PROVE w[s] # w[s + h] /\ w[s + kk + 1] # w[s + h]
  <2>1. s + h \in 0 .. n + 1 /\ s + h # s /\ s + h # s + kk + 1
    BY <1>0
  <2> QED BY <1>0, <1>6, <2>1 DEF Linked
<1> QED BY <1>3, <1>5, <1>7, <1>8 DEF TakenOut, es

\* Given back and then linked, or linked and then given back: the list without them.
LEMMA SparedThenLinked ==
  ASSUME NEW l, NEW w, Laid(l, w), NEW s \in Nat, NEW kk \in Nat, kk # 0, s + kk <= l.numels,
         NEW a \in Lists, a.next = l.next, a.prev = l.prev, a.data = l.data, a.spareels = l.spareels
  PROVE  Link(SpareOrFree(a, Run(w, s, kk)), w[s], w[s + kk + 1]) = CutOut(l, w, s, kk, a.mid, a.numels)
<1> DEFINE es == Run(w, s, kk)
           b == SpareOrFree(a, es)
           T == TakenOut(w, s, kk)
           sp == SubSeq(l.spareels \o es, 1, Spared(l.spareels \o es))
<1> HIDE DEF es, b, sp
<1>1. l \in Lists
  BY DEF Laid
<1>3. /\ es \in Seq(ListEntries) /\ ToSet(es) = T /\ w[s] \notin T /\ w[s + kk + 1] \notin T
      /\ w[s] \in Pointers /\ w[s + kk + 1] \in Pointers
  <2>1. Run(w, s, kk) \in Seq(ListEntries)
    BY TakenAre
  <2>2. ToSet(Run(w, s, kk)) = TakenOut(w, s, kk)
    BY TakenAre
  <2>3. w[s] \notin TakenOut(w, s, kk) /\ w[s + kk + 1] \notin TakenOut(w, s, kk)
    BY TakenAre
  <2>4. w[s] \in Pointers /\ w[s + kk + 1] \in Pointers
    BY TakenAre
  <2> QED BY <2>1, <2>2, <2>3, <2>4 DEF es
<1> DEFINE nx == [p \in Pointers |-> IF p \in T THEN NIL ELSE l.next[p]]
           pv == [p \in Pointers |-> IF p \in T THEN NIL ELSE l.prev[p]]
           dt == [p \in Pointers |-> IF p \in T THEN NIL ELSE l.data[p]]
<1>4. b = [next |-> nx, prev |-> pv, data |-> dt, mid |-> a.mid, numels |-> a.numels, spareels |-> sp]
  <2>1. SpareOrFree(a, es) =
           [next |-> [p \in Pointers |-> IF p \in ToSet(es) THEN NIL ELSE a.next[p]],
            prev |-> [p \in Pointers |-> IF p \in ToSet(es) THEN NIL ELSE a.prev[p]],
            data |-> [p \in Pointers |-> IF p \in ToSet(es) THEN NIL ELSE a.data[p]],
            mid |-> a.mid, numels |-> a.numels,
            spareels |-> SubSeq(a.spareels \o es, 1, Spared(a.spareels \o es))]
    BY ONLY <1>3, a \in Lists, SpareOrFreeIs
  <2>2. /\ [p \in Pointers |-> IF p \in ToSet(es) THEN NIL ELSE a.next[p]] = nx
        /\ [p \in Pointers |-> IF p \in ToSet(es) THEN NIL ELSE a.prev[p]] = pv
        /\ [p \in Pointers |-> IF p \in ToSet(es) THEN NIL ELSE a.data[p]] = dt
    BY <1>3
  <2>3. SubSeq(a.spareels \o es, 1, Spared(a.spareels \o es)) = sp
    BY DEF sp
  <2> HIDE DEF nx, pv, dt
  <2> QED BY ONLY <2>1, <2>2, <2>3 DEF b
<1>5. nx \in [Pointers -> Pointers] /\ pv \in [Pointers -> Pointers] /\ dt \in [Pointers -> ListValues \cup {NIL}]
  BY <1>1, PointerFacts DEF Lists
<1>6. sp \in Seq(ListEntries)
  <2>1. l.spareels \in Seq(ListEntries)
    BY <1>1 DEF Lists
  <2> QED BY <1>3, <2>1, JoinSpares DEF sp
<1>f. \A p \in Pointers : /\ nx[p] = IF p \in T THEN NIL ELSE l.next[p]
                         /\ pv[p] = IF p \in T THEN NIL ELSE l.prev[p]
  OBVIOUS
<1>d. dt = [p \in Pointers |-> IF p \in TakenOut(w, s, kk) THEN NIL ELSE l.data[p]]
  OBVIOUS
<1> HIDE DEF nx, pv, dt, T
<1>7. b \in Lists /\ b.next = nx /\ b.prev = pv /\ b.data = dt /\ b.mid = a.mid /\ b.numels = a.numels /\ b.spareels = sp
  <2>1. a.mid \in Pointers /\ a.numels \in Nat
    BY DEF Lists
  <2> QED BY <1>4, <1>5, <1>6, <2>1 DEF Lists
<1> DEFINE mn == [x \in Pointers |-> IF x = w[s] THEN w[s + kk + 1] ELSE nx[x]]
           mp == [x \in Pointers |-> IF x = w[s + kk + 1] THEN w[s] ELSE pv[x]]
<1>8. Link(b, w[s], w[s + kk + 1]) = [next |-> mn, prev |-> mp, data |-> dt, mid |-> a.mid,
                                     numels |-> a.numels, spareels |-> sp]
  <2>1. Link(b, w[s], w[s + kk + 1]) =
          [next |-> [x \in Pointers |-> IF x = w[s] THEN w[s + kk + 1] ELSE b.next[x]],
           prev |-> [x \in Pointers |-> IF x = w[s + kk + 1] THEN w[s] ELSE b.prev[x]],
           data |-> b.data, mid |-> b.mid, numels |-> b.numels, spareels |-> b.spareels]
    BY <1>3, <1>7, LinkIs
  <2> QED BY <1>7, <2>1
<1>9. mn = [p \in Pointers |-> IF p \in T THEN NIL ELSE IF p = w[s] THEN w[s + kk + 1] ELSE l.next[p]]
  BY <1>3, <1>f
<1>10. mp = [p \in Pointers |-> IF p \in T THEN NIL ELSE IF p = w[s + kk + 1] THEN w[s] ELSE l.prev[p]]
  BY <1>3, <1>f
<1> HIDE DEF mn, mp
<1>11. CutOut(l, w, s, kk, a.mid, a.numels) = [next |-> mn, prev |-> mp, data |-> dt, mid |-> a.mid,
                                               numels |-> a.numels, spareels |-> sp]
  BY <1>9, <1>10, <1>d DEF CutOut, T, sp, es, Run
<1> QED BY <1>8, <1>11 DEF b, es

\* Linked before it is given back, as list_drop_elem does with one entry.
LEMMA LinkedThenSpared ==
  ASSUME NEW l, NEW w, Laid(l, w), NEW pos \in Nat, pos < l.numels, NEW mid \in Pointers
  PROVE  [SpareOrFree(Link([l EXCEPT !.mid = mid], w[pos], w[pos + 2]), <<w[pos + 1]>>) EXCEPT !.numels = @ - 1]
         = Without(l, w, pos, 1, mid)
<1> DEFINE es == Run(w, pos, 1)
           a == [l EXCEPT !.mid = mid]
           b == Link(a, w[pos], w[pos + 2])
           T == TakenOut(w, pos, 1)
           sp == SubSeq(l.spareels \o es, 1, Spared(l.spareels \o es))
<1>0. l \in Lists /\ l.numels \in Nat /\ pos + 1 <= l.numels
  BY DEF Laid, Lists
<1>1. /\ a \in Lists /\ a.next = l.next /\ a.prev = l.prev /\ a.data = l.data /\ a.mid = mid
      /\ a.numels = l.numels /\ a.spareels = l.spareels
  BY <1>0 DEF Lists
<1>2. es = <<w[pos + 1]>>
  BY DEF Run
<1> HIDE DEF es, a, b, sp, T
<1>3. /\ es \in Seq(ListEntries) /\ ToSet(es) = T /\ w[pos] \notin T /\ w[pos + 2] \notin T
      /\ w[pos] \in Pointers /\ w[pos + 2] \in Pointers
  <2>1. Run(w, pos, 1) \in Seq(ListEntries)
    BY <1>0, TakenAre
  <2>2. ToSet(Run(w, pos, 1)) = TakenOut(w, pos, 1)
    BY <1>0, TakenAre
  <2>3. w[pos] \notin TakenOut(w, pos, 1) /\ w[pos + 1 + 1] \notin TakenOut(w, pos, 1)
    BY <1>0, TakenAre
  <2>4. w[pos] \in Pointers /\ w[pos + 1 + 1] \in Pointers
    <3>1. w \in [0 .. l.numels + 1 -> Pointers] /\ pos \in 0 .. l.numels + 1 /\ pos + 1 + 1 \in 0 .. l.numels + 1
      BY <1>0 DEF Laid, Linked
    <3> QED BY <3>1
  <2>5. pos + 1 + 1 = pos + 2
    OBVIOUS
  <2> QED BY <2>1, <2>2, <2>3, <2>4, <2>5 DEF es, T
<1>4. /\ b \in Lists
      /\ b = [next |-> [x \in Pointers |-> IF x = w[pos] THEN w[pos + 2] ELSE l.next[x]],
              prev |-> [x \in Pointers |-> IF x = w[pos + 2] THEN w[pos] ELSE l.prev[x]],
              data |-> l.data, mid |-> mid, numels |-> l.numels, spareels |-> l.spareels]
  <2>1. b \in Lists
    BY <1>1, <1>3, LinkIs DEF b
  <2>2. b = [next |-> [x \in Pointers |-> IF x = w[pos] THEN w[pos + 2] ELSE a.next[x]],
             prev |-> [x \in Pointers |-> IF x = w[pos + 2] THEN w[pos] ELSE a.prev[x]],
             data |-> a.data, mid |-> a.mid, numels |-> a.numels, spareels |-> a.spareels]
    BY <1>1, <1>3, LinkIs DEF b
  <2> QED BY <1>1, <2>1, <2>2
<1> DEFINE m == SpareOrFree(b, es)
           mn == [p \in Pointers |-> IF p \in T THEN NIL ELSE b.next[p]]
           mp == [p \in Pointers |-> IF p \in T THEN NIL ELSE b.prev[p]]
           md == [p \in Pointers |-> IF p \in T THEN NIL ELSE b.data[p]]
<1>5. b.mid = mid /\ b.numels = l.numels /\ b.spareels = l.spareels /\ b.data = l.data
  BY <1>4
<1>6. m = [next |-> mn, prev |-> mp, data |-> md, mid |-> mid, numels |-> l.numels, spareels |-> sp]
  BY <1>3, <1>4, <1>5, SpareOrFreeIs DEF sp
<1> HIDE DEF m, mn, mp, md
<1>7. [m EXCEPT !.numels = @ - 1] =
        [next |-> mn, prev |-> mp, data |-> md, mid |-> mid, numels |-> l.numels - 1, spareels |-> sp]
  BY <1>6
<1>8. mn = [p \in Pointers |-> IF p \in T THEN NIL ELSE IF p = w[pos] THEN w[pos + 1 + 1] ELSE l.next[p]]
  BY <1>3, <1>4 DEF mn
<1>9. mp = [p \in Pointers |-> IF p \in T THEN NIL ELSE IF p = w[pos + 1 + 1] THEN w[pos] ELSE l.prev[p]]
  BY <1>3, <1>4 DEF mp
<1>10. md = [p \in Pointers |-> IF p \in T THEN NIL ELSE l.data[p]]
  BY <1>5 DEF md
<1>11. [m EXCEPT !.numels = @ - 1] = Without(l, w, pos, 1, mid)
  BY <1>7, <1>8, <1>9, <1>10 DEF Without, CutOut, T, sp, es, Run
<1> QED BY <1>2, <1>11 DEF m, b, a

\* One entry taken out.
LEMMA DeleteAtIs ==
  ASSUME NEW l, NEW w, Laid(l, w), NEW pos \in Nat, pos < l.numels
  PROVE  /\ Laid(list_delete_at(l, pos), Rest(w, l.numels, pos, 1))
         /\ list_delete_at(l, pos).numels = l.numels - 1
         /\ Contents(list_delete_at(l, pos)) = SubSeq(Contents(l), 1, pos) \o SubSeq(Contents(l), pos + 2, l.numels)
         /\ Extracted(l, pos) = Contents(l)[pos + 1]
<1> DEFINE n == l.numels
           m == MidIndex(l)
           tmp == list_findpos(l, pos)
           mid == CASE n = 1 -> NIL
                    [] n # 1 /\ n % 2 = 1 -> IF UpperHalf(l, pos) THEN l.prev[l.mid] ELSE l.mid
                    [] OTHER -> IF ~UpperHalf(l, pos) THEN l.next[l.mid] ELSE l.mid
           v == Rest(w, n, pos, 1)
<1>0. /\ n \in Nat /\ Linked(l, w) /\ Centred(l, w) /\ pos + 1 <= n /\ l \in Lists /\ n # 0
  BY DEF Laid, Lists
<1>1. tmp = w[pos + 1]
  <2>1. pos \in -1 .. l.numels
    BY <1>0
  <2> QED BY <1>0, <2>1, FindPos
<1>2. l.prev[tmp] = w[pos] /\ l.next[tmp] = w[pos + 2]
  <2>1. pos \in 0 .. n /\ pos + 1 \in 0 .. n /\ pos + 1 + 1 = pos + 2
    BY <1>0
  <2> HIDE DEF tmp
  <2> QED BY <1>0, <1>1, <2>1 DEF Linked
<1>3. l.mid = w[m + 1] /\ m \in 0 .. n - 1 /\ (n = 2 * m + 1 \/ n = 2 * m + 2)
  BY <1>0, MidIndexIs DEF Centred
<1>4. mid = IF n - 1 = 0 THEN NIL ELSE v[(n - 1 - 1) \div 2 + 1]
  <2>0. \A i \in 0 .. n : v[i] = w[IF i <= pos THEN i ELSE i + 1]
    BY <1>0 DEF Rest
  <2> HIDE DEF v, m
  <2>1. CASE n = 1
    BY <2>1
  <2>2. CASE n # 1 /\ n = 2 * m + 1
    <3>1. n % 2 = 1 /\ n \div 2 = m /\ (n - 1 - 1) \div 2 + 1 = m /\ m \in 0 .. n /\ m + 1 \in 0 .. n
      BY <1>0, <1>3, <2>2
    <3>2. l.prev[w[m + 1]] = w[m]
      BY <1>0, <3>1 DEF Linked
    <3>3. v[m] = w[IF m <= pos THEN m ELSE m + 1]
      BY <2>0, <3>1
    <3>4. UpperHalf(l, pos) <=> m <= pos
      BY <3>1 DEF UpperHalf
    <3> QED BY <1>3, <2>2, <3>1, <3>2, <3>3, <3>4
  <2>3. CASE n = 2 * m + 2
    <3>1. n # 1 /\ n % 2 # 1 /\ n \div 2 = m + 1 /\ (n - 1 - 1) \div 2 + 1 = m + 1 /\ m + 1 \in 0 .. n /\ n # 0
          /\ n - 1 # 0 /\ m + 1 + 1 = m + 2
      BY <1>0, <1>3, <2>3
    <3>2. l.next[w[m + 1]] = w[m + 2]
      BY <1>0, <3>1 DEF Linked
    <3>3. v[m + 1] = w[IF m + 1 <= pos THEN m + 1 ELSE m + 2]
      BY <2>0, <3>1
    <3>4. UpperHalf(l, pos) <=> m + 1 <= pos
      BY <3>1 DEF UpperHalf
    <3> QED BY <1>3, <3>1, <3>2, <3>3, <3>4
  <2> QED BY <1>3, <2>1, <2>2, <2>3
<1>5. list_drop_elem(l, tmp, pos) = SpareOrFree(Link([l EXCEPT !.mid = mid], w[pos], w[pos + 2]), <<w[pos + 1]>>)
  BY <1>1, <1>2 DEF list_drop_elem
<1> HIDE DEF mid, v, tmp
<1>6. mid \in Pointers
  <2>1. n - 1 # 0 => (n - 1 - 1) \div 2 + 1 \in 0 .. n - 1 + 1
    BY <1>0
  <2>2. v \in [0 .. n - 1 + 1 -> Pointers]
    <3>1. Linked(Without(l, w, pos, 1, mid), Rest(w, l.numels, pos, 1))
      BY <1>0, WithoutLinked
    <3>2. Without(l, w, pos, 1, mid).numels = n - 1
      BY DEF Without, CutOut
    <3> QED BY <3>1, <3>2 DEF Linked, v
  <2> QED BY <1>4, <2>1, <2>2, PointerFacts
<1>7. list_delete_at(l, pos) = Without(l, w, pos, 1, mid)
  BY <1>5, <1>6, LinkedThenSpared DEF list_delete_at, tmp
<1>8. /\ Laid(Without(l, w, pos, 1, mid), Rest(w, l.numels, pos, 1))
      /\ Contents(Without(l, w, pos, 1, mid))
           = SubSeq(Contents(l), 1, pos) \o SubSeq(Contents(l), pos + 1 + 1, l.numels)
  <2>1. mid = IF l.numels - 1 = 0 THEN NIL
              ELSE Rest(w, l.numels, pos, 1)[(l.numels - 1 - 1) \div 2 + 1]
    BY <1>4 DEF v
  <2>2. pos + 1 <= l.numels /\ 1 # 0 /\ 1 \in Nat
    BY <1>0
  <2>3. Laid(Without(l, w, pos, 1, mid), Rest(w, l.numels, pos, 1))
    BY <2>1, <2>2, WithoutHolds
  <2>4. Contents(Without(l, w, pos, 1, mid)) = Shortened(Contents(l), pos, 1, l.numels)
    BY <2>1, <2>2, WithoutHolds
  <2> QED BY <2>3, <2>4 DEF Shortened
<1>9. pos + 1 + 1 = pos + 2
  OBVIOUS
<1>10. Without(l, w, pos, 1, mid).numels = n - 1
  BY DEF Without, CutOut
<1>11. Extracted(l, pos) = Contents(l)[pos + 1]
  <2>1. pos + 1 \in 1 .. l.numels
    BY <1>0
  <2> QED BY <1>1, <2>1, ContentsAre DEF Extracted, tmp
<1> QED BY <1>7, <1>8, <1>9, <1>10, <1>11

\* All entries taken out; of an empty list, none.
LEMMA ClearIs ==
  ASSUME NEW l, NEW w, Laid(l, w)
  PROVE  \E v : /\ Laid(list_clear(l), v) /\ list_clear(l).numels = 0
                /\ l.numels # 0 => Contents(list_clear(l))
                     = SubSeq(Contents(l), 1, 0) \o SubSeq(Contents(l), l.numels + 1, l.numels)
<1> DEFINE n == l.numels
           all == [i \in 1 .. n |-> Steps(l.next, HEAD, i)]
           a == [l EXCEPT !.mid = NIL]
<1>0. /\ n \in Nat /\ Linked(l, w) /\ Centred(l, w) /\ l \in Lists
  BY DEF Laid, Lists
<1>1. all = Run(w, 0, n)
  <2>1. \A i \in 1 .. n : Steps(l.next, HEAD, i) = w[i] /\ 0 + i = i
    BY <1>0, FromHead
  <2> QED BY <2>1 DEF Run
<1>2. CASE n # 0
  <2> DEFINE s == 0
             kk == n
             W == Without(l, w, s, kk, NIL)
             b == Link(SpareOrFree(l, all), HEAD, TAIL)
             c == Contents(l)
  <2>1. w[s] = HEAD /\ w[s + kk + 1] = TAIL /\ s + kk = n /\ s \in Nat /\ kk \in Nat /\ kk # 0 /\ s + kk <= l.numels
    BY <1>0, <1>2 DEF Linked
  <2>kk. s = 0 /\ kk = n
    OBVIOUS
  <2>r. all = Run(w, s, kk)
    BY <1>1
  <2> HIDE DEF s, kk
  <2> HIDE DEF b, c
  <2>2. b = CutOut(l, w, s, kk, l.mid, l.numels)
    <3>1. Link(SpareOrFree(l, Run(w, s, kk)), w[s], w[s + kk + 1]) = CutOut(l, w, s, kk, l.mid, l.numels)
      BY <1>0, <2>1, SparedThenLinked
    <3> QED BY <2>1, <2>r, <3>1 DEF b
  <2>3. list_clear(l) = [b EXCEPT !.numels = 0, !.mid = NIL]
    BY DEF list_clear, b
  <2>5. list_clear(l) = W
    <3>1. 0 = l.numels - kk
      BY <1>0, <2>kk
    <3> DEFINE m == list_clear(l)
               nx == b.next
               pv == b.prev
               dt == b.data
               sp == b.spareels
               mid == l.mid
               nn == l.numels
    <3>2. m = [b EXCEPT !.numels = 0, !.mid = NIL]
      BY <2>3
    <3>3. b = [next |-> nx, prev |-> pv, data |-> dt, mid |-> mid, numels |-> nn, spareels |-> sp]
      BY <2>2 DEF CutOut
    <3>4. CutOut(l, w, s, kk, NIL, 0)
          = [next |-> nx, prev |-> pv, data |-> dt, mid |-> NIL, numels |-> 0, spareels |-> sp]
      BY <2>2 DEF CutOut
    <3> HIDE DEF m, nx, pv, dt, sp, mid, nn
    <3>5. m = [next |-> nx, prev |-> pv, data |-> dt, mid |-> NIL, numels |-> 0, spareels |-> sp]
      BY <3>2, <3>3
    <3> QED BY <3>1, <3>4, <3>5 DEF Without, m
  <2>m. NIL = IF l.numels - kk = 0 THEN NIL ELSE Rest(w, l.numels, s, kk)[(l.numels - kk - 1) \div 2 + 1]
    BY <1>0, <2>kk
  <2> HIDE DEF c
  <2>6. Laid(W, Rest(w, l.numels, s, kk))
    BY <2>1, <2>m, WithoutHolds
  <2>7. Contents(W) = Shortened(c, s, kk, l.numels)
    BY <2>1, <2>m, WithoutHolds DEF c
  <2>8. W.numels = 0
    BY <1>0, <2>kk DEF Without, CutOut
  <2> HIDE DEF W
  <2> QED BY <2>kk, <2>1, <2>5, <2>6, <2>7, <2>8 DEF c, Shortened
<1>3. CASE n = 0
  <2>1. list_clear(l) = l
    <3> DEFINE nx == [x \in Pointers |-> IF x = HEAD THEN TAIL ELSE l.next[x]]
               pv == [x \in Pointers |-> IF x = TAIL THEN HEAD ELSE l.prev[x]]
               b == Link(SpareOrFree(l, all), HEAD, TAIL)
    <3>1. all = <<>>
      BY <1>3
    <3>2. SpareOrFree(l, <<>>) = l
      <4>1. ToSet(<<>>) = {}
        BY DEF ToSet
      <4>2. /\ l.next = [p \in Pointers |-> l.next[p]] /\ l.prev = [p \in Pointers |-> l.prev[p]]
            /\ l.data = [p \in Pointers |-> l.data[p]]
        BY <1>0 DEF Lists
      <4>3. SubSeq(l.spareels \o <<>>, 1, Spared(l.spareels \o <<>>)) = l.spareels
        <5> DEFINE q == l.spareels
        <5>1. q \in Seq(ListEntries) /\ Len(q) <= MaxSpare
          BY <1>0 DEF Lists, Laid, SparesApart
        <5> HIDE DEF q
        <5>2. q \o <<>> = q
          BY <5>1
        <5>3. SubSeq(q, 1, Len(q)) = q
          BY <5>1
        <5> QED BY <5>1, <5>2, <5>3 DEF Spared, q
      <4>4. <<>> \in Seq(ListEntries)
        OBVIOUS
      <4>5. SpareOrFree(l, <<>>) =
              [next |-> [p \in Pointers |-> IF p \in ToSet(<<>>) THEN NIL ELSE l.next[p]],
               prev |-> [p \in Pointers |-> IF p \in ToSet(<<>>) THEN NIL ELSE l.prev[p]],
               data |-> [p \in Pointers |-> IF p \in ToSet(<<>>) THEN NIL ELSE l.data[p]],
               mid |-> l.mid, numels |-> l.numels,
               spareels |-> SubSeq(l.spareels \o <<>>, 1, Spared(l.spareels \o <<>>))]
        BY <1>0, <4>4, SpareOrFreeIs
      <4>6. SpareOrFree(l, <<>>) =
              [next |-> l.next, prev |-> l.prev, data |-> l.data, mid |-> l.mid, numels |-> l.numels,
               spareels |-> l.spareels]
        BY <4>1, <4>2, <4>3, <4>5
      <4> QED BY <1>0, <4>6 DEF Lists
    <3>3. l.next[HEAD] = TAIL /\ l.prev[TAIL] = HEAD
      BY <1>0, <1>3 DEF Linked
    <3>4. nx = l.next /\ pv = l.prev
      BY <1>0, <3>3 DEF Lists
    <3> HIDE DEF b
    <3>5. Link(l, HEAD, TAIL) = [next |-> nx, prev |-> pv, data |-> l.data, mid |-> l.mid, numels |-> l.numels,
                                 spareels |-> l.spareels]
      <4>1. HEAD \in Pointers /\ TAIL \in Pointers
        BY PointerFacts
      <4> QED BY <1>0, <4>1, LinkIs
    <3>6. b = l
      BY <1>0, <3>1, <3>2, <3>4, <3>5 DEF Lists, b
    <3>7. list_clear(l) = [b EXCEPT !.numels = 0, !.mid = NIL]
      BY DEF list_clear, b
    <3>8. l.mid = NIL
      BY <1>0, <1>3 DEF Centred
    <3> QED BY <1>0, <1>3, <3>6, <3>7, <3>8 DEF Lists
  <2> QED BY <1>3, <2>1
<1> QED BY <1>2, <1>3

\* A run of entries taken out: the middle moves to the middle of what is left.
LEMMA DeleteRangeIs ==
  ASSUME NEW l, NEW w, Laid(l, w), NEW i \in Nat, NEW jj \in Nat, i <= jj, jj < l.numels
  PROVE  \E v : /\ Laid(list_delete_range(l, i, jj), v)
                /\ list_delete_range(l, i, jj).numels = l.numels - (jj - i + 1)
                /\ Contents(list_delete_range(l, i, jj))
                     = SubSeq(Contents(l), 1, i) \o SubSeq(Contents(l), jj + 2, l.numels)
<1> DEFINE n == l.numels
           kk == jj - i + 1
           c == Contents(l)
           d == list_delete_range(l, i, jj)
           first == list_findpos(l, i)
           after == (n - 1 - kk) \div 2
           m == MidIndex(l)
           movedx == (IF after < i THEN after ELSE after + kk) - m
           mid == IF movedx > 0 THEN Steps(l.next, l.mid, movedx) ELSE Steps(l.prev, l.mid, -movedx)
           deleted == [h \in 1 .. kk |-> Steps(l.next, first, h - 1)]
           W == Without(l, w, i, kk, mid)
           v == Rest(w, n, i, kk)
<1>0. /\ n \in Nat /\ Linked(l, w) /\ Centred(l, w) /\ l \in Lists /\ kk \in Nat /\ kk # 0 /\ i + kk <= n
      /\ n # 0 /\ i + kk + 1 = jj + 2 /\ n - kk \in Nat
  BY DEF Laid, Lists
<1>1. first = w[i + 1]
  <2>1. i \in -1 .. l.numels
    BY <1>0
  <2> QED BY <1>0, <2>1, FindPos
<1>2. \A h \in 0 .. kk : Steps(l.next, first, h) = w[i + 1 + h]
  <2> TAKE h \in 0 .. kk
  <2>0. n \in Nat /\ kk \in Nat /\ i + kk <= n
    BY <1>0
  <2> HIDE DEF first, kk, n
  <2>1. i + 1 \in 0 .. n + 1 /\ h \in Nat /\ i + 1 + h <= n + 1
    BY ONLY <2>0
  <2> DEFINE p == i + 1
  <2>2. l.numels \in Nat /\ Linked(l, w) /\ p \in 0 .. l.numels + 1 /\ h \in Nat /\ p + h <= l.numels + 1
    BY <1>0, <2>1 DEF n
  <2> HIDE DEF p
  <2>3. Steps(l.next, w[p], h) = w[p + h]
    BY ONLY <2>2, WalkOn
  <2> QED BY <1>1, <2>3 DEF p
<1>3. deleted = Run(w, i, kk)
  <2>0. kk \in Nat
    BY <1>0
  <2> HIDE DEF first, kk
  <2>1. \A h \in 1 .. kk : h - 1 \in 0 .. kk /\ i + 1 + (h - 1) = i + h
    BY ONLY <2>0
  <2>2. \A h \in 1 .. kk : Steps(l.next, first, h - 1) = w[i + h]
    BY <1>2, <2>1
  <2> QED BY <2>2 DEF Run
<1>4. Steps(l.next, first, kk) = w[i + kk + 1]
  <2>1. kk \in 0 .. kk /\ i + 1 + kk = i + kk + 1
    BY <1>0
  <2> HIDE DEF first, kk
  <2> QED BY <1>2, <2>1
<1>5. l.prev[first] = w[i]
  <2>1. i \in 0 .. n
    BY <1>0
  <2> HIDE DEF first
  <2> QED BY <1>0, <1>1, <2>1 DEF Linked
<1>6. l.mid = w[m + 1] /\ m \in 0 .. n - 1
  BY <1>0, MidIndexIs DEF Centred
<1>7. CASE kk = n
  <2>1. d = list_clear(l) /\ i = 0 /\ n - kk = 0
    BY <1>0, <1>7 DEF list_delete_range
  <2>2. PICK u : /\ Laid(list_clear(l), u) /\ list_clear(l).numels = 0
                 /\ l.numels # 0 => Contents(list_clear(l))
                     = SubSeq(Contents(l), 1, 0) \o SubSeq(Contents(l), l.numels + 1, l.numels)
    BY ClearIs
  <2>3. jj + 2 = n + 1
    BY <1>0, <1>7, <2>1
  <2> HIDE DEF d, kk
  <2>4. Laid(d, u) /\ d.numels = n - kk /\ Contents(d) = SubSeq(c, 1, i) \o SubSeq(c, jj + 2, n)
    BY <1>0, <2>1, <2>2, <2>3
  <2> QED BY <2>4 DEF d, kk
<1>8. CASE kk # n
  <2> DEFINE a == [l EXCEPT !.mid = mid]
             b == Link(SpareOrFree(a, Run(w, i, kk)), w[i], w[i + kk + 1])
  <2>1. d = [Link(SpareOrFree(a, deleted), l.prev[first], Steps(l.next, first, kk)) EXCEPT !.numels = @ - kk]
    BY <1>8 DEF list_delete_range
  <2> HIDE DEF d, first, deleted, mid, kk, v, c, m, movedx
  <2>2. d = [b EXCEPT !.numels = @ - kk]
    BY <1>3, <1>4, <1>5, <2>1
  <2>3. after \in Nat /\ after + 1 <= n - kk
    BY <1>0, <1>8
  <2> HIDE DEF after
  <2> DEFINE target == IF after < i THEN after ELSE after + kk
  <2>4. target \in 0 .. n - 1 /\ m \in Int /\ movedx = target - m
    BY <1>0, <1>6, <2>3 DEF movedx
  <2>5. v[after + 1] = w[target + 1]
    <3>1. after + 1 \in 0 .. n - kk + 1
      BY <1>0, <2>3
    <3>2. v[after + 1] = IF after + 1 <= i THEN w[after + 1] ELSE w[after + 1 + kk]
      BY <3>1 DEF v, Rest
    <3>3. after + 1 <= i <=> after < i
      BY <2>3
    <3>4. after + 1 + kk = after + kk + 1
      BY <1>0, <2>3
    <3> QED BY <3>2, <3>3, <3>4
  <2> HIDE DEF target
  <2>6. mid = w[target + 1]
    <3>1. CASE movedx > 0
      <4>1. m + 1 \in 0 .. n + 1 /\ movedx \in Nat /\ m + 1 + movedx = target + 1 /\ m + 1 + movedx <= n + 1
        BY <1>0, <1>6, <2>4, <3>1
      <4>2. Steps(l.next, w[m + 1], movedx) = w[m + 1 + movedx]
        BY <1>0, <4>1, WalkOn
      <4> QED BY <1>6, <3>1, <4>1, <4>2 DEF mid
    <3>2. CASE ~(movedx > 0)
      <4>1. m + 1 \in 0 .. n + 1 /\ -movedx \in Nat /\ (m + 1) - (-movedx) = target + 1 /\ -movedx <= m + 1
        BY <1>0, <1>6, <2>4, <3>2
      <4> DEFINE back == -movedx
      <4> HIDE DEF back
      <4>b. m + 1 \in 0 .. l.numels + 1 /\ back \in Nat /\ back <= m + 1
        BY <4>1 DEF back
      <4>2. Steps(l.prev, w[m + 1], back) = w[(m + 1) - back]
        BY <1>0, <4>b, WalkBack
      <4> QED BY <1>6, <3>2, <4>1, <4>2 DEF mid, back
    <3> QED BY <3>1, <3>2
  <2>7. mid \in Pointers
    <3>1. target + 1 \in 0 .. n + 1
      BY <1>0, <2>4
    <3> QED BY <1>0, <2>6, <3>1 DEF Linked
  <2>8. b = CutOut(l, w, i, kk, mid, n)
    <3>1. a \in Lists /\ a.next = l.next /\ a.prev = l.prev /\ a.data = l.data /\ a.spareels = l.spareels
          /\ a.mid = mid /\ a.numels = n
      BY <1>0, <2>7 DEF Lists
    <3> HIDE DEF a
    <3>2. Link(SpareOrFree(a, Run(w, i, kk)), w[i], w[i + kk + 1]) = CutOut(l, w, i, kk, a.mid, a.numels)
      BY <1>0, <3>1, SparedThenLinked
    <3> QED BY <3>1, <3>2
  <2> HIDE DEF a, b
  <2>9. d = W
    <3> DEFINE nx == b.next
               pv == b.prev
               dt == b.data
               sp == b.spareels
               nn == l.numels
    <3>1. b = [next |-> nx, prev |-> pv, data |-> dt, mid |-> mid, numels |-> nn, spareels |-> sp]
      BY <2>8 DEF CutOut
    <3>2. W = [next |-> nx, prev |-> pv, data |-> dt, mid |-> mid, numels |-> nn - kk, spareels |-> sp]
      BY <2>8 DEF CutOut, Without
    <3> HIDE DEF W, nx, pv, dt, sp, nn
    <3>3. d = [next |-> nx, prev |-> pv, data |-> dt, mid |-> mid, numels |-> nn - kk, spareels |-> sp]
      BY <2>2, <3>1
    <3> QED BY <3>2, <3>3
  <2>10. mid = IF l.numels - kk = 0 THEN NIL ELSE Rest(w, l.numels, i, kk)[(l.numels - kk - 1) \div 2 + 1]
    <3>1. l.numels - kk # 0
      BY <1>0, <1>8
    <3>2. l.numels - kk - 1 = n - 1 - kk
      BY <1>0
    <3>3. after + 1 = (l.numels - kk - 1) \div 2 + 1
      BY <3>2 DEF after
    <3> QED BY <2>5, <2>6, <3>1, <3>3 DEF v
  <2>11. Laid(W, Rest(w, l.numels, i, kk))
    BY <1>0, <2>10, WithoutHolds
  <2>12. Contents(W) = SubSeq(c, 1, i) \o SubSeq(c, i + kk + 1, l.numels)
    <3>1. kk # 0 /\ kk \in Nat /\ i + kk <= l.numels
      BY <1>0
    <3>2. Contents(Without(l, w, i, kk, mid)) = Shortened(Contents(l), i, kk, l.numels)
      BY <2>10, <3>1, WithoutHolds
    <3> QED BY <3>2 DEF c, Shortened
  <2>13. W.numels = n - kk
    BY DEF Without, CutOut
  <2> HIDE DEF W
  <2>14. Laid(d, v) /\ d.numels = n - kk /\ Contents(d) = SubSeq(c, 1, i) \o SubSeq(c, jj + 2, n)
    BY <1>0, <2>9, <2>11, <2>12, <2>13 DEF v
  <2> QED BY <2>14 DEF d, kk, c
<1> QED BY <1>7, <1>8

-----------------------------------------------------------------------------
(* The list: putting an entry in *)

Lent(l) == IF l.spareels # <<>> THEN Last(l.spareels) ELSE Malloc(l)
SparesLeft(l) == IF l.spareels # <<>> THEN Front(l.spareels) ELSE l.spareels

\* The entries in the list are those of w.
LEMMA ListedAre ==
  ASSUME NEW l, NEW w, Laid(l, w)
  PROVE  Listed(l) = {w[i] : i \in 1 .. l.numels}
<1>0. l.numels \in Nat /\ Linked(l, w) /\ Centred(l, w)
  BY DEF Laid, Lists
<1>1. \A i \in 0 .. l.numels - 1 : list_findpos(l, i) = w[i + 1]
  <2>1. 0 .. l.numels - 1 \subseteq -1 .. l.numels
    BY <1>0
  <2> QED BY <1>0, <2>1, FindPos
<1>2. Listed(l) = {w[i + 1] : i \in 0 .. l.numels - 1}
  BY <1>1 DEF Listed, Positions
<1>3. \A i \in 1 .. l.numels : i - 1 \in 0 .. l.numels - 1 /\ (i - 1) + 1 = i
  BY <1>0
<1>4. \A i \in 0 .. l.numels - 1 : i + 1 \in 1 .. l.numels
  BY <1>0
<1> QED BY <1>2, <1>3, <1>4

\* malloc has an entry left while the list has room.
LEMMA MallocIsFree ==
  ASSUME NEW l, NEW w, Laid(l, w), l.numels < MaxElems, l.spareels = <<>>
  PROVE  Malloc(l) \in ListEntries /\ Malloc(l) \notin Listed(l)
<1> DEFINE n == l.numels
           L == Listed(l)
           F == ListEntries \ (L \cup ToSet(l.spareels))
<1>0. n \in Nat /\ Linked(l, w)
  BY DEF Laid, Lists
<1>1. L = {w[i] : i \in 1 .. n}
  BY ListedAre
<1>2. IsFiniteSet(L) /\ Cardinality(L) <= n
  <2>1. IsFiniteSet(1 .. n) /\ Cardinality(1 .. n) = n
    <3> HIDE DEF n
    <3>1. 1 \in Int /\ n \in Int
      BY <1>0
    <3>2. IsFiniteSet(1 .. n) /\ Cardinality(1 .. n) = IF 1 > n THEN 0 ELSE n - 1 + 1
      BY <3>1, FS_Interval
    <3> QED BY <1>0, <3>2
  <2> DEFINE g == [i \in 1 .. n |-> w[i]]
  <2>2. g \in Surjection(1 .. n, L)
    BY <1>1 DEF Surjection
  <2> HIDE DEF g, L
  <2>3. IsFiniteSet(L) /\ Cardinality(L) <= Cardinality(1 .. n)
    BY <2>1, <2>2, FS_Surjection
  <2> QED BY <2>1, <2>3
<1>3. IsFiniteSet(ListEntries) /\ Cardinality(ListEntries) = MaxElems + MaxSpare
  <2>1. MaxElems + MaxSpare \in Nat /\ 1 \in Int
    BY PointerFacts
  <2>2. IsFiniteSet(1 .. MaxElems + MaxSpare)
        /\ Cardinality(1 .. MaxElems + MaxSpare) = IF 1 > MaxElems + MaxSpare THEN 0 ELSE (MaxElems + MaxSpare) - 1 + 1
    BY <2>1, FS_Interval
  <2> QED BY <2>1, <2>2 DEF ListEntries
<1>4. F # {}
  <2>1. ToSet(l.spareels) = {}
    BY DEF ToSet
  <2>2. ASSUME ListEntries \subseteq L PROVE FALSE
    <3>1. Cardinality(ListEntries) <= Cardinality(L)
      BY <1>2, <2>2, FS_Subset
    <3>2. Cardinality(L) \in Nat
      BY <1>2, FS_CardinalityType
    <3> QED BY <1>0, <1>2, <1>3, <3>1, <3>2, PointerFacts
  <2> QED BY <2>1, <2>2
<1>5. F \subseteq Nat
  BY PointerFacts
<1> HIDE DEF F
<1>6. \E e \in F : \A f \in F : e <= f
  BY <1>4, <1>5, LeastNumber
<1>7. Malloc(l) \in F
  BY <1>6 DEF Malloc, F
<1> QED BY <1>7 DEF F

\* So an entry that is lent is none of the list's, nor one of the spares that are left.
LEMMA LentIsFree ==
  ASSUME NEW l, NEW w, Laid(l, w), l.numels < MaxElems
  PROVE  /\ Lent(l) \in ListEntries /\ \A i \in 0 .. l.numels + 1 : w[i] # Lent(l)
         /\ SparesLeft(l) \in Seq(ListEntries) /\ Len(SparesLeft(l)) <= Len(l.spareels)
         /\ \A kk \in 1 .. Len(SparesLeft(l)) : SparesLeft(l)[kk] = l.spareels[kk] /\ SparesLeft(l)[kk] # Lent(l)
<1> DEFINE q == l.spareels
           n == l.numels
<1>0. q \in Seq(ListEntries) /\ Linked(l, w) /\ SparesApart(l, w) /\ n \in Nat
  BY DEF Laid, Lists
<1>1. CASE q = <<>>
  <2>1. Lent(l) = Malloc(l) /\ SparesLeft(l) = q
    BY <1>1 DEF Lent, SparesLeft
  <2>2. Malloc(l) \in ListEntries /\ Malloc(l) \notin Listed(l)
    BY <1>1, MallocIsFree
  <2>3. ASSUME NEW i \in 0 .. n + 1 PROVE w[i] # Malloc(l)
    <3>1. i = 0 \/ i = n + 1 \/ i \in 1 .. n
      BY <1>0
    <3> QED BY <1>0, <2>2, <3>1, ListedAre, PointerFacts DEF Linked
  <2> QED BY <1>0, <1>1, <2>1, <2>2, <2>3
<1>2. CASE q # <<>>
  <2>1. Lent(l) = q[Len(q)] /\ SparesLeft(l) = SubSeq(q, 1, Len(q) - 1)
    BY <1>2 DEF Lent, SparesLeft, Last, Front
  <2> HIDE DEF q
  <2>2. Len(q) \in Nat /\ Len(q) # 0
    BY <1>0, <1>2
  <2>3. /\ SubSeq(q, 1, Len(q) - 1) \in Seq(ListEntries) /\ Len(SubSeq(q, 1, Len(q) - 1)) = Len(q) - 1
        /\ \A kk \in 1 .. Len(q) - 1 : SubSeq(q, 1, Len(q) - 1)[kk] = q[kk]
    <3> DEFINE h == Len(q) - 1
    <3>1. h \in 0 .. Len(q) /\ h \in Nat
      BY <2>2
    <3> HIDE DEF h
    <3>2. SubSeq(q, 1, h) \in Seq(ListEntries) /\ Len(SubSeq(q, 1, h)) = h
      BY <1>0, <3>1
    <3>3. \A kk \in 1 .. h : SubSeq(q, 1, h)[kk] = q[kk]
      BY <1>0, <3>1
    <3> QED BY <3>2, <3>3 DEF h
  <2>4. Len(q) \in 1 .. Len(q) /\ q[Len(q)] \in ListEntries
    BY <1>0, <2>2
  <2>5. /\ \A jj \in 1 .. Len(q) : \A i \in 0 .. n + 1 : q[jj] # w[i]
        /\ \A jj, i \in 1 .. Len(q) : q[jj] = q[i] => jj = i
    BY <1>0 DEF SparesApart, q
  <2>6. \A kk \in 1 .. Len(q) - 1 : kk \in 1 .. Len(q) /\ kk # Len(q)
    BY <2>2
  <2>7. \A kk \in 1 .. Len(q) - 1 : q[kk] # q[Len(q)]
    BY <2>4, <2>5, <2>6
  <2>8. \A i \in 0 .. n + 1 : w[i] # q[Len(q)]
    BY <2>4, <2>5
  <2>9. Len(q) - 1 <= Len(q)
    BY <2>2
  <2> QED BY <2>1, <2>3, <2>4, <2>7, <2>8, <2>9 DEF q
<1> QED BY <1>1, <1>2

\* d is put after the pos-th entry: the entries in order, and the list.
Grown(w, n, pos, e) == [i \in 0 .. n + 2 |-> IF i <= pos THEN w[i] ELSE IF i = pos + 1 THEN e ELSE w[i - 1]]
Inserted(l, w, pos, d, mid) ==
  LET e == Lent(l)
  IN [next |-> [p \in Pointers |-> IF p = w[pos] THEN e ELSE IF p = e THEN w[pos + 1] ELSE l.next[p]],
      prev |-> [p \in Pointers |-> IF p = e THEN w[pos] ELSE IF p = w[pos + 1] THEN e ELSE l.prev[p]],
      data |-> [p \in Pointers |-> IF p = e THEN d ELSE l.data[p]],
      mid |-> mid, numels |-> l.numels + 1, spareels |-> SparesLeft(l)]

\* What the grown sequences are.
LEMMA GrownIs ==
  ASSUME NEW l, NEW w, Laid(l, w), l.numels < MaxElems, NEW pos \in Nat, pos <= l.numels
  PROVE  LET n == l.numels
             e == Lent(l)
             v == Grown(w, n, pos, e)
         IN /\ v \in [0 .. n + 2 -> Pointers] /\ v[0] = HEAD /\ v[n + 2] = TAIL
            /\ \A i \in 0 .. n + 2 : v[i] = IF i <= pos THEN w[i] ELSE IF i = pos + 1 THEN e ELSE w[i - 1]
            /\ \A i \in 1 .. n + 1 : v[i] \in ListEntries
            /\ \A i, jj \in 0 .. n + 2 : v[i] = v[jj] => i = jj
<1> DEFINE n == l.numels
           e == Lent(l)
           v == Grown(w, n, pos, e)
<1>0. n \in Nat /\ Linked(l, w)
  BY DEF Laid, Lists
<1>1. /\ w \in [0 .. n + 1 -> Pointers] /\ w[0] = HEAD /\ w[n + 1] = TAIL
      /\ \A i \in 1 .. n : w[i] \in ListEntries
      /\ \A i, jj \in 0 .. n + 1 : w[i] = w[jj] => i = jj
  BY <1>0 DEF Linked
<1>2. e \in ListEntries /\ \A i \in 0 .. n + 1 : w[i] # e
  BY LentIsFree
<1>3. \A i \in 0 .. n + 2 : v[i] = IF i <= pos THEN w[i] ELSE IF i = pos + 1 THEN e ELSE w[i - 1]
  BY DEF Grown
<1>4. v = [i \in 0 .. n + 2 |-> v[i]]
  BY DEF Grown
<1> HIDE DEF n, e, v
<1>p. pos <= n
  BY DEF n
<1>a. ASSUME NEW i \in 0 .. n + 2, i <= pos PROVE i \in 0 .. n + 1 /\ v[i] = w[i]
  <2>1. i \in 0 .. n + 1
    BY <1>0, <1>p, <1>a
  <2> QED BY <1>3, <1>a, <2>1
<1>b. v[pos + 1] = e
  <2>1. pos + 1 \in 0 .. n + 2 /\ ~(pos + 1 <= pos)
    BY <1>0, <1>p
  <2> QED BY <1>3, <2>1
<1>c. ASSUME NEW i \in 0 .. n + 2, i > pos + 1 PROVE i - 1 \in 0 .. n + 1 /\ v[i] = w[i - 1]
  <2>1. i - 1 \in 0 .. n + 1 /\ ~(i <= pos) /\ i # pos + 1
    BY <1>0, <1>p, <1>c
  <2> QED BY <1>3, <2>1
<1>d. \A i \in 0 .. n + 2 : i <= pos \/ i = pos + 1 \/ i > pos + 1
  BY <1>0
<1>6. ASSUME NEW i \in 0 .. n + 2 PROVE v[i] \in Pointers
  <2>1. CASE i <= pos
    BY <1>1, <1>a, <2>1
  <2>2. CASE i = pos + 1
    BY <1>2, <1>b, <2>2, PointerFacts
  <2>3. CASE i > pos + 1
    BY <1>1, <1>c, <2>3
  <2> QED BY <1>d, <2>1, <2>2, <2>3
<1>7. v \in [0 .. n + 2 -> Pointers]
  BY <1>4, <1>6
<1>8. v[0] = HEAD /\ v[n + 2] = TAIL
  <2>1. 0 \in 0 .. n + 2 /\ n + 2 \in 0 .. n + 2 /\ 0 <= pos /\ n + 2 > pos + 1 /\ n + 2 - 1 = n + 1
    BY <1>0, <1>p
  <2>2. v[0] = w[0]
    BY <1>a, <2>1
  <2> DEFINE h == n + 2
  <2>h. h \in 0 .. n + 2 /\ h > pos + 1 /\ h - 1 = n + 1
    BY <1>0, <2>1
  <2> HIDE DEF h
  <2>3. v[h] = w[h - 1]
    BY <1>c, <2>h
  <2> QED BY <1>1, <2>2, <2>3, <2>h DEF h
<1>9. ASSUME NEW i \in 1 .. n + 1 PROVE v[i] \in ListEntries
  <2>1. i \in 0 .. n + 2 /\ (i <= pos => i \in 1 .. n) /\ (~(i <= pos) /\ i # pos + 1 => i - 1 \in 1 .. n)
    BY <1>0, <1>p
  <2> QED BY <1>1, <1>2, <1>3, <2>1
<1>10. ASSUME NEW i \in 0 .. n + 2, NEW jj \in 0 .. n + 2, v[i] = v[jj] PROVE i = jj
  <2>1. CASE i = pos + 1 \/ jj = pos + 1
    <3>1. ASSUME NEW h \in 0 .. n + 2, h # pos + 1 PROVE v[h] # e
      BY <1>2, <1>a, <1>c, <1>d, <3>1
    <3> QED BY <1>10, <1>b, <2>1, <3>1
  <2>2. CASE i <= pos /\ jj <= pos
    BY <1>1, <1>10, <1>a, <2>2
  <2>3. CASE i > pos + 1 /\ jj > pos + 1
    <3>1. i - 1 = jj - 1
      BY <1>1, <1>10, <1>c, <2>3
    <3> QED BY <1>0, <3>1
  <2>4. CASE i <= pos /\ jj > pos + 1
    <3>1. i = jj - 1
      BY <1>1, <1>10, <1>a, <1>c, <2>4
    <3> QED BY <1>0, <2>4, <3>1
  <2>5. CASE i > pos + 1 /\ jj <= pos
    <3>1. i - 1 = jj
      BY <1>1, <1>10, <1>a, <1>c, <2>5
    <3> QED BY <1>0, <2>5, <3>1
  <2> QED BY <1>d, <2>1, <2>2, <2>3, <2>4, <2>5
<1> QED BY <1>3, <1>7, <1>8, <1>9, <1>10 DEF n, e, v

\* The entries are linked, and the spares apart.
LEMMA InsertedLinked ==
  ASSUME NEW l, NEW w, Laid(l, w), l.numels < MaxElems, NEW pos \in Nat, pos <= l.numels,
         NEW d \in ListValues, NEW mid
  PROVE  /\ Linked(Inserted(l, w, pos, d, mid), Grown(w, l.numels, pos, Lent(l)))
         /\ SparesApart(Inserted(l, w, pos, d, mid), Grown(w, l.numels, pos, Lent(l)))
         /\ \A i \in 1 .. l.numels + 1 :
              Inserted(l, w, pos, d, mid).data[Grown(w, l.numels, pos, Lent(l))[i]]
              = IF i <= pos THEN l.data[w[i]] ELSE IF i = pos + 1 THEN d ELSE l.data[w[i - 1]]
<1> DEFINE n == l.numels
           e == Lent(l)
           v == Grown(w, n, pos, e)
           m == Inserted(l, w, pos, d, mid)
<1>0. n \in Nat /\ Linked(l, w) /\ SparesApart(l, w)
  BY DEF Laid, Lists
<1>1. /\ w \in [0 .. n + 1 -> Pointers] /\ w[0] = HEAD /\ w[n + 1] = TAIL
      /\ \A i \in 1 .. n : w[i] \in ListEntries /\ l.data[w[i]] \in ListValues
      /\ \A i, jj \in 0 .. n + 1 : w[i] = w[jj] => i = jj
      /\ \A i \in 0 .. n : l.next[w[i]] = w[i + 1] /\ l.prev[w[i + 1]] = w[i]
      /\ l.prev[HEAD] = NIL /\ l.next[TAIL] = NIL
  BY <1>0 DEF Linked
<1>2. e \in ListEntries /\ (\A i \in 0 .. n + 1 : w[i] # e) /\ e \in Pointers
  BY LentIsFree, PointerFacts
<1>3. /\ v \in [0 .. n + 2 -> Pointers] /\ v[0] = HEAD /\ v[n + 2] = TAIL
      /\ \A i \in 0 .. n + 2 : v[i] = IF i <= pos THEN w[i] ELSE IF i = pos + 1 THEN e ELSE w[i - 1]
      /\ \A i \in 1 .. n + 1 : v[i] \in ListEntries
      /\ \A i, jj \in 0 .. n + 2 : v[i] = v[jj] => i = jj
  BY GrownIs
<1>4. /\ m.numels = n + 1 /\ m.spareels = SparesLeft(l)
      /\ \A p \in Pointers :
           /\ m.next[p] = IF p = w[pos] THEN e ELSE IF p = e THEN w[pos + 1] ELSE l.next[p]
           /\ m.prev[p] = IF p = e THEN w[pos] ELSE IF p = w[pos + 1] THEN e ELSE l.prev[p]
           /\ m.data[p] = IF p = e THEN d ELSE l.data[p]
  BY DEF Inserted
<1>s. /\ SparesLeft(l) \in Seq(ListEntries) /\ Len(SparesLeft(l)) <= Len(l.spareels)
      /\ \A kk \in 1 .. Len(SparesLeft(l)) : SparesLeft(l)[kk] = l.spareels[kk] /\ SparesLeft(l)[kk] # e
  BY LentIsFree
<1>q. l.spareels \in Seq(ListEntries)
  BY DEF Laid, Lists
<1> DEFINE q == l.spareels
<1>5. /\ Len(q) <= MaxSpare
      /\ \A kk \in 1 .. Len(q) : \A i \in 0 .. n + 1 : q[kk] # w[i]
      /\ \A jj, kk \in 1 .. Len(q) : q[jj] = q[kk] => jj = kk
  BY <1>0 DEF SparesApart
<1>p. pos <= n /\ pos \in 0 .. n + 1 /\ pos + 1 \in 0 .. n + 1
  BY <1>0
<1> HIDE DEF n, e, v, m, q
<1>6. ASSUME NEW i \in 1 .. n + 1
      PROVE  m.data[v[i]] = IF i <= pos THEN l.data[w[i]] ELSE IF i = pos + 1 THEN d ELSE l.data[w[i - 1]]
  <2>1. i \in 0 .. n + 2 /\ (i <= pos => i \in 0 .. n + 1) /\ (~(i <= pos) /\ i # pos + 1 => i - 1 \in 0 .. n + 1)
    BY <1>0, <1>p
  <2>2. v[i] \in Pointers
    BY <1>3, <2>1
  <2> QED BY <1>2, <1>3, <1>4, <2>1, <2>2
<1>7. ASSUME NEW i \in 1 .. n + 1 PROVE m.data[v[i]] \in ListValues
  <2>1. (i <= pos => i \in 1 .. n) /\ (~(i <= pos) /\ i # pos + 1 => i - 1 \in 1 .. n)
    BY <1>0, <1>p
  <2> QED BY <1>1, <1>6, <2>1
<1>8. ASSUME NEW i \in 0 .. n + 1 PROVE m.next[v[i]] = v[i + 1] /\ m.prev[v[i + 1]] = v[i]
  <2>1. i \in 0 .. n + 2 /\ i + 1 \in 0 .. n + 2 /\ i + 1 - 1 = i
    BY <1>0
  <2>2. v[i] \in Pointers /\ v[i + 1] \in Pointers
    BY <1>3, <2>1
  <2>3. CASE i < pos
    <3>1. i <= pos /\ i + 1 <= pos /\ i \in 0 .. n /\ i \in 0 .. n + 1 /\ i # pos /\ i + 1 # pos + 1
      BY <1>0, <1>p, <2>3
    <3>2. v[i] = w[i] /\ v[i + 1] = w[i + 1]
      BY <1>3, <2>1, <3>1
    <3>3. i + 1 \in 0 .. n + 1
      BY <1>0, <3>1
    <3>4. w[i] # w[pos] /\ w[i + 1] # w[pos + 1] /\ w[i] # e /\ w[i + 1] # e
      BY <1>1, <1>2, <1>p, <3>1, <3>3
    <3> QED BY <1>1, <1>4, <2>2, <3>1, <3>2, <3>4
  <2>4. CASE i = pos
    <3>1. v[i] = w[pos] /\ v[i + 1] = e
      BY <1>3, <1>p, <2>1, <2>4
    <3> QED BY <1>2, <1>4, <1>p, <2>2, <3>1
  <2>5. CASE i = pos + 1
    <3>1. v[i] = e /\ v[i + 1] = w[pos + 1]
      BY <1>3, <1>p, <2>1, <2>5
    <3>2. w[pos] # e /\ w[pos + 1] # e
      BY <1>2, <1>p
    <3> QED BY <1>4, <2>2, <3>1, <3>2
  <2>6. CASE i > pos + 1
    <3>1. i - 1 \in 0 .. n /\ i - 1 \in 0 .. n + 1 /\ i - 1 # pos /\ i # pos + 1 /\ i \in 0 .. n + 1 /\ (i - 1) + 1 = i
          /\ ~(i <= pos) /\ ~(i + 1 <= pos) /\ i + 1 # pos + 1
      BY <1>0, <1>p, <2>6
    <3>2. v[i] = w[i - 1] /\ v[i + 1] = w[i]
      BY <1>3, <2>1, <3>1
    <3>4. w[i - 1] # w[pos] /\ w[i] # w[pos + 1] /\ w[i - 1] # e /\ w[i] # e
      BY <1>1, <1>2, <1>p, <3>1
    <3>5. l.next[w[i - 1]] = w[i] /\ l.prev[w[i]] = w[i - 1]
      BY <1>1, <3>1
    <3> QED BY <1>4, <2>2, <3>2, <3>4, <3>5
  <2> QED BY <1>0, <1>p, <2>3, <2>4, <2>5, <2>6
<1>9. m.prev[HEAD] = NIL /\ m.next[TAIL] = NIL
  <2>1. 0 \in 0 .. n + 1 /\ n + 1 \in 0 .. n + 1 /\ pos # n + 1 /\ pos + 1 # 0
    BY <1>0, <1>p
  <2>2. HEAD # e /\ HEAD # w[pos + 1] /\ TAIL # w[pos] /\ TAIL # e
    BY <1>1, <1>2, <1>p, <2>1
  <2> QED BY <1>1, <1>4, <2>2, PointerFacts
<1>10. Linked(m, v)
  <2>1. n + 1 + 1 = n + 2
    BY <1>0
  <2> QED BY <1>3, <1>4, <1>7, <1>8, <1>9, <2>1 DEF Linked
<1>11. SparesApart(m, v)
  <2> DEFINE x == SparesLeft(l)
  <2>0. /\ x \in Seq(ListEntries) /\ Len(x) <= Len(q) /\ q \in Seq(ListEntries)
        /\ \A kk \in 1 .. Len(x) : x[kk] = q[kk] /\ x[kk] # e
    BY <1>s, <1>q DEF q
  <2> HIDE DEF x
  <2>1. Len(x) \in Nat /\ Len(q) \in Nat /\ Len(x) <= MaxSpare
    BY <1>5, <2>0, PointerFacts
  <2>2. \A kk \in 1 .. Len(x) : kk \in 1 .. Len(q)
    BY <2>0, <2>1
  <2>3. ASSUME NEW kk \in 1 .. Len(x), NEW i \in 0 .. n + 1 + 1 PROVE x[kk] # v[i]
    <3>1. i \in 0 .. n + 2 /\ (i <= pos => i \in 0 .. n + 1) /\ (~(i <= pos) /\ i # pos + 1 => i - 1 \in 0 .. n + 1)
      BY <1>0, <1>p
    <3> QED BY <1>3, <1>5, <2>0, <2>2, <3>1
  <2>4. ASSUME NEW jj \in 1 .. Len(x), NEW kk \in 1 .. Len(x), x[jj] = x[kk] PROVE jj = kk
    BY <1>5, <2>0, <2>2, <2>4
  <2> QED BY <1>4, <2>1, <2>3, <2>4 DEF SparesApart, x
<1> QED BY <1>6, <1>10, <1>11 DEF n, e, v, m

\* Two links, one after the other.
LEMMA TwoLinks ==
  ASSUME NEW a \in Lists, NEW e \in Pointers, NEW x \in Pointers, NEW y \in Pointers
  PROVE  LET c == Link(Link(a, e, y), x, e)
         IN /\ c \in Lists
            /\ \A p \in Pointers : c.next[p] = IF p = x THEN e ELSE IF p = e THEN y ELSE a.next[p]
            /\ \A p \in Pointers : c.prev[p] = IF p = e THEN x ELSE IF p = y THEN e ELSE a.prev[p]
            /\ c.data = a.data /\ c.mid = a.mid /\ c.numels = a.numels /\ c.spareels = a.spareels
<1> DEFINE b == Link(a, e, y)
           c == Link(b, x, e)
<1>1. b \in Lists
  BY LinkHas
<1>2. \A p \in Pointers : b.next[p] = IF p = e THEN y ELSE a.next[p]
  BY LinkHas
<1>3. \A p \in Pointers : b.prev[p] = IF p = y THEN e ELSE a.prev[p]
  BY LinkHas
<1>4. b.data = a.data /\ b.mid = a.mid
  BY LinkHas
<1>5. b.numels = a.numels /\ b.spareels = a.spareels
  BY LinkHas
<1> HIDE DEF b
<1>6. c \in Lists
  BY <1>1, LinkHas
<1>7. \A p \in Pointers : c.next[p] = IF p = x THEN e ELSE b.next[p]
  BY <1>1, LinkHas
<1>8. \A p \in Pointers : c.prev[p] = IF p = e THEN x ELSE b.prev[p]
  BY <1>1, LinkHas
<1>9. c.data = b.data /\ c.mid = b.mid
  BY <1>1, LinkHas
<1>10. c.numels = b.numels /\ c.spareels = b.spareels
  BY <1>1, LinkHas
<1> HIDE DEF c
<1>11. \A p \in Pointers : c.next[p] = IF p = x THEN e ELSE IF p = e THEN y ELSE a.next[p]
  BY <1>2, <1>7
<1>12. \A p \in Pointers : c.prev[p] = IF p = e THEN x ELSE IF p = y THEN e ELSE a.prev[p]
  BY <1>3, <1>8
<1> QED BY <1>4, <1>5, <1>6, <1>9, <1>10, <1>11, <1>12 DEF b, c

\* The data and the counters of a list with one more.
Filled(l, e, d, sp) == [l EXCEPT !.data[e] = d, !.numels = @ + 1, !.spareels = sp]

\* A list whose entry e has got data, before it is linked.
LEMMA FilledIs ==
  ASSUME NEW l \in Lists, NEW e \in Pointers, NEW d \in ListValues, NEW sp \in Seq(ListEntries)
  PROVE  /\ Filled(l, e, d, sp) \in Lists /\ Filled(l, e, d, sp).next = l.next
         /\ Filled(l, e, d, sp).prev = l.prev /\ Filled(l, e, d, sp).mid = l.mid
         /\ Filled(l, e, d, sp).numels = l.numels + 1 /\ Filled(l, e, d, sp).spareels = sp
         /\ Filled(l, e, d, sp).data = [p \in Pointers |-> IF p = e THEN d ELSE l.data[p]]
<1> DEFINE dt == [p \in Pointers |-> IF p = e THEN d ELSE l.data[p]]
           a == Filled(l, e, d, sp)
<1>1. l.data \in [Pointers -> ListValues \cup {NIL}] /\ l.numels \in Nat
  BY DEF Lists
<1>2. [l.data EXCEPT ![e] = d] = dt /\ dt \in [Pointers -> ListValues \cup {NIL}]
  BY <1>1
<1>3. a = [l EXCEPT !.data = [l.data EXCEPT ![e] = d], !.numels = l.numels + 1, !.spareels = sp]
  BY DEF Filled
<1> DEFINE dd == [l.data EXCEPT ![e] = d]
           nn == l.numels + 1
<1>4. a = [l EXCEPT !.data = dd, !.numels = nn, !.spareels = sp]
  BY <1>3
<1>5. nn \in Nat /\ dd = dt
  BY <1>1, <1>2
<1> HIDE DEF dd, nn, dt, a
<1>6. a = [next |-> l.next, prev |-> l.prev, data |-> dd, mid |-> l.mid, numels |-> nn, spareels |-> sp]
  BY <1>4 DEF Lists
<1>7. /\ a.next = l.next /\ a.prev = l.prev /\ a.mid = l.mid
      /\ a.numels = nn /\ a.spareels = sp /\ a.data = dd
  BY <1>6
<1>8. a \in Lists
  BY <1>2, <1>5, <1>6 DEF Lists
<1> QED BY <1>5, <1>7, <1>8 DEF dt, nn, a

\* The record that list_insert_at makes before it moves the middle.
LEMMA LinkedInIs ==
  ASSUME NEW l, NEW w, Laid(l, w), l.numels < MaxElems, NEW pos \in Nat, pos <= l.numels,
         NEW d \in ListValues
  PROVE  Link(Link(Filled(l, Lent(l), d, SparesLeft(l)), Lent(l), w[pos + 1]), w[pos], Lent(l)) = Inserted(l, w, pos, d, l.mid)
<1> DEFINE n == l.numels
           e == Lent(l)
           dt == [p \in Pointers |-> IF p = e THEN d ELSE l.data[p]]
           sp == SparesLeft(l)
           a == Filled(l, e, d, sp)
<1>0. n \in Nat /\ Linked(l, w) /\ l \in Lists
  BY DEF Laid, Lists
<1>1. e \in Pointers /\ (\A i \in 0 .. n + 1 : w[i] # e) /\ sp \in Seq(ListEntries)
  BY LentIsFree, PointerFacts
<1>2. w[pos] \in Pointers /\ w[pos + 1] \in Pointers /\ w[pos] # e /\ w[pos + 1] # e
  <2>1. pos \in 0 .. n + 1 /\ pos + 1 \in 0 .. n + 1
    BY <1>0
  <2> QED BY <1>0, <1>1, <2>1 DEF Linked
<1> HIDE DEF e, sp
<1>f. /\ a \in Lists /\ a.next = l.next /\ a.prev = l.prev /\ a.data = dt /\ a.mid = l.mid
      /\ a.numels = n + 1 /\ a.spareels = sp
  BY <1>0, <1>1, FilledIs
<1>a. a \in Lists
  BY <1>f
<1> HIDE DEF dt, a
<1> DEFINE x == w[pos]
           y == w[pos + 1]
           c == Link(Link(a, e, y), x, e)
<1>x. x \in Pointers /\ y \in Pointers
  BY <1>2
<1> HIDE DEF x, y
<1>6. /\ c \in Lists
      /\ \A p \in Pointers : c.next[p] = IF p = x THEN e ELSE IF p = e THEN y ELSE a.next[p]
      /\ \A p \in Pointers : c.prev[p] = IF p = e THEN x ELSE IF p = y THEN e ELSE a.prev[p]
      /\ c.data = a.data /\ c.mid = a.mid /\ c.numels = a.numels /\ c.spareels = a.spareels
  <2>0. a \in Lists /\ e \in Pointers
    BY <1>1, <1>a
  <2>1. c \in Lists
    BY <2>0, <1>x, TwoLinks
  <2>2. \A p \in Pointers : c.next[p] = IF p = x THEN e ELSE IF p = e THEN y ELSE a.next[p]
    BY <2>0, <1>x, TwoLinks
  <2>3. \A p \in Pointers : c.prev[p] = IF p = e THEN x ELSE IF p = y THEN e ELSE a.prev[p]
    BY <2>0, <1>x, TwoLinks
  <2>4. c.data = a.data /\ c.mid = a.mid /\ c.numels = a.numels /\ c.spareels = a.spareels
    BY <2>0, <1>x, TwoLinks
  <2> QED BY <2>1, <2>2, <2>3, <2>4
<1> HIDE DEF c
<1>8. c.next = [p \in Pointers |-> IF p = x THEN e ELSE IF p = e THEN y ELSE l.next[p]]
  <2>1. c.next = [p \in Pointers |-> c.next[p]]
    BY <1>6 DEF Lists
  <2> QED BY <1>6, <1>f, <2>1
<1>9. c.prev = [p \in Pointers |-> IF p = e THEN x ELSE IF p = y THEN e ELSE l.prev[p]]
  <2>1. c.prev = [p \in Pointers |-> c.prev[p]]
    BY <1>6 DEF Lists
  <2> QED BY <1>6, <1>f, <2>1
<1>10. c = [next |-> c.next, prev |-> c.prev, data |-> dt, mid |-> l.mid, numels |-> n + 1, spareels |-> sp]
  BY <1>6, <1>f DEF Lists
<1>11. c = Inserted(l, w, pos, d, l.mid)
  BY <1>8, <1>9, <1>10 DEF Inserted, e, dt, sp, x, y
<1> QED BY <1>11 DEF c, e, x, y, a, sp

\* An element put in, and the middle moved.
LEMMA InsertIs ==
  ASSUME NEW l, NEW w, Laid(l, w), l.numels < MaxElems, NEW pos \in Nat, pos <= l.numels,
         NEW d \in ListValues
  PROVE  /\ Laid(list_insert_at(l, d, pos), Grown(w, l.numels, pos, Lent(l)))
         /\ list_insert_at(l, d, pos).numels = l.numels + 1
         /\ \A i \in 1 .. l.numels + 1 :
              list_insert_at(l, d, pos).data[Grown(w, l.numels, pos, Lent(l))[i]]
              = IF i <= pos THEN l.data[w[i]] ELSE IF i = pos + 1 THEN d ELSE l.data[w[i - 1]]
<1> DEFINE n == l.numels
           e == Lent(l)
           v == Grown(w, n, pos, e)
           m == MidIndex(l)
           kk == Inserted(l, w, pos, d, l.mid)
           prec == list_findpos(l, pos - 1)
           a == [l EXCEPT !.data[Lent(l)] = d, !.numels = @ + 1, !.spareels = SparesLeft(l)]
           linked == Link(Link(a, Lent(l), l.next[prec]), prec, Lent(l))
           half == ((n + 1) - 1) \div 2
           mid == CASE n + 1 = 1 -> e
                    [] n + 1 # 1 /\ (n + 1) % 2 = 1 -> IF pos >= half THEN kk.next[l.mid] ELSE l.mid
                    [] OTHER -> IF pos <= half THEN kk.prev[l.mid] ELSE l.mid
           z == list_insert_at(l, d, pos)
<1>0. n \in Nat /\ Linked(l, w) /\ Centred(l, w) /\ l \in Lists /\ pos <= n
  BY DEF Laid, Lists
<1>1. prec = w[pos] /\ l.next[prec] = w[pos + 1]
  <2>1. pos - 1 \in -1 .. l.numels /\ pos - 1 + 1 = pos /\ pos \in 0 .. l.numels
    BY <1>0
  <2>2. prec = w[pos]
    BY <1>0, <2>1, FindPos
  <2> HIDE DEF prec
  <2> QED BY <1>0, <2>1, <2>2 DEF Linked
<1>2. linked = kk
  <2> HIDE DEF prec, kk, a
  <2>0. a = Filled(l, Lent(l), d, SparesLeft(l))
    BY DEF a, Filled
  <2>1. Link(Link(a, Lent(l), w[pos + 1]), w[pos], Lent(l)) = Inserted(l, w, pos, d, l.mid)
    BY <2>0, LinkedInIs
  <2> QED BY <1>1, <2>1 DEF kk
<1>3. z = [linked EXCEPT !.mid =
             CASE linked.numels = 1 -> e
               [] linked.numels # 1 /\ linked.numels % 2 = 1 ->
                    IF pos >= (linked.numels - 1) \div 2 THEN linked.next[@] ELSE @
               [] OTHER -> IF pos <= (linked.numels - 1) \div 2 THEN linked.prev[@] ELSE @]
  BY DEF list_insert_at, Lent, SparesLeft
<1>4. kk.numels = n + 1 /\ kk.mid = l.mid
  BY DEF Inserted
<1> HIDE DEF linked, kk, z, a, prec
<1>5. z = [kk EXCEPT !.mid = mid]
  BY <1>2, <1>3, <1>4
<1> HIDE DEF mid
<1>6. z = Inserted(l, w, pos, d, mid)
  <2> DEFINE nx == kk.next
             pv == kk.prev
             dt == kk.data
             sp == kk.spareels
             nn == kk.numels
             mm == kk.mid
             y == Inserted(l, w, pos, d, mid)
  <2>1. kk = [next |-> nx, prev |-> pv, data |-> dt, mid |-> mm, numels |-> nn, spareels |-> sp]
    BY DEF kk, Inserted
  <2>2. y = [next |-> nx, prev |-> pv, data |-> dt, mid |-> mid, numels |-> nn, spareels |-> sp]
    BY DEF kk, Inserted
  <2> HIDE DEF nx, pv, dt, sp, nn, mm, y
  <2>3. z = [next |-> nx, prev |-> pv, data |-> dt, mid |-> mid, numels |-> nn, spareels |-> sp]
    BY <1>5, <2>1
  <2> QED BY <2>2, <2>3 DEF y
<1>7. /\ Linked(kk, v) /\ SparesApart(kk, v)
  BY InsertedLinked DEF kk
<1>8. /\ Linked(z, v) /\ SparesApart(z, v) /\ z.numels = n + 1 /\ z.mid = mid
      /\ \A i \in 1 .. l.numels + 1 :
           z.data[v[i]] = IF i <= pos THEN l.data[w[i]] ELSE IF i = pos + 1 THEN d ELSE l.data[w[i - 1]]
  <2>1. z.numels = n + 1 /\ z.mid = mid
    BY <1>6 DEF Inserted
  <2> HIDE DEF v
  <2> QED BY <1>6, <2>1, InsertedLinked DEF v
<1>9. /\ v \in [0 .. n + 2 -> Pointers]
      /\ \A i \in 0 .. n + 2 : v[i] = IF i <= pos THEN w[i] ELSE IF i = pos + 1 THEN e ELSE w[i - 1]
  BY GrownIs
<1> HIDE DEF v
<1>10. mid = v[n \div 2 + 1]
  <2>0. half = n \div 2
    BY <1>0
  <2>m. n # 0 => l.mid = w[m + 1] /\ m \in 0 .. n - 1 /\ (n = 2 * m + 1 \/ n = 2 * m + 2)
    BY <1>0, MidIndexIs DEF Centred
  <2>kk. \A i \in 0 .. n + 1 : kk.next[v[i]] = v[i + 1] /\ kk.prev[v[i + 1]] = v[i]
    BY <1>4, <1>7 DEF Linked
  <2> HIDE DEF half, m, n, e
  <2>1. CASE n = 0
    <3>1. mid = e /\ pos = 0 /\ n \div 2 + 1 = 1 /\ 1 \in 0 .. n + 2
      BY <1>0, <2>1 DEF mid
    <3> QED BY <1>9, <3>1
  <2>2. CASE n # 0 /\ n = 2 * m + 2
    <3>1. n + 1 # 1 /\ (n + 1) % 2 = 1 /\ half = m + 1 /\ m + 1 \in 0 .. n + 1 /\ m + 1 \in 0 .. n + 2 /\ m + 2 \in 0 .. n + 2
      BY <1>0, <2>0, <2>m, <2>2
    <3>2. mid = IF pos >= m + 1 THEN kk.next[w[m + 1]] ELSE w[m + 1]
      BY <2>m, <2>2, <3>1 DEF mid
    <3>3. CASE pos >= m + 1
      <4>1. v[m + 1] = w[m + 1]
        BY <1>9, <3>1, <3>3
      <4>2. kk.next[v[m + 1]] = v[m + 2]
        <5>1. kk.next[v[m + 1]] = v[m + 1 + 1]
          BY <2>kk, <3>1
        <5>2. m + 1 + 1 = m + 2
          BY <2>m, <2>2
        <5> QED BY <5>1, <5>2
      <4>3. n \div 2 + 1 = m + 2
        BY <2>0, <2>m, <2>2, <3>1
      <4> QED BY <3>2, <3>3, <4>1, <4>2, <4>3
    <3>4. CASE ~(pos >= m + 1)
      <4> DEFINE h == m + 2
      <4>1. ~(h <= pos) /\ h # pos + 1 /\ h - 1 = m + 1 /\ n \div 2 + 1 = h /\ h \in 0 .. n + 2
        BY <2>0, <2>m, <2>2, <3>1, <3>4
      <4> HIDE DEF h
      <4>2. v[h] = w[h - 1]
        BY <1>9, <4>1
      <4> QED BY <3>2, <3>4, <4>1, <4>2
    <3> QED BY <3>3, <3>4
  <2>3. CASE n # 0 /\ n = 2 * m + 1
    <3>1. n + 1 # 1 /\ (n + 1) % 2 # 1 /\ half = m /\ m + 1 \in 0 .. n + 1 /\ m + 1 \in 0 .. n + 2 /\ m + 2 \in 0 .. n + 2
          /\ m \in Nat
      BY <1>0, <2>0, <2>m, <2>3
    <3>2. mid = IF pos <= m THEN kk.prev[w[m + 1]] ELSE w[m + 1]
      BY <2>m, <2>3, <3>1 DEF mid
    <3>3. n \div 2 + 1 = m + 1
      BY <2>0, <3>1
    <3>4. CASE pos <= m
      <4>0. m + 2 = m + 1 + 1
        BY <3>1
      <4> DEFINE h == m + 2
      <4>1. ~(h <= pos) /\ h # pos + 1 /\ h - 1 = m + 1 /\ h = m + 1 + 1 /\ h \in 0 .. n + 2
        BY <3>1, <3>4, <4>0
      <4> HIDE DEF h
      <4>2. v[h] = w[h - 1]
        BY <1>9, <4>1
      <4>3. kk.prev[v[m + 1 + 1]] = v[m + 1]
        BY <2>kk, <3>1
      <4> QED BY <3>2, <3>3, <3>4, <4>1, <4>2, <4>3
    <3>5. CASE ~(pos <= m)
      <4>1. m + 1 <= pos
        BY <3>1, <3>5
      <4>2. v[m + 1] = w[m + 1]
        BY <1>9, <3>1, <4>1
      <4> QED BY <3>2, <3>3, <3>5, <4>2
    <3> QED BY <3>4, <3>5
  <2> QED BY <2>m, <2>1, <2>2, <2>3
<1>11. Centred(z, v)
  <2>1. z.numels # 0 /\ MidIndex(z) = n \div 2
    <3>1. n + 1 # 0 /\ (n + 1) - 1 = n
      BY <1>0
    <3> QED BY <1>8, <3>1 DEF MidIndex
  <2> QED BY <1>8, <1>10, <2>1 DEF Centred
<1>12. z \in Lists
  <2> DEFINE nx == z.next
             pv == z.prev
             dt == z.data
             sp == z.spareels
             nn == n + 1
  <2>1. z = [next |-> nx, prev |-> pv, data |-> dt, mid |-> mid, numels |-> nn, spareels |-> sp]
    BY <1>6 DEF Inserted
  <2>2. e \in Pointers /\ sp \in Seq(ListEntries)
    BY <1>6, LentIsFree, PointerFacts DEF Inserted
  <2>3. w[pos] \in Pointers /\ w[pos + 1] \in Pointers
    <3>1. pos \in 0 .. n + 1 /\ pos + 1 \in 0 .. n + 1
      BY <1>0
    <3> QED BY <1>0, <3>1 DEF Linked
  <2>4. /\ l.next \in [Pointers -> Pointers] /\ l.prev \in [Pointers -> Pointers]
        /\ l.data \in [Pointers -> ListValues \cup {NIL}]
    BY <1>0 DEF Lists
  <2>5. nx \in [Pointers -> Pointers] /\ pv \in [Pointers -> Pointers] /\ dt \in [Pointers -> ListValues \cup {NIL}]
    <3> HIDE DEF e
    <3>1. /\ nx = [p \in Pointers |-> IF p = w[pos] THEN e ELSE IF p = e THEN w[pos + 1] ELSE l.next[p]]
          /\ pv = [p \in Pointers |-> IF p = e THEN w[pos] ELSE IF p = w[pos + 1] THEN e ELSE l.prev[p]]
          /\ dt = [p \in Pointers |-> IF p = e THEN d ELSE l.data[p]]
      BY <1>6 DEF Inserted, e
    <3> QED BY <2>2, <2>3, <2>4, <3>1
  <2>6. mid \in Pointers
    <3>1. n \div 2 + 1 \in 0 .. n + 2
      BY <1>0
    <3> QED BY <1>9, <1>10, <3>1
  <2>7. nn \in Nat
    BY <1>0
  <2> HIDE DEF nx, pv, dt, sp, nn
  <2> QED BY <2>1, <2>2, <2>5, <2>6, <2>7 DEF Lists
<1>13. Laid(z, v) /\ z.numels = l.numels + 1
  BY <1>8, <1>11, <1>12 DEF Laid
<1> QED BY <1>8, <1>13 DEF z, v

\* Two sequences, one after the other.
LEMMA JoinedAre ==
  ASSUME NEW S, NEW a \in Seq(S), NEW b \in Seq(S)
  PROVE  /\ a \o b \in Seq(S) /\ Len(a \o b) = Len(a) + Len(b)
         /\ \A i \in 1 .. Len(a) + Len(b) : (a \o b)[i] = IF i <= Len(a) THEN a[i] ELSE b[i - Len(a)]
<1>1. a \o b \in Seq(S) /\ Len(a \o b) = Len(a) + Len(b)
  OBVIOUS
<1>2. \A i \in 1 .. Len(a) + Len(b) : (a \o b)[i] = IF i <= Len(a) THEN a[i] ELSE b[i - Len(a)]
  OBVIOUS
<1> QED BY <1>1, <1>2

\* A sequence with one element more, after the s-th.
LEMMA SequenceGrown ==
  ASSUME NEW S, NEW c \in Seq(S), NEW s \in Nat, s <= Len(c), NEW d \in S
  PROVE  /\ InsertAt(c, s + 1, d) \in Seq(S) /\ Len(InsertAt(c, s + 1, d)) = Len(c) + 1
         /\ \A i \in 1 .. Len(c) + 1 :
              InsertAt(c, s + 1, d)[i] = IF i <= s THEN c[i] ELSE IF i = s + 1 THEN d ELSE c[i - 1]
<1> DEFINE n == Len(c)
           a == SubSeq(c, 1, s)
           b == SubSeq(c, s + 1, n)
           e == <<d>>
<1>0. n \in Nat /\ s <= n /\ s + 1 - 1 = s
  OBVIOUS
<1>1. a \in Seq(S) /\ Len(a) = s /\ \A i \in 1 .. s : a[i] = c[i]
  BY <1>0
<1>2. b \in Seq(S) /\ Len(b) = n - s
  BY <1>0
<1>3. \A i \in 1 .. n - s : b[i] = c[s + i]
  BY <1>0
<1>4. e \in Seq(S) /\ Len(e) = 1 /\ e[1] = d
  OBVIOUS
<1> DEFINE h == (s + 1) - 1
<1>5. InsertAt(c, s + 1, d) = (a \o e) \o b
  <2>1. InsertAt(c, s + 1, d) = (SubSeq(c, 1, h) \o e) \o b
    BY Zenon DEF InsertAt
  <2>2. h = s
    BY <1>0
  <2> HIDE DEF h
  <2> QED BY <2>1, <2>2, Zenon
<1> HIDE DEF a, b, e, n
<1> DEFINE f == a \o e
<1>6. f \in Seq(S) /\ Len(f) = s + 1 /\ \A i \in 1 .. s + 1 : f[i] = IF i <= s THEN c[i] ELSE d
  <2>1. f \in Seq(S) /\ Len(f) = s + 1
    <3>1. a \in Seq(S) /\ e \in Seq(S)
      BY <1>1, <1>4
    <3>2. f \in Seq(S) /\ Len(f) = Len(a) + Len(e)
      BY <3>1, JoinedAre
    <3> QED BY <1>1, <1>4, <3>2
  <2>2. \A i \in 1 .. s + 1 : f[i] = IF i <= s THEN a[i] ELSE e[i - s]
    <3>1. a \in Seq(S) /\ e \in Seq(S) /\ Len(a) = s /\ Len(e) = 1
      BY <1>1, <1>4
    <3>2. \A i \in 1 .. Len(a) + Len(e) : f[i] = IF i <= Len(a) THEN a[i] ELSE e[i - Len(a)]
      BY <3>1, JoinedAre
    <3> QED BY <3>1, <3>2
  <2> HIDE DEF f
  <2>3. ASSUME NEW i \in 1 .. s + 1 PROVE f[i] = IF i <= s THEN c[i] ELSE d
    <3>1. CASE i <= s
      BY <1>1, <2>2, <3>1
    <3>2. CASE ~(i <= s)
      <4>1. i - s = 1
        BY <3>2
      <4> QED BY <1>4, <2>2, <3>2, <4>1
    <3> QED BY <3>1, <3>2
  <2> QED BY <2>1, <2>3
<1> HIDE DEF f
<1> DEFINE g == f \o b
<1>7. f \in Seq(S) /\ b \in Seq(S) /\ Len(f) = s + 1 /\ Len(f) + Len(b) = n + 1
  BY <1>0, <1>2, <1>6
<1>8. /\ g \in Seq(S) /\ Len(g) = n + 1
      /\ \A i \in 1 .. n + 1 : g[i] = IF i <= s + 1 THEN f[i] ELSE b[i - (s + 1)]
  <2>1. /\ g \in Seq(S) /\ Len(g) = Len(f) + Len(b)
        /\ \A i \in 1 .. Len(f) + Len(b) : g[i] = IF i <= Len(f) THEN f[i] ELSE b[i - Len(f)]
    BY <1>7, JoinedAre
  <2> QED BY <1>7, <2>1
<1> HIDE DEF g
<1>9. ASSUME NEW i \in 1 .. n + 1
      PROVE  g[i] = IF i <= s THEN c[i] ELSE IF i = s + 1 THEN d ELSE c[i - 1]
  <2>1. CASE i <= s + 1
    <3>1. i \in 1 .. s + 1
      BY <2>1
    <3> QED BY <1>6, <1>8, <2>1, <3>1
  <2>2. CASE ~(i <= s + 1)
    <3>1. i - (s + 1) \in 1 .. n - s /\ s + (i - (s + 1)) = i - 1 /\ ~(i <= s) /\ i # s + 1
      BY <1>0, <2>2
    <3> QED BY <1>3, <1>8, <2>2, <3>1
  <2> QED BY <2>1, <2>2
<1>10. InsertAt(c, s + 1, d) = g
  BY <1>5 DEF g, f
<1> QED BY <1>8, <1>9, <1>10 DEF n

\* The list holds what is inserted, where it is inserted.
LEMMA InsertHolds ==
  ASSUME NEW l, NEW w, Laid(l, w), l.numels < MaxElems, NEW pos \in Nat, pos <= l.numels,
         NEW d \in ListValues
  PROVE  Contents(list_insert_at(l, d, pos)) = InsertAt(Contents(l), pos + 1, d)
<1> DEFINE n == l.numels
           c == Contents(l)
           z == list_insert_at(l, d, pos)
           v == Grown(w, n, pos, Lent(l))
           r == Contents(z)
           t == InsertAt(c, pos + 1, d)
<1>1. c \in Seq(ListValues) /\ Len(c) = n
  BY ContentsAre
<1>2. \A i \in 1 .. n : c[i] = l.data[w[i]]
  BY ContentsAre
<1>3. Laid(z, v) /\ z.numels = n + 1
  BY InsertIs
<1>4. \A i \in 1 .. n + 1 :
        z.data[v[i]] = IF i <= pos THEN l.data[w[i]] ELSE IF i = pos + 1 THEN d ELSE l.data[w[i - 1]]
  BY InsertIs
<1>n. n \in Nat
  BY DEF Laid, Lists
<1> HIDE DEF z, v
<1>5. r \in Seq(ListValues) /\ Len(r) = n + 1
  BY <1>3, ContentsAre
<1>6. \A i \in 1 .. n + 1 : r[i] = z.data[v[i]]
  BY <1>3, ContentsAre
<1>7. t \in Seq(ListValues) /\ Len(t) = n + 1
  <2>1. pos <= Len(c) /\ c \in Seq(ListValues)
    BY <1>1
  <2> HIDE DEF c, n
  <2>2. InsertAt(c, pos + 1, d) \in Seq(ListValues) /\ Len(InsertAt(c, pos + 1, d)) = Len(c) + 1
    BY <2>1, SequenceGrown
  <2> QED BY <1>1, <2>2
<1>8. \A i \in 1 .. n + 1 : t[i] = IF i <= pos THEN c[i] ELSE IF i = pos + 1 THEN d ELSE c[i - 1]
  BY <1>1, SequenceGrown
<1> HIDE DEF r, t, c, n
<1>9. ASSUME NEW i \in 1 .. n + 1 PROVE r[i] = t[i]
  <2>1. i <= pos => i \in 1 .. n
    BY <1>n DEF n
  <2>2. ~(i <= pos) /\ i # pos + 1 => i - 1 \in 1 .. n
    BY <1>n DEF n
  <2>3. r[i] = IF i <= pos THEN l.data[w[i]] ELSE IF i = pos + 1 THEN d ELSE l.data[w[i - 1]]
    BY <1>4, <1>6
  <2>4. t[i] = IF i <= pos THEN c[i] ELSE IF i = pos + 1 THEN d ELSE c[i - 1]
    BY <1>8
  <2> QED BY <1>2, <2>1, <2>2, <2>3, <2>4
<1>10. r = t
  <2>1. r = [i \in 1 .. n + 1 |-> r[i]] /\ t = [i \in 1 .. n + 1 |-> t[i]]
    BY <1>n, <1>5, <1>7
  <2> QED BY <1>9, <2>1
<1> QED BY <1>10 DEF r, t, c, z

\* The walks arrive, and the operations do what they would do to a sequence.
LEMMA LaidAgrees ==
  ASSUME NEW w, Laid(lst, w)
  PROVE  RepOk(lst) /\ WalksArrive /\ OperationsAgree
<1> DEFINE n == lst.numels
           s == Contents(lst)
<1>0. n \in Nat /\ Linked(lst, w) /\ Centred(lst, w)
  BY DEF Laid, Lists
<1>1. RepOk(lst)
  BY LaidIsOk
<1>2. WalksArrive
  <2>1. ASSUME NEW pos \in -1 .. lst.numels
        PROVE  list_findpos(lst, pos) = Steps(lst.next, HEAD, pos + 1)
    <3>1. pos + 1 \in 0 .. lst.numels + 1
      BY <1>0, <2>1
    <3>2. list_findpos(lst, pos) = w[pos + 1]
      BY <1>0, FindPos
    <3>3. Steps(lst.next, HEAD, pos + 1) = w[pos + 1]
      BY <1>0, <3>1, FromHead
    <3> QED BY <3>2, <3>3
  <2> QED BY <2>1 DEF WalksArrive
<1>3. ASSUME n < MaxElems, NEW d \in ListValues, NEW pos \in 0 .. n
      PROVE  Contents(list_insert_at(lst, d, pos)) = InsertAt(s, pos + 1, d)
  <2>1. pos \in Nat /\ pos <= lst.numels
    BY <1>0
  <2> QED BY <1>3, <2>1, InsertHolds
<1>4. ASSUME NEW pos \in 0 .. n - 1
      PROVE  Contents(list_delete_at(lst, pos)) = RemoveAt(s, pos + 1) /\ Extracted(lst, pos) = s[pos + 1]
  <2>1. pos \in Nat /\ pos < lst.numels /\ pos + 1 - 1 = pos /\ pos + 1 + 1 = pos + 2
    BY <1>0
  <2>2. /\ Contents(list_delete_at(lst, pos)) = SubSeq(s, 1, pos) \o SubSeq(s, pos + 2, lst.numels)
        /\ Extracted(lst, pos) = s[pos + 1]
    BY <2>1, DeleteAtIs
  <2>3. Len(s) = lst.numels
    BY ContentsAre
  <2> DEFINE kk == pos + 1
  <2> HIDE DEF s
  <2>4. RemoveAt(s, pos + 1) = SubSeq(s, 1, pos) \o SubSeq(s, pos + 2, lst.numels)
    <3>1. RemoveAt(s, kk) = SubSeq(s, 1, kk - 1) \o SubSeq(s, kk + 1, Len(s))
      BY DEF RemoveAt
    <3>2. kk - 1 = pos /\ kk + 1 = pos + 2
      BY <2>1
    <3> HIDE DEF kk
    <3>3. RemoveAt(s, kk) = SubSeq(s, 1, pos) \o SubSeq(s, pos + 2, lst.numels)
      BY <2>3, <3>1, <3>2
    <3> QED BY <3>3 DEF kk
  <2> QED BY <2>2, <2>4
<1>5. ASSUME NEW i \in 0 .. n - 1, NEW jj \in 0 .. n - 1, i <= jj
      PROVE  Contents(list_delete_range(lst, i, jj)) = SubSeq(s, 1, i) \o SubSeq(s, jj + 2, n)
  <2>1. i \in Nat /\ jj \in Nat /\ jj < lst.numels
    BY <1>0
  <2> QED BY <1>5, <2>1, DeleteRangeIs
<1>6. OperationsAgree
  BY <1>3, <1>4, <1>5 DEF OperationsAgree
<1> QED BY <1>1, <1>2, <1>6

\* What list_concat lays out: new entries, from the first on.
Place(n, i) == IF i = 0 THEN HEAD ELSE IF i = n + 1 THEN TAIL ELSE i
Places(n) == [i \in 0 .. n + 1 |-> Place(n, i)]
JoinedNext(n) == [p \in Pointers |-> IF p = HEAD THEN Place(n, 1)
                                     ELSE IF p \in 1 .. n THEN Place(n, p + 1) ELSE NIL]
JoinedPrev(n) == [p \in Pointers |-> IF p = TAIL THEN Place(n, n)
                                     ELSE IF p \in 1 .. n THEN Place(n, p - 1) ELSE NIL]
JoinedData(n, x) == [p \in Pointers |-> IF p \in 1 .. n THEN x[p] ELSE NIL]
JoinedList(n, x, mid) ==
  [next |-> JoinedNext(n), prev |-> JoinedPrev(n), data |-> JoinedData(n, x), mid |-> mid,
   numels |-> n, spareels |-> <<>>]

\* Where the places are.
LEMMA PlacesAre ==
  ASSUME NEW n \in Nat, n # 0, n <= MaxElems + MaxSpare
  PROVE  /\ 1 .. n \subseteq ListEntries
         /\ \A i \in 0 .. n + 1 : Place(n, i) \in Pointers
         /\ \A i \in 1 .. n : Place(n, i) = i
         /\ Place(n, 0) = HEAD /\ Place(n, n + 1) = TAIL
         /\ \A i, jj \in 0 .. n + 1 : Place(n, i) = Place(n, jj) => i = jj
<1>1. 1 .. n \subseteq ListEntries /\ HEAD \notin 1 .. n /\ TAIL \notin 1 .. n
  BY PointerFacts DEF ListEntries, HEAD, TAIL
<1>2. \A i \in 1 .. n : Place(n, i) = i
  BY DEF Place
<1>3. Place(n, 0) = HEAD /\ Place(n, n + 1) = TAIL
  BY DEF Place
<1>4. \A i \in 0 .. n + 1 : i = 0 \/ i \in 1 .. n \/ i = n + 1
  OBVIOUS
<1>5. \A i \in 0 .. n + 1 : Place(n, i) \in Pointers
  BY <1>1, <1>2, <1>3, <1>4, PointerFacts
<1>6. \A i, jj \in 0 .. n + 1 : Place(n, i) = Place(n, jj) => i = jj
  BY <1>1, <1>2, <1>3, <1>4, PointerFacts
<1> QED BY <1>1, <1>2, <1>3, <1>5, <1>6

\* They are linked.
LEMMA JoinedLinked ==
  ASSUME NEW n \in Nat, n # 0, n <= MaxElems + MaxSpare, NEW x \in Seq(ListValues), Len(x) = n, NEW mid
  PROVE  Linked(JoinedList(n, x, mid), Places(n)) /\ SparesApart(JoinedList(n, x, mid), Places(n))
<1> DEFINE l == JoinedList(n, x, mid)
           w == Places(n)
<1>1. /\ l.next = JoinedNext(n) /\ l.prev = JoinedPrev(n) /\ l.data = JoinedData(n, x) /\ l.mid = mid
      /\ l.numels = n /\ l.spareels = <<>>
  BY DEF JoinedList
<1>2. \A i \in 0 .. n + 1 : w[i] = Place(n, i)
  BY DEF Places
<1>3. w \in [0 .. n + 1 -> Pointers]
  BY PlacesAre DEF Places
<1>4. 0 \in 0 .. n + 1 /\ n + 1 \in 0 .. n + 1
  OBVIOUS
<1>5. w[0] = HEAD /\ w[n + 1] = TAIL
  BY <1>2, <1>4, PlacesAre
<1> HIDE DEF l, w
<1>6. \A i \in 1 .. n : w[i] = i /\ i \in ListEntries /\ i \in Pointers
  <2>1. \A i \in 1 .. n : i \in 0 .. n + 1
    OBVIOUS
  <2> QED BY <1>2, <2>1, PlacesAre, PointerFacts
<1>7. \A i \in 1 .. n : w[i] \in ListEntries /\ l.data[w[i]] \in ListValues
  <2>1. \A i \in 1 .. n : x[i] \in ListValues
    OBVIOUS
  <2> QED BY <1>1, <1>6, <2>1 DEF JoinedData
<1>8. \A i, jj \in 0 .. n + 1 : w[i] = w[jj] => i = jj
  BY <1>2, PlacesAre
<1>9. ASSUME NEW i \in 0 .. n PROVE l.next[w[i]] = w[i + 1]
  <2>1. i + 1 \in 0 .. n + 1
    OBVIOUS
  <2>2. CASE i = 0
    <3>1. JoinedNext(n)[HEAD] = Place(n, 1)
      BY PointerFacts DEF JoinedNext
    <3> QED BY <1>1, <1>2, <1>5, <2>1, <2>2, <3>1
  <2>3. CASE i # 0
    <3>1. i \in 1 .. n /\ w[i] = i /\ i \in Pointers /\ i # HEAD
      BY <1>6, <2>3, PlacesAre, PointerFacts
    <3>2. JoinedNext(n)[i] = Place(n, i + 1)
      BY <3>1 DEF JoinedNext
    <3> QED BY <1>1, <1>2, <2>1, <3>1, <3>2
  <2> QED BY <2>2, <2>3
<1>10. ASSUME NEW i \in 0 .. n PROVE l.prev[w[i + 1]] = w[i]
  <2>1. i \in 0 .. n + 1 /\ n \in 0 .. n + 1
    OBVIOUS
  <2>2. CASE i = n
    <3>1. JoinedPrev(n)[TAIL] = Place(n, n)
      BY PointerFacts DEF JoinedPrev
    <3> QED BY <1>1, <1>2, <1>5, <2>1, <2>2, <3>1
  <2>3. CASE i # n
    <3>1. i + 1 \in 1 .. n /\ (i + 1) - 1 = i
      BY <2>3
    <3>2. w[i + 1] = i + 1 /\ i + 1 \in Pointers /\ i + 1 # TAIL
      BY <1>6, <3>1, PlacesAre, PointerFacts
    <3>3. JoinedPrev(n)[i + 1] = Place(n, (i + 1) - 1)
      BY <3>1, <3>2 DEF JoinedPrev
    <3> QED BY <1>1, <1>2, <2>1, <3>1, <3>2, <3>3
  <2> QED BY <2>2, <2>3
<1>11. l.prev[HEAD] = NIL /\ l.next[TAIL] = NIL
  <2>1. HEAD \notin 1 .. n /\ TAIL \notin 1 .. n
    BY PlacesAre, PointerFacts
  <2> QED BY <1>1, <2>1, PointerFacts DEF JoinedNext, JoinedPrev
<1>12. Linked(l, w)
  BY <1>1, <1>3, <1>5, <1>7, <1>8, <1>9, <1>10, <1>11 DEF Linked
<1>13. SparesApart(l, w)
  <2>1. Len(l.spareels) = 0
    BY <1>1
  <2> QED BY <2>1, PointerFacts DEF SparesApart
<1> QED BY <1>12, <1>13 DEF l, w

\* The middle, from either list.
LEMMA JoinedLaid ==
  ASSUME NEW n \in Nat, n # 0, n <= MaxElems + MaxSpare, NEW x \in Seq(ListValues), Len(x) = n
  PROVE  /\ Laid(JoinedList(n, x, Place(n, (n + 1) \div 2)), Places(n))
         /\ Contents(JoinedList(n, x, Place(n, (n + 1) \div 2))) = x
<1> DEFINE h == (n + 1) \div 2
           mid == Place(n, h)
           l == JoinedList(n, x, mid)
           w == Places(n)
<1>1. h \in 0 .. n + 1 /\ (n - 1) \div 2 + 1 = h
  OBVIOUS
<1>2. Linked(l, w) /\ SparesApart(l, w)
  BY JoinedLinked
<1>3. /\ l.next = JoinedNext(n) /\ l.prev = JoinedPrev(n) /\ l.data = JoinedData(n, x) /\ l.mid = mid
      /\ l.numels = n /\ l.spareels = <<>>
  BY DEF JoinedList
<1>4. w[h] = mid
  BY <1>1 DEF Places
<1> HIDE DEF h
<1>5. Centred(l, w)
  <2>1. MidIndex(l) + 1 = h
    BY <1>1, <1>3 DEF MidIndex
  <2> HIDE DEF l
  <2> QED BY <1>3, <1>4, <2>1 DEF Centred
<1>6. JoinedNext(n) \in [Pointers -> Pointers]
  <2>1. ASSUME NEW p \in Pointers PROVE JoinedNext(n)[p] \in Pointers
    <3>1. 1 \in 0 .. n + 1 /\ (p \in 1 .. n => p + 1 \in 0 .. n + 1)
      OBVIOUS
    <3> QED BY <3>1, PlacesAre, PointerFacts DEF JoinedNext
  <2> QED BY <2>1 DEF JoinedNext
<1>7. JoinedPrev(n) \in [Pointers -> Pointers]
  <2>1. ASSUME NEW p \in Pointers PROVE JoinedPrev(n)[p] \in Pointers
    <3>1. n \in 0 .. n + 1 /\ (p \in 1 .. n => p - 1 \in 0 .. n + 1)
      OBVIOUS
    <3> QED BY <3>1, PlacesAre, PointerFacts DEF JoinedPrev
  <2> QED BY <2>1 DEF JoinedPrev
<1>8. JoinedData(n, x) \in [Pointers -> ListValues \cup {NIL}]
  <2>1. \A p \in 1 .. n : x[p] \in ListValues
    OBVIOUS
  <2> QED BY <2>1 DEF JoinedData
<1>9. mid \in Pointers
  BY <1>1, PlacesAre
<1>10. l \in Lists
  <2>1. <<>> \in Seq(ListEntries)
    OBVIOUS
  <2> HIDE DEF mid
  <2> QED BY <1>6, <1>7, <1>8, <1>9, <2>1 DEF JoinedList, Lists
<1>11. Laid(l, w)
  BY <1>2, <1>5, <1>10 DEF Laid
<1>12. Contents(l) = x
  <2>1. Contents(l) \in Seq(ListValues) /\ Len(Contents(l)) = n
    BY <1>3, <1>11, ContentsAre
  <2>2. \A i \in 1 .. n : Contents(l)[i] = l.data[w[i]]
    BY <1>3, <1>11, ContentsAre
  <2>3. \A i \in 1 .. n : w[i] = i /\ i \in Pointers
    <3>1. \A i \in 1 .. n : i \in 0 .. n + 1
      OBVIOUS
    <3> QED BY <3>1, PlacesAre, PointerFacts DEF Places
  <2> DEFINE c == Contents(l)
  <2> HIDE DEF l, w, c
  <2>4. \A i \in 1 .. n : c[i] = x[i]
    BY <1>3, <2>2, <2>3 DEF JoinedData, c
  <2>5. c = [i \in 1 .. n |-> c[i]] /\ x = [i \in 1 .. n |-> x[i]]
    BY <2>1 DEF c
  <2> QED BY <2>4, <2>5 DEF c
<1> QED BY <1>11, <1>12 DEF h

\* A list of nothing.
LEMMA InitLaid ==
  /\ Laid(list_init, [i \in 0 .. 1 |-> IF i = 0 THEN HEAD ELSE TAIL])
  /\ list_init.numels = 0 /\ Contents(list_init) = <<>>
<1> DEFINE l == list_init
           w == [i \in 0 .. 1 |-> IF i = 0 THEN HEAD ELSE TAIL]
<1>1. /\ l.next = [p \in Pointers |-> IF p = HEAD THEN TAIL ELSE NIL]
      /\ l.prev = [p \in Pointers |-> IF p = TAIL THEN HEAD ELSE NIL]
      /\ l.data = [p \in Pointers |-> NIL] /\ l.mid = NIL /\ l.numels = 0 /\ l.spareels = <<>>
  BY DEF list_init
<1>2. l \in Lists
  <2>1. <<>> \in Seq(ListEntries) /\ 0 \in Nat
    OBVIOUS
  <2> QED BY <2>1, PointerFacts DEF list_init, Lists
<1> HIDE DEF l
<1>3. w[0] = HEAD /\ w[1] = TAIL /\ w \in [0 .. 0 + 1 -> Pointers]
  BY PointerFacts
<1> HIDE DEF w
<1>4. \A i \in 0 .. 0 + 1 : i = 0 \/ i = 1
  OBVIOUS
<1>5. Linked(l, w)
  <2>1. \A i, jj \in 0 .. 0 + 1 : w[i] = w[jj] => i = jj
    BY <1>3, <1>4, PointerFacts
  <2>2. \A i \in 0 .. 0 : l.next[w[i]] = w[i + 1] /\ l.prev[w[i + 1]] = w[i]
    <3>1. l.next[w[0]] = w[1] /\ l.prev[w[1]] = w[0]
      BY <1>1, <1>3, PointerFacts
    <3>2. \A i \in 0 .. 0 : i = 0 /\ i + 1 = 1
      OBVIOUS
    <3> QED BY <3>1, <3>2
  <2>3. l.prev[HEAD] = NIL /\ l.next[TAIL] = NIL
    BY <1>1, PointerFacts
  <2>4. w[0 + 1] = TAIL
    BY <1>3
  <2> QED BY <1>1, <1>3, <2>1, <2>2, <2>3, <2>4 DEF Linked
<1>6. Centred(l, w)
  BY <1>1 DEF Centred
<1>7. SparesApart(l, w)
  <2>1. Len(l.spareels) = 0
    BY <1>1
  <2> QED BY <2>1, PointerFacts DEF SparesApart
<1>8. Laid(l, w)
  BY <1>2, <1>5, <1>6, <1>7 DEF Laid
<1>9. Contents(l) = <<>>
  <2>1. Contents(l) \in Seq(ListValues) /\ Len(Contents(l)) = 0
    BY <1>1, <1>8, ContentsAre
  <2> QED BY <2>1
<1> QED BY <1>1, <1>8, <1>9 DEF l, w

\* Where the walk that puts mid right comes to.
LEMMA JoinedMid ==
  ASSUME NEW n1 \in Nat, NEW n2 \in Nat, n1 + n2 # 0, n1 + n2 <= MaxElems + MaxSpare,
         NEW x \in Seq(ListValues), Len(x) = n1 + n2
  PROVE  (IF n2 - n1 > 0 THEN Steps(JoinedNext(n1 + n2), Place(n1 + n2, n1), ((n2 - n1) + 1) \div 2)
          ELSE Steps(JoinedPrev(n1 + n2), Place(n1 + n2, n1), (-(n2 - n1)) \div 2))
         = Place(n1 + n2, (n1 + n2 + 1) \div 2)
<1> DEFINE n == n1 + n2
           l == JoinedList(n, x, NIL)
           w == Places(n)
           a == ((n2 - n1) + 1) \div 2
           b == (-(n2 - n1)) \div 2
           h == (n + 1) \div 2
<1>1. n \in Nat
  OBVIOUS
<1>2. n2 - n1 > 0 => a \in Nat /\ n1 + a = h
  OBVIOUS
<1>3. ~(n2 - n1 > 0) => b \in Nat /\ b <= n1 /\ n1 - b = h
  OBVIOUS
<1>4. h \in 0 .. n + 1 /\ n1 \in 0 .. n + 1
  OBVIOUS
<1>5. l.next = JoinedNext(n) /\ l.prev = JoinedPrev(n) /\ l.numels = n
  BY DEF JoinedList
<1>6. w[n1] = Place(n, n1) /\ w[h] = Place(n, h)
  BY <1>4 DEF Places
<1>7. Linked(l, w)
  BY <1>1, JoinedLinked
<1> HIDE DEF l, w, a, b, h
<1>8. CASE n2 - n1 > 0
  <2>1. l.numels \in Nat /\ n1 \in 0 .. l.numels + 1 /\ a \in Nat /\ n1 + a <= l.numels + 1
    BY <1>1, <1>2, <1>4, <1>5, <1>8
  <2>2. Steps(l.next, w[n1], a) = w[n1 + a]
    BY <1>7, <2>1, WalkOn
  <2> QED BY <1>2, <1>5, <1>6, <1>8, <2>2 DEF a, h
<1>9. CASE ~(n2 - n1 > 0)
  <2>1. l.numels \in Nat /\ n1 \in 0 .. l.numels + 1 /\ b \in Nat /\ b <= n1
    BY <1>1, <1>3, <1>4, <1>5, <1>9
  <2>2. Steps(l.prev, w[n1], b) = w[n1 - b]
    BY <1>7, <2>1, WalkBack
  <2> QED BY <1>3, <1>5, <1>6, <1>9, <2>2 DEF b, h
<1> QED BY <1>8, <1>9

\* Two lists joined are a list, of what the first holds and then the second.
LEMMA ConcatIs ==
  ASSUME NEW l1, NEW w1, Laid(l1, w1), NEW l2, NEW w2, Laid(l2, w2),
         l1.numels + l2.numels <= MaxElems + MaxSpare
  PROVE  /\ RepOk(list_concat(l1, l2))
         /\ Contents(list_concat(l1, l2)) = Contents(l1) \o Contents(l2)
<1> DEFINE n1 == l1.numels
           n2 == l2.numels
           n == n1 + n2
           c1 == Contents(l1)
           c2 == Contents(l2)
           x == c1 \o c2
           copied == [i \in 1 .. n |-> IF i <= n1 THEN l1.data[Steps(l1.next, HEAD, i)]
                                       ELSE l2.data[Steps(l2.next, HEAD, i - n1)]]
           jj == list_concat(l1, l2)
<1>0. n1 \in Nat /\ n2 \in Nat /\ n \in Nat /\ Linked(l1, w1) /\ Linked(l2, w2)
  BY DEF Laid, Lists
<1>1. c1 \in Seq(ListValues) /\ Len(c1) = n1 /\ c2 \in Seq(ListValues) /\ Len(c2) = n2
  BY ContentsAre
<1>2. \A i \in 1 .. n1 : c1[i] = l1.data[Steps(l1.next, HEAD, i)]
  BY DEF Contents
<1>3. \A i \in 1 .. n2 : c2[i] = l2.data[Steps(l2.next, HEAD, i)]
  BY DEF Contents
<1> HIDE DEF c1, c2
<1>4. x \in Seq(ListValues) /\ Len(x) = n
  <2>1. x \in Seq(ListValues) /\ Len(x) = Len(c1) + Len(c2)
    <3>1. c1 \in Seq(ListValues) /\ c2 \in Seq(ListValues)
      BY <1>1
    <3> QED BY <3>1, JoinedAre
  <2> HIDE DEF x
  <2> QED BY <1>1, <2>1
<1>5. \A i \in 1 .. n : x[i] = IF i <= n1 THEN c1[i] ELSE c2[i - n1]
  BY <1>1, JoinedAre
<1>6. copied = x
  <2> HIDE DEF x
  <2>1. ASSUME NEW i \in 1 .. n PROVE copied[i] = x[i]
    <3>1. i <= n1 => i \in 1 .. n1
      BY <1>0
    <3>2. ~(i <= n1) => i - n1 \in 1 .. n2
      BY <1>0
    <3> QED BY <1>2, <1>3, <1>5, <3>1, <3>2
  <2>2. x = [i \in 1 .. n |-> x[i]] /\ copied = [i \in 1 .. n |-> copied[i]]
    BY <1>4
  <2> HIDE DEF copied
  <2> QED BY <2>1, <2>2
<1>7. CASE n = 0
  <2>1. jj = list_init
    BY <1>7 DEF list_concat
  <2>2. Len(x) = 0
    BY <1>4, <1>7
  <2> HIDE DEF x, jj
  <2>3. x = <<>>
    BY <1>4, <2>2
  <2>4. RepOk(list_init)
    BY InitLaid, LaidIsOk
  <2>5. RepOk(jj) /\ Contents(jj) = x
    BY <2>1, <2>3, <2>4, InitLaid
  <2> QED BY <2>5 DEF jj, x, c1, c2
<1>8. CASE n # 0
  <2> DEFINE m == IF n2 - n1 > 0 THEN Steps(JoinedNext(n), Place(n, n1), ((n2 - n1) + 1) \div 2)
                  ELSE Steps(JoinedPrev(n), Place(n, n1), (-(n2 - n1)) \div 2)
             h == (n + 1) \div 2
  <2>1. jj = JoinedList(n, copied, m)
    BY <1>8 DEF list_concat, JoinedList, JoinedNext, JoinedPrev, JoinedData, Place
  <2>2. m = Place(n, h)
    <3> HIDE DEF x
    <3> QED BY <1>0, <1>4, <1>8, JoinedMid
  <2>3. Laid(JoinedList(n, x, Place(n, h)), Places(n)) /\ Contents(JoinedList(n, x, Place(n, h))) = x
    <3> HIDE DEF x
    <3> QED BY <1>0, <1>4, <1>8, JoinedLaid
  <2> HIDE DEF m, h, x, copied, jj
  <2>4. jj = JoinedList(n, x, Place(n, h))
    BY <1>6, <2>1, <2>2
  <2>5. RepOk(jj) /\ Contents(jj) = x
    <3>1. RepOk(JoinedList(n, x, Place(n, h)))
      BY <2>3, LaidIsOk
    <3> QED BY <2>3, <2>4, <3>1
  <2> QED BY <2>5 DEF jj, x, c1, c2
<1> QED BY <1>7, <1>8

\* A list and what a deletion leaves of it, joined in either order.
LEMMA LaidConcat ==
  ASSUME NEW w, Laid(lst, w)
  PROVE  ConcatAgrees
<1>1. ASSUME NEW i \in Positions(lst), NEW jj \in Positions(lst), i <= jj,
             lst.numels + list_delete_range(lst, i, jj).numels <= Cardinality(ListEntries),
             NEW pair \in {<<lst, list_delete_range(lst, i, jj)>>, <<list_delete_range(lst, i, jj), lst>>}
      PROVE  /\ RepOk(list_concat(pair[1], pair[2]))
             /\ Contents(list_concat(pair[1], pair[2])) = Contents(pair[1]) \o Contents(pair[2])
  <2> DEFINE r == list_delete_range(lst, i, jj)
  <2>0. lst.numels \in Nat
    BY DEF Laid, Lists
  <2>1. i \in Nat /\ jj \in Nat /\ jj < lst.numels
    BY <2>0 DEF Positions
  <2>2. PICK v : Laid(r, v)
    BY <1>1, <2>1, DeleteRangeIs
  <2>3. r.numels \in Nat
    BY <2>2 DEF Laid, Lists
  <2>4. Cardinality(ListEntries) = MaxElems + MaxSpare
    <3> DEFINE most == MaxElems + MaxSpare
    <3>1. 1 \in Int /\ most \in Nat /\ most \in Int
      BY PointerFacts
    <3>2. ListEntries = 1 .. most
      BY DEF ListEntries
    <3> HIDE DEF most
    <3>3. Cardinality(1 .. most) = IF 1 > most THEN 0 ELSE most - 1 + 1
      BY <3>1, FS_Interval
    <3>4. Cardinality(1 .. most) = most
      BY <3>1, <3>3
    <3> QED BY <3>2, <3>4 DEF most
  <2>5. lst.numels + r.numels <= MaxElems + MaxSpare /\ r.numels + lst.numels <= MaxElems + MaxSpare
    BY <1>1, <2>0, <2>3, <2>4
  <2> HIDE DEF r
  <2>6. CASE pair = <<lst, r>>
    <3>1. pair[1] = lst /\ pair[2] = r
      BY <2>6
    <3> QED BY <2>2, <2>5, <3>1, ConcatIs
  <2>7. CASE pair = <<r, lst>>
    <3>1. pair[1] = r /\ pair[2] = lst
      BY <2>7
    <3> QED BY <2>2, <2>5, <3>1, ConcatIs
  <2> QED BY <2>6, <2>7 DEF r
<1> QED BY <1>1 DEF ConcatAgrees

-----------------------------------------------------------------------------
(* The sort *)

\* What the list holds, as the comparator orders it.
Keys == [i \in 0 .. lst.numels - 1 |-> sorting.versus * Datum(i)]

Within(c, i) == c[1] <= i /\ i <= c[2]

\* The calls still to be made: ranges of positions, one behind the other.
Ranges(calls, n) ==
  /\ calls \in Seq(Int \X Int)
  /\ \A a \in 1 .. Len(calls) : 0 <= calls[a][1] /\ calls[a][1] <= calls[a][2] /\ calls[a][2] < n
  /\ \A a, b \in 1 .. Len(calls) : a < b => calls[a][2] < calls[b][1]

\* Two positions are in order, or in the range of one call.
Settled(kk, calls, n) ==
  \A i, jj \in 0 .. n - 1 : i < jj =>
    kk[i] <= kk[jj] \/ \E a \in 1 .. Len(calls) : Within(calls[a], i) /\ Within(calls[a], jj)

\* The smallest are in front of unsorted.
Selected(kk, c, unsorted) ==
  /\ Within(c, unsorted)
  /\ \A i, jj \in c[1] .. c[2] : i < unsorted /\ i < jj => kk[i] <= kk[jj]

\* What left has passed is not behind the pivot, and what right has passed not before it.
Parted(kk, c, left, pivot, right) ==
  /\ c[1] <= left /\ left <= pivot /\ pivot <= right /\ right <= c[2]
  /\ \A i \in c[1] .. c[2] : i < left => kk[i] <= kk[pivot]
  /\ \A i \in c[1] .. c[2] : right < i => kk[pivot] <= kk[i]

\* The range of the call that runs.
LEMMA FirstRange ==
  ASSUME NEW n \in Nat, NEW calls, Ranges(calls, n), calls # <<>>
  PROVE  /\ Len(calls) \in Nat /\ 1 \in 1 .. Len(calls) /\ calls[1] = Head(calls)
         /\ calls[1] \in Int \X Int /\ 0 <= calls[1][1] /\ calls[1][1] <= calls[1][2] /\ calls[1][2] < n
         /\ \A a \in 1 .. Len(calls) : a # 1 => calls[a] \in Int \X Int /\ calls[1][2] < calls[a][1]
<1>1. calls \in Seq(Int \X Int) /\ Len(calls) \in Nat /\ Len(calls) # 0
  BY DEF Ranges
<1>2. 1 \in 1 .. Len(calls) /\ calls[1] = Head(calls)
  BY <1>1
<1>3. \A a \in 1 .. Len(calls) : calls[a] \in Int \X Int
  BY <1>1
<1>4. \A a \in 1 .. Len(calls) : a # 1 => 1 < a
  BY <1>1
<1> QED BY <1>1, <1>2, <1>3, <1>4 DEF Ranges

\* Data that move within the range of the running call leave what is settled.
LEMMA MovedSettled ==
  ASSUME NEW n \in Nat, NEW calls, Ranges(calls, n), calls # <<>>, NEW kk, NEW m, NEW g, Settled(kk, calls, n),
         \A i \in 0 .. n - 1 : g[i] \in 0 .. n - 1 /\ m[i] = kk[g[i]],
         \A i \in 0 .. n - 1 : Within(Head(calls), i) => Within(Head(calls), g[i]),
         \A i \in 0 .. n - 1 : ~Within(Head(calls), i) => g[i] = i
  PROVE  Settled(m, calls, n)
<1> DEFINE c == calls[1]
<1>1. /\ Len(calls) \in Nat /\ 1 \in 1 .. Len(calls) /\ c = Head(calls)
      /\ c \in Int \X Int /\ \A a \in 1 .. Len(calls) : a # 1 => calls[a] \in Int \X Int /\ c[2] < calls[a][1]
  BY FirstRange
<1> HIDE DEF c
<1>2. c[1] \in Int /\ c[2] \in Int /\ \A a \in 1 .. Len(calls) : a # 1 => calls[a][1] \in Int /\ calls[a][2] \in Int
  BY <1>1
<1>3. SUFFICES ASSUME NEW i \in 0 .. n - 1, NEW jj \in 0 .. n - 1, i < jj
      PROVE m[i] <= m[jj] \/ \E a \in 1 .. Len(calls) : Within(calls[a], i) /\ Within(calls[a], jj)
  BY DEF Settled
<1>4. /\ g[i] \in 0 .. n - 1 /\ g[jj] \in 0 .. n - 1 /\ m[i] = kk[g[i]] /\ m[jj] = kk[g[jj]]
      /\ Within(c, i) => Within(c, g[i])
      /\ Within(c, jj) => Within(c, g[jj])
      /\ ~Within(c, i) => g[i] = i
      /\ ~Within(c, jj) => g[jj] = jj
  BY <1>1
<1>5. CASE Within(c, i) /\ Within(c, jj)
  BY <1>1, <1>5 DEF c
<1>6. CASE Within(c, i) /\ ~Within(c, jj)
  <2>1. c[2] < jj /\ g[i] <= c[2] /\ g[i] < g[jj] /\ g[jj] = jj
    BY <1>2, <1>3, <1>4, <1>6 DEF Within
  <2>2. kk[g[i]] <= kk[g[jj]] \/ \E a \in 1 .. Len(calls) : Within(calls[a], g[i]) /\ Within(calls[a], g[jj])
    BY <1>3, <1>4, <2>1 DEF Settled
  <2>3. ASSUME NEW a \in 1 .. Len(calls), Within(calls[a], g[i]), Within(calls[a], g[jj]) PROVE FALSE
    <3>1. CASE a = 1
      BY <1>4, <1>6, <2>1, <2>3, <3>1 DEF c
    <3>2. CASE a # 1
      <4>1. calls[a][1] <= g[i] /\ g[i] <= c[2] /\ c[2] < calls[a][1]
        BY <1>1, <2>1, <2>3, <3>2 DEF Within
      <4>2. calls[a][1] \in Int /\ g[i] \in Int /\ c[2] \in Int
        BY <1>2, <1>4, <3>2
      <4> QED BY ONLY <4>1, <4>2
    <3> QED BY <3>1, <3>2
  <2> QED BY <1>4, <2>2, <2>3
<1>7. CASE ~Within(c, i) /\ Within(c, jj)
  <2>1. i < c[1] /\ c[1] <= g[jj] /\ g[i] < g[jj] /\ g[i] = i
    BY <1>2, <1>3, <1>4, <1>7 DEF Within
  <2>2. kk[g[i]] <= kk[g[jj]] \/ \E a \in 1 .. Len(calls) : Within(calls[a], g[i]) /\ Within(calls[a], g[jj])
    BY <1>4, <2>1 DEF Settled
  <2>3. ASSUME NEW a \in 1 .. Len(calls), Within(calls[a], g[i]), Within(calls[a], g[jj]) PROVE FALSE
    <3>1. CASE a = 1
      BY <1>4, <1>7, <2>1, <2>3, <3>1 DEF c
    <3>2. CASE a # 1
      <4>1. g[jj] <= c[2] /\ c[1] <= g[jj] /\ calls[a][1] <= g[i] /\ c[2] < calls[a][1]
        BY <1>1, <1>4, <1>7, <2>3, <3>2 DEF Within
      <4> QED BY <1>2, <1>4, <2>1, <3>2, <4>1
    <3> QED BY <3>1, <3>2
  <2> QED BY <1>4, <2>2, <2>3
<1>8. CASE ~Within(c, i) /\ ~Within(c, jj)
  <2>1. g[i] = i /\ g[jj] = jj
    BY <1>4, <1>8
  <2> QED BY <1>3, <1>4, <2>1 DEF Settled
<1> QED BY <1>5, <1>6, <1>7, <1>8

\* A range in order is settled: its call returns.
LEMMA ReturnSettled ==
  ASSUME NEW n \in Nat, NEW calls, Ranges(calls, n), calls # <<>>, NEW kk, Settled(kk, calls, n),
         \A i, jj \in Head(calls)[1] .. Head(calls)[2] : i < jj => kk[i] <= kk[jj]
  PROVE  Settled(kk, Tail(calls), n) /\ Ranges(Tail(calls), n)
<1> DEFINE c == calls[1]
           t == Tail(calls)
           lc == Len(calls)
           lt == Len(t)
<1>1. lc \in Nat /\ 1 \in 1 .. lc /\ c = Head(calls) /\ c \in Int \X Int
  BY FirstRange
<1>2. calls \in Seq(Int \X Int) /\ calls # <<>>
  BY DEF Ranges
<1>3. t \in Seq(Int \X Int) /\ lt = lc - 1 /\ lt \in Nat
  BY <1>2
<1>4. \A a \in 1 .. lt : t[a] = calls[a + 1] /\ a + 1 \in 1 .. lc
  BY <1>2, <1>3
<1>5. /\ \A a \in 1 .. lc : 0 <= calls[a][1] /\ calls[a][1] <= calls[a][2] /\ calls[a][2] < n
      /\ \A a, b \in 1 .. lc : a < b => calls[a][2] < calls[b][1]
  BY DEF Ranges
<1> HIDE DEF t, lt, lc
<1>6. Ranges(t, n)
  <2>1. \A a \in 1 .. lt : 0 <= t[a][1] /\ t[a][1] <= t[a][2] /\ t[a][2] < n
    BY <1>4, <1>5
  <2>2. ASSUME NEW a \in 1 .. lt, NEW b \in 1 .. lt, a < b PROVE t[a][2] < t[b][1]
    <3>1. a + 1 < b + 1 /\ a + 1 \in 1 .. lc /\ b + 1 \in 1 .. lc
      BY <1>4, <2>2
    <3>2. calls[a + 1][2] < calls[b + 1][1]
      BY <1>5, <3>1
    <3> QED BY <1>4, <3>2
  <2> QED BY <1>3, <2>1, <2>2 DEF Ranges, lt
<1>7. ASSUME NEW i \in 0 .. n - 1, NEW jj \in 0 .. n - 1, i < jj
      PROVE kk[i] <= kk[jj] \/ \E a \in 1 .. lt : Within(t[a], i) /\ Within(t[a], jj)
  <2>1. kk[i] <= kk[jj] \/ \E a \in 1 .. lc : Within(calls[a], i) /\ Within(calls[a], jj)
    BY <1>7 DEF Settled, lc
  <2>2. ASSUME NEW a \in 1 .. lc, Within(calls[a], i), Within(calls[a], jj), a = 1 PROVE kk[i] <= kk[jj]
    <3>1. i \in Head(calls)[1] .. Head(calls)[2] /\ jj \in Head(calls)[1] .. Head(calls)[2]
      BY <1>1, <2>2 DEF Within
    <3> QED BY <1>7, <3>1
  <2>3. ASSUME NEW a \in 1 .. lc, Within(calls[a], i), Within(calls[a], jj), a # 1
        PROVE  \E b \in 1 .. lt : Within(t[b], i) /\ Within(t[b], jj)
    <3>1. a - 1 \in 1 .. lt /\ (a - 1) + 1 = a
      BY <1>1, <1>3, <2>3
    <3>2. t[a - 1] = calls[a]
      BY <1>4, <3>1
    <3> QED BY <2>3, <3>1, <3>2
  <2> QED BY <2>1, <2>2, <2>3
<1>8. Settled(kk, t, n)
  BY <1>7 DEF Settled, lt
<1> QED BY <1>6, <1>8 DEF t

\* The two recursive calls.
LeftCall(c, p) == IF p > c[1] THEN <<<<c[1], p - 1>>>> ELSE <<>>
RightCall(c, p) == IF p < c[2] THEN <<<<p + 1, c[2]>>>> ELSE <<>>
BothCalls(c, p) == LeftCall(c, p) \o RightCall(c, p)

\* The two calls, of which either may be missing, are ranges in the one they come from.
LEMMA BothCallsAre ==
  ASSUME NEW c \in Int \X Int, NEW p \in Int, Within(c, p)
  PROVE  /\ BothCalls(c, p) \in Seq(Int \X Int) /\ Len(BothCalls(c, p)) \in Nat
         /\ \A a \in 1 .. Len(BothCalls(c, p)) :
              /\ c[1] <= BothCalls(c, p)[a][1] /\ BothCalls(c, p)[a][2] <= c[2]
              /\ BothCalls(c, p)[a][1] <= BothCalls(c, p)[a][2]
         /\ \A a, b \in 1 .. Len(BothCalls(c, p)) : a < b => BothCalls(c, p)[a][2] < BothCalls(c, p)[b][1]
         /\ p > c[1] => \E a \in 1 .. Len(BothCalls(c, p)) : BothCalls(c, p)[a] = <<c[1], p - 1>>
         /\ p < c[2] => \E a \in 1 .. Len(BothCalls(c, p)) : BothCalls(c, p)[a] = <<p + 1, c[2]>>
<1> DEFINE u == <<c[1], p - 1>>
           v == <<p + 1, c[2]>>
           h == BothCalls(c, p)
<1>1. u \in Int \X Int /\ v \in Int \X Int
  OBVIOUS
<1>2. u[1] = c[1] /\ u[2] = p - 1 /\ v[1] = p + 1 /\ v[2] = c[2] /\ c[1] \in Int /\ c[2] \in Int
      /\ c[1] <= p /\ p <= c[2]
  BY DEF Within
<1> HIDE DEF u, v
<1>3. CASE p > c[1] /\ p < c[2]
  <2>1. h = <<u>> \o <<v>>
    BY <1>3 DEF BothCalls, LeftCall, RightCall, u, v
  <2>2. h \in Seq(Int \X Int) /\ Len(h) = 2 /\ h[1] = u /\ h[2] = v
    BY <1>1, <2>1
  <2> HIDE DEF h
  <2>3. \A a \in 1 .. Len(h) : a = 1 \/ a = 2
    BY <2>2
  <2>4. 1 \in 1 .. Len(h) /\ 2 \in 1 .. Len(h)
    BY <2>2
  <2>5. \A a, b \in 1 .. Len(h) : a < b => a = 1 /\ b = 2
    BY <2>3
  <2>6. \A a \in 1 .. Len(h) : c[1] <= h[a][1] /\ h[a][2] <= c[2] /\ h[a][1] <= h[a][2]
    BY <1>2, <1>3, <2>2, <2>3
  <2>7. \A a, b \in 1 .. Len(h) : a < b => h[a][2] < h[b][1]
    BY <1>2, <2>2, <2>5
  <2>8. (\E a \in 1 .. Len(h) : h[a] = u) /\ (\E a \in 1 .. Len(h) : h[a] = v)
    BY <2>2, <2>4
  <2> QED BY <2>2, <2>6, <2>7, <2>8 DEF h, u, v
<1>4. CASE p > c[1] /\ ~(p < c[2])
  <2>1. h = <<u>> \o <<>>
    BY <1>4 DEF BothCalls, LeftCall, RightCall, u
  <2>2. h \in Seq(Int \X Int) /\ Len(h) = 1 /\ h[1] = u
    BY <1>1, <2>1
  <2> HIDE DEF h
  <2>3. \A a \in 1 .. Len(h) : a = 1
    BY <2>2
  <2>4. 1 \in 1 .. Len(h)
    BY <2>2
  <2>6. \A a \in 1 .. Len(h) : c[1] <= h[a][1] /\ h[a][2] <= c[2] /\ h[a][1] <= h[a][2]
    BY <1>2, <1>4, <2>2, <2>3
  <2>7. \A a, b \in 1 .. Len(h) : a < b => h[a][2] < h[b][1]
    BY <2>3
  <2>8. \E a \in 1 .. Len(h) : h[a] = u
    BY <2>2, <2>4
  <2> QED BY <1>4, <2>2, <2>6, <2>7, <2>8 DEF h, u
<1>5. CASE ~(p > c[1]) /\ p < c[2]
  <2>1. h = <<>> \o <<v>>
    BY <1>5 DEF BothCalls, LeftCall, RightCall, v
  <2>2. h \in Seq(Int \X Int) /\ Len(h) = 1 /\ h[1] = v
    BY <1>1, <2>1
  <2> HIDE DEF h
  <2>3. \A a \in 1 .. Len(h) : a = 1
    BY <2>2
  <2>4. 1 \in 1 .. Len(h)
    BY <2>2
  <2>6. \A a \in 1 .. Len(h) : c[1] <= h[a][1] /\ h[a][2] <= c[2] /\ h[a][1] <= h[a][2]
    BY <1>2, <1>5, <2>2, <2>3
  <2>7. \A a, b \in 1 .. Len(h) : a < b => h[a][2] < h[b][1]
    BY <2>3
  <2>8. \E a \in 1 .. Len(h) : h[a] = v
    BY <2>2, <2>4
  <2> QED BY <1>5, <2>2, <2>6, <2>7, <2>8 DEF h, v
<1>6. CASE ~(p > c[1]) /\ ~(p < c[2])
  <2>1. h = <<>> \o <<>>
    BY <1>6 DEF BothCalls, LeftCall, RightCall
  <2>2. h \in Seq(Int \X Int) /\ Len(h) = 0
    BY <2>1
  <2> HIDE DEF h
  <2>3. \A a \in 1 .. Len(h) : FALSE
    BY <2>2
  <2> QED BY <1>6, <2>2, <2>3 DEF h
<1> QED BY <1>3, <1>4, <1>5, <1>6

\* A range that is parted is settled between the two calls, and the calls settle the rest.
LEMMA RecurseSettled ==
  ASSUME NEW n \in Nat, NEW calls, Ranges(calls, n), calls # <<>>, NEW kk, Settled(kk, calls, n),
         \A i \in 0 .. n - 1 : kk[i] \in Int,
         NEW p \in Int, Parted(kk, Head(calls), p, p, p)
  PROVE  /\ Ranges(BothCalls(Head(calls), p) \o Tail(calls), n)
         /\ Settled(kk, BothCalls(Head(calls), p) \o Tail(calls), n)
<1> DEFINE c == Head(calls)
           h == BothCalls(c, p)
           t == Tail(calls)
           s == h \o t
           lc == Len(calls)
           lh == Len(h)
           ls == Len(s)
<1>1. /\ lc \in Nat /\ 1 \in 1 .. lc /\ c = calls[1] /\ c \in Int \X Int /\ 0 <= c[1] /\ c[1] <= c[2] /\ c[2] < n
      /\ \A a \in 1 .. lc : a # 1 => calls[a] \in Int \X Int /\ c[2] < calls[a][1]
  BY FirstRange
<1> HIDE DEF c
<1>2. Within(c, p)
  BY DEF Parted, Within, c
<1>3. /\ h \in Seq(Int \X Int) /\ lh \in Nat
      /\ \A a \in 1 .. lh : c[1] <= h[a][1] /\ h[a][2] <= c[2] /\ h[a][1] <= h[a][2]
      /\ \A a, b \in 1 .. lh : a < b => h[a][2] < h[b][1]
      /\ p > c[1] => \E a \in 1 .. lh : h[a] = <<c[1], p - 1>>
      /\ p < c[2] => \E a \in 1 .. lh : h[a] = <<p + 1, c[2]>>
  BY <1>1, <1>2, BothCallsAre
<1> HIDE DEF h
<1>4. calls \in Seq(Int \X Int) /\ calls # <<>>
  BY DEF Ranges
<1>5. t \in Seq(Int \X Int) /\ Len(t) = lc - 1 /\ \A a \in 1 .. lc - 1 : t[a] = calls[a + 1]
  BY <1>4
<1> HIDE DEF t
<1>6. s \in Seq(Int \X Int) /\ ls = lh + (lc - 1)
  <2>1. s \in Seq(Int \X Int) /\ Len(s) = Len(h) + Len(t)
    BY <1>3, <1>5, JoinedAre
  <2> QED BY <1>5, <2>1
<1>7. \A a \in 1 .. lh + (lc - 1) : s[a] = IF a <= lh THEN h[a] ELSE t[a - lh]
  <2>1. \A a \in 1 .. Len(h) + Len(t) : s[a] = IF a <= Len(h) THEN h[a] ELSE t[a - Len(h)]
    BY <1>3, <1>5, JoinedAre
  <2> QED BY <1>5, <2>1
<1> HIDE DEF s, lh, lc, ls
<1>8. ASSUME NEW a \in 1 .. ls, a <= lh PROVE a \in 1 .. lh /\ s[a] = h[a]
  BY <1>3, <1>6, <1>7, <1>8
<1>9. ASSUME NEW a \in 1 .. ls, ~(a <= lh)
      PROVE  (a - lh) + 1 \in 1 .. lc /\ (a - lh) + 1 # 1 /\ s[a] = calls[(a - lh) + 1]
  <2>0. lc \in Nat /\ lh \in Nat /\ ls = lh + (lc - 1)
    BY <1>1, <1>3, <1>6
  <2>1. a - lh \in 1 .. lc - 1 /\ a \in 1 .. lh + (lc - 1)
    BY ONLY <1>9, <2>0
  <2>2. s[a] = t[a - lh] /\ t[a - lh] = calls[(a - lh) + 1]
    BY <1>5, <1>7, <1>9, <2>1
  <2> DEFINE at == a - lh
  <2>3. at \in 1 .. lc - 1
    BY <2>1
  <2> HIDE DEF at
  <2>4. at + 1 \in 1 .. lc /\ at + 1 # 1
    BY ONLY <2>0, <2>3
  <2> QED BY <2>2, <2>4 DEF at
<1>10. /\ \A a \in 1 .. lc : 0 <= calls[a][1] /\ calls[a][1] <= calls[a][2] /\ calls[a][2] < n
       /\ \A a, b \in 1 .. lc : a < b => calls[a][2] < calls[b][1]
  BY DEF Ranges, lc
<1>11. c[1] \in Int /\ c[2] \in Int
  BY <1>1
<1>12. \A a \in 1 .. ls : s[a][1] \in Int /\ s[a][2] \in Int
  <2>1. \A a \in 1 .. ls : s[a] \in Int \X Int
    BY <1>6 DEF ls
  <2> QED BY <2>1
<1>13. Ranges(s, n)
  <2>1. ASSUME NEW a \in 1 .. ls PROVE 0 <= s[a][1] /\ s[a][1] <= s[a][2] /\ s[a][2] < n
    <3>1. CASE a <= lh
      <4>1. a \in 1 .. lh /\ s[a] = h[a]
        BY <1>8, <3>1
      <4>2. c[1] <= s[a][1] /\ s[a][2] <= c[2] /\ s[a][1] <= s[a][2]
        BY <1>3, <4>1
      <4>3. s[a][1] \in Int /\ s[a][2] \in Int
        BY <1>12
      <4> QED BY <1>1, <1>11, <4>2, <4>3
    <3>2. CASE ~(a <= lh)
      BY <1>9, <1>10, <3>2
    <3> QED BY <3>1, <3>2
  <2>2. ASSUME NEW a \in 1 .. ls, NEW b \in 1 .. ls, a < b PROVE s[a][2] < s[b][1]
    <3>1. CASE b <= lh
      <4>1. a <= lh
        BY <1>3, <1>6, <2>2, <3>1
      <4> QED BY <1>3, <1>8, <2>2, <3>1, <4>1
    <3>2. CASE a <= lh /\ ~(b <= lh)
      <4>1. s[a][2] <= c[2]
        BY <1>3, <1>8, <3>2
      <4>2. c[2] < s[b][1]
        BY <1>1, <1>9, <3>2
      <4> QED BY <1>11, <1>12, <4>1, <4>2
    <3>3. CASE ~(a <= lh)
      <4>1. ~(b <= lh) /\ (a - lh) + 1 < (b - lh) + 1
        BY <1>3, <1>6, <2>2, <3>3
      <4> QED BY <1>9, <1>10, <3>3, <4>1
    <3> QED BY <3>1, <3>2, <3>3
  <2> QED BY <1>6, <2>1, <2>2 DEF Ranges, ls
<1>14. \A a \in 1 .. lh : a \in 1 .. ls /\ s[a] = h[a]
  BY <1>1, <1>3, <1>6, <1>7
<1>15. \A a \in 1 .. lc : a # 1 => (a - 1) + lh \in 1 .. ls /\ s[(a - 1) + lh] = calls[a]
  <2>1. ASSUME NEW a \in 1 .. lc, a # 1 PROVE (a - 1) + lh \in 1 .. ls /\ s[(a - 1) + lh] = calls[a]
    <3>1. /\ (a - 1) + lh \in 1 .. ls /\ (a - 1) + lh \in 1 .. lh + (lc - 1) /\ ~((a - 1) + lh <= lh)
          /\ ((a - 1) + lh) - lh = a - 1 /\ a - 1 \in 1 .. lc - 1 /\ (a - 1) + 1 = a
      BY <1>1, <1>3, <1>6, <2>1
    <3>2. s[(a - 1) + lh] = t[a - 1]
      BY <1>7, <3>1
    <3> QED BY <1>5, <3>1, <3>2
  <2> QED BY <2>1
<1>16. ASSUME NEW i \in 0 .. n - 1, NEW jj \in 0 .. n - 1, i < jj
       PROVE  kk[i] <= kk[jj] \/ \E a \in 1 .. ls : Within(s[a], i) /\ Within(s[a], jj)
  <2>1. kk[i] <= kk[jj] \/ \E a \in 1 .. lc : Within(calls[a], i) /\ Within(calls[a], jj)
    BY <1>16 DEF Settled, lc
  <2>2. ASSUME NEW a \in 1 .. lc, Within(calls[a], i), Within(calls[a], jj), a # 1
        PROVE  \E b \in 1 .. ls : Within(s[b], i) /\ Within(s[b], jj)
    <3> DEFINE b == (a - 1) + lh
    <3>1. b \in 1 .. ls /\ s[b] = calls[a]
      BY <1>15, <2>2
    <3> HIDE DEF b
    <3> QED BY <2>2, <3>1
  <2>3. ASSUME Within(c, i), Within(c, jj)
        PROVE  kk[i] <= kk[jj] \/ \E b \in 1 .. ls : Within(s[b], i) /\ Within(s[b], jj)
    <3>1. CASE jj < p
      <4>1. p > c[1]
        BY <1>11, <1>16, <2>3, <3>1 DEF Within
      <4>2. PICK b \in 1 .. lh : h[b] = <<c[1], p - 1>>
        BY <1>3, <4>1
      <4>3. Within(<<c[1], p - 1>>, i) /\ Within(<<c[1], p - 1>>, jj)
        BY <1>11, <1>16, <2>3, <3>1 DEF Within
      <4> QED BY <1>14, <4>2, <4>3
    <3>2. CASE p < i
      <4>1. p < c[2]
        BY <1>11, <1>16, <2>3, <3>2 DEF Within
      <4>2. PICK b \in 1 .. lh : h[b] = <<p + 1, c[2]>>
        BY <1>3, <4>1
      <4>3. Within(<<p + 1, c[2]>>, i) /\ Within(<<p + 1, c[2]>>, jj)
        BY <1>11, <1>16, <2>3, <3>2 DEF Within
      <4> QED BY <1>14, <4>2, <4>3
    <3>3. CASE i <= p /\ p <= jj
      <4>1. i \in c[1] .. c[2] /\ jj \in c[1] .. c[2] /\ p \in 0 .. n - 1
        BY <1>1, <1>2, <1>11, <2>3 DEF Within
      <4>2. kk[i] <= kk[p]
        BY <3>3, <4>1 DEF Parted, c
      <4>3. kk[p] <= kk[jj]
        BY <3>3, <4>1 DEF Parted, c
      <4> QED BY <4>1, <4>2, <4>3
    <3> QED BY <1>16, <3>1, <3>2, <3>3
  <2> QED BY <1>1, <2>1, <2>2, <2>3
<1>17. Settled(kk, s, n)
  BY <1>16 DEF Settled, ls
<1> QED BY <1>13, <1>17 DEF s, h, t, c

\* A permutation of the positions below n.
Permutes(g, n) ==
  /\ \A i \in 0 .. n - 1 : g[i] \in 0 .. n - 1
  /\ \A i, jj \in 0 .. n - 1 : g[i] = g[jj] => i = jj
  /\ \A jj \in 0 .. n - 1 : \E i \in 0 .. n - 1 : g[i] = jj

\* Where a value is held, counted from 1.
HeldAt(b, n, d) == {i \in 1 .. n : b[i - 1] = d}

\* After a permutation each value is held as often as before.
LEMMA PermutedHolds ==
  ASSUME NEW n \in Nat, NEW g, Permutes(g, n), NEW a, NEW b, \A i \in 0 .. n - 1 : b[i] = a[g[i]], NEW d
  PROVE  Cardinality(HeldAt(b, n, d)) = Cardinality(HeldAt(a, n, d))
<1> DEFINE B == {i \in 1 .. n : b[i - 1] = d}
           A == {i \in 1 .. n : a[i - 1] = d}
           f == [i \in B |-> g[i - 1] + 1]
<1>0. \A i \in 1 .. n : i - 1 \in 0 .. n - 1 /\ (i - 1) + 1 = i
  OBVIOUS
<1>1. \A i \in 0 .. n - 1 : i + 1 \in 1 .. n /\ (i + 1) - 1 = i
  OBVIOUS
<1>2. \A i \in 1 .. n : i \in B <=> b[i - 1] = d
  OBVIOUS
<1>3. \A i \in 1 .. n : i \in A <=> a[i - 1] = d
  OBVIOUS
<1>4. B \subseteq 1 .. n /\ A \subseteq 1 .. n
  OBVIOUS
<1>5. IsFiniteSet(B)
  <2>1. 1 \in Int /\ n \in Int
    OBVIOUS
  <2>2. IsFiniteSet(1 .. n)
    BY <2>1, FS_Interval
  <2> QED BY <1>4, <2>2, FS_Subset
<1>6. \A i \in B : f[i] = g[i - 1] + 1
  OBVIOUS
<1>7. f = [i \in B |-> f[i]]
  OBVIOUS
<1> HIDE DEF A, B, f
<1>8. \A i \in B : f[i] \in A
  <2>1. ASSUME NEW i \in B PROVE f[i] \in A
    <3>1. i \in 1 .. n /\ i - 1 \in 0 .. n - 1 /\ b[i - 1] = d
      BY <1>0, <1>2, <1>4
    <3>2. g[i - 1] \in 0 .. n - 1 /\ a[g[i - 1]] = d
      BY <3>1 DEF Permutes
    <3>3. g[i - 1] + 1 \in 1 .. n /\ a[(g[i - 1] + 1) - 1] = d
      BY <1>1, <3>2
    <3> QED BY <1>3, <1>6, <3>3
  <2> QED BY <2>1
<1>9. \A i, jj \in B : f[i] = f[jj] => i = jj
  <2>1. ASSUME NEW i \in B, NEW jj \in B, f[i] = f[jj] PROVE i = jj
    <3>1. i \in 1 .. n /\ i - 1 \in 0 .. n - 1 /\ jj \in 1 .. n /\ jj - 1 \in 0 .. n - 1
      BY <1>0, <1>4
    <3>2. g[i - 1] \in 0 .. n - 1 /\ g[jj - 1] \in 0 .. n - 1
      BY <3>1 DEF Permutes
    <3>3. g[i - 1] + 1 = g[jj - 1] + 1
      BY <1>6, <2>1
    <3>4. g[i - 1] = g[jj - 1]
      BY <3>2, <3>3
    <3>5. i - 1 = jj - 1
      BY <3>1, <3>4 DEF Permutes
    <3> QED BY <3>1, <3>5
  <2> QED BY <2>1
<1>10. \A jj \in A : \E i \in B : f[i] = jj
  <2>1. ASSUME NEW jj \in A PROVE \E i \in B : f[i] = jj
    <3>1. jj \in 1 .. n /\ jj - 1 \in 0 .. n - 1 /\ (jj - 1) + 1 = jj /\ a[jj - 1] = d
      BY <1>0, <1>3, <1>4
    <3>2. PICK h \in 0 .. n - 1 : g[h] = jj - 1
      BY <3>1 DEF Permutes
    <3>3. h + 1 \in 1 .. n /\ (h + 1) - 1 = h /\ b[h] = d
      BY <1>1, <3>1, <3>2
    <3>4. h + 1 \in B /\ f[h + 1] = jj
      BY <1>2, <1>6, <3>1, <3>2, <3>3
    <3> QED BY <3>4
  <2> QED BY <2>1
<1>11. ExistsBijection(B, A)
  <2>1. f \in [B -> A]
    BY <1>7, <1>8
  <2>2. f \in Injection(B, A)
    BY <1>9, <2>1 DEF Injection, IsInjective
  <2>3. f \in Surjection(B, A)
    BY <1>10, <2>1 DEF Surjection
  <2> QED BY <2>2, <2>3 DEF ExistsBijection, Bijection
<1>12. Cardinality(A) = Cardinality(B)
  BY <1>5, <1>11, FS_Bijection
<1> QED BY <1>12 DEF A, B, HeldAt

\* What is where, in a list that is laid out.
LEMMA DataAre ==
  ASSUME NEW w, Laid(lst, w)
  PROVE  \A i \in 0 .. lst.numels - 1 :
           Entry(i) = w[i + 1] /\ Datum(i) = lst.data[w[i + 1]] /\ Datum(i) \in ListValues /\ Datum(i) \in Nat
<1>1. lst.numels \in Nat /\ Linked(lst, w)
  BY DEF Laid, Lists
<1>2. ASSUME NEW i \in 0 .. lst.numels - 1
      PROVE  Entry(i) = w[i + 1] /\ Datum(i) = lst.data[w[i + 1]] /\ Datum(i) \in ListValues /\ Datum(i) \in Nat
  <2>1. i + 1 \in 0 .. lst.numels + 1 /\ i + 1 \in 1 .. lst.numels
    BY <1>1
  <2>2. Entry(i) = w[i + 1]
    BY <1>1, <2>1, FromHead DEF Entry
  <2>3. lst.data[w[i + 1]] \in ListValues
    BY <1>1, <2>1 DEF Linked
  <2> QED BY <2>2, <2>3, PointerFacts DEF Datum
<1> QED BY <1>2

\* The positions stay, and the data move.
LEMMA MoveIs ==
  ASSUME NEW w, Laid(lst, w), NEW S, S \subseteq 0 .. lst.numels - 1, NEW moved \in [S -> S], Move(moved)
  PROVE  /\ Laid(lst', w) /\ lst'.numels = lst.numels /\ lst'.next = lst.next
         /\ \A i \in 0 .. lst.numels - 1 : Datum(i)' = Datum(IF i \in S THEN moved[i] ELSE i)
<1> DEFINE n == lst.numels
           f == [e \in Pointers |-> IF \E i \in S : Entry(i) = e
                                      THEN Datum(moved[CHOOSE i \in S : Entry(i) = e])
                                      ELSE lst.data[e]]
           z == [next |-> lst.next, prev |-> lst.prev, data |-> f, mid |-> lst.mid, numels |-> lst.numels,
                 spareels |-> lst.spareels]
<1>0. n \in Nat /\ lst \in Lists /\ Linked(lst, w) /\ Centred(lst, w) /\ SparesApart(lst, w)
  BY DEF Laid, Lists
<1>d. \A i \in 0 .. n - 1 :
        Entry(i) = w[i + 1] /\ Datum(i) = lst.data[w[i + 1]] /\ Datum(i) \in ListValues /\ Datum(i) \in Nat
  BY DataAre
<1>1. \A e \in Pointers :
        f[e] = IF \E i \in S : Entry(i) = e THEN Datum(moved[CHOOSE i \in S : Entry(i) = e]) ELSE lst.data[e]
  OBVIOUS
<1>2. lst' = z
  <2>1. lst' = [lst EXCEPT !.data = f]
    <3>1. DOMAIN moved = S
      OBVIOUS
    <3> QED BY <3>1 DEF Move
  <2>2. lst \in Lists
    BY <1>0
  <2> HIDE DEF f
  <2> QED BY <2>1, <2>2 DEF Lists
<1> HIDE DEF f
<1>3. \A i, jj \in S : Entry(i) = Entry(jj) => i = jj
  <2>1. ASSUME NEW i \in S, NEW jj \in S, Entry(i) = Entry(jj) PROVE i = jj
    <3>1. i \in 0 .. n - 1 /\ jj \in 0 .. n - 1 /\ w[i + 1] = w[jj + 1]
      BY <1>d, <2>1
    <3>2. i + 1 \in 0 .. n + 1 /\ jj + 1 \in 0 .. n + 1
      BY <1>0, <3>1
    <3>3. i + 1 = jj + 1
      BY <1>0, <3>1, <3>2 DEF Linked
    <3> QED BY <3>1, <3>3
  <2> QED BY <2>1
<1>4. ASSUME NEW i \in 0 .. n - 1
      PROVE  f[w[i + 1]] = Datum(IF i \in S THEN moved[i] ELSE i)
  <2> DEFINE e == w[i + 1]
  <2>1. e = Entry(i) /\ e \in Pointers /\ Datum(i) = lst.data[e]
    <3>1. i + 1 \in 0 .. n + 1
      BY <1>0
    <3>2. w[i + 1] \in Pointers
      BY <1>0, <3>1 DEF Linked
    <3> QED BY <1>d, <3>2
  <2> HIDE DEF e
  <2>2. CASE i \in S
    <3> DEFINE jj == CHOOSE h \in S : Entry(h) = e
    <3>1. \E h \in S : Entry(h) = e
      BY <2>1, <2>2
    <3>2. jj \in S /\ Entry(jj) = e
      BY <3>1
    <3>3. f[e] = Datum(moved[jj])
      BY <1>1, <2>1, <3>1
    <3> HIDE DEF jj
    <3>4. jj = i
      BY <1>3, <2>1, <2>2, <3>2
    <3> QED BY <2>2, <3>3, <3>4 DEF e
  <2>3. CASE i \notin S
    <3>1. ASSUME NEW h \in S, Entry(h) = e PROVE FALSE
      <4>1. h \in 0 .. n - 1 /\ w[h + 1] = w[i + 1]
        BY <1>d, <2>1, <3>1
      <4>2. i + 1 \in 0 .. n + 1 /\ h + 1 \in 0 .. n + 1
        BY <1>0, <4>1
      <4>3. i + 1 = h + 1
        BY <1>0, <4>1, <4>2 DEF Linked
      <4>4. i = h
        BY <4>1, <4>3
      <4> QED BY <2>3, <4>4
    <3>2. f[e] = lst.data[e]
      BY <1>1, <2>1, <3>1
    <3> QED BY <2>1, <2>3, <3>2 DEF e
  <2> QED BY <2>2, <2>3
<1>5. \A i \in S : moved[i] \in 0 .. n - 1
  OBVIOUS
<1>6. \A i \in 0 .. n - 1 : f[w[i + 1]] \in ListValues
  <2>1. \A i \in 0 .. n - 1 : (IF i \in S THEN moved[i] ELSE i) \in 0 .. n - 1
    BY <1>5
  <2> QED BY <1>4, <1>d, <2>1
<1>7. f \in [Pointers -> ListValues \cup {NIL}]
  <2>1. ASSUME NEW e \in Pointers PROVE f[e] \in ListValues \cup {NIL}
    <3>1. CASE \E i \in S : Entry(i) = e
      <4>1. (CHOOSE i \in S : Entry(i) = e) \in S
        BY <3>1
      <4>2. moved[CHOOSE i \in S : Entry(i) = e] \in 0 .. n - 1
        BY <1>5, <4>1
      <4> QED BY <1>1, <1>d, <3>1, <4>2
    <3>2. CASE ~\E i \in S : Entry(i) = e
      <4>1. lst.data[e] \in ListValues \cup {NIL}
        BY <1>0 DEF Lists
      <4> QED BY <1>1, <3>2, <4>1
    <3> QED BY <3>1, <3>2
  <2> QED BY <2>1 DEF f
<1>8. /\ z.next = lst.next /\ z.prev = lst.prev /\ z.data = f /\ z.mid = lst.mid /\ z.numels = n
      /\ z.spareels = lst.spareels
  OBVIOUS
<1>9. Laid(z, w)
  <2>1. z \in Lists
    <3>1. /\ lst.next \in [Pointers -> Pointers] /\ lst.prev \in [Pointers -> Pointers] /\ lst.mid \in Pointers
          /\ lst.numels \in Nat /\ lst.spareels \in Seq(ListEntries)
      BY <1>0 DEF Lists
    <3> QED BY <1>7, <3>1 DEF Lists
  <2> HIDE DEF z
  <2>2. \A i \in 1 .. n : z.data[w[i]] \in ListValues
    <3>1. \A i \in 1 .. n : i - 1 \in 0 .. n - 1 /\ (i - 1) + 1 = i
      BY <1>0
    <3> QED BY <1>6, <1>8, <3>1
  <2>3. Linked(z, w)
    BY <1>0, <1>8, <2>2 DEF Linked
  <2>4. Centred(z, w) /\ SparesApart(z, w)
    BY <1>0, <1>8 DEF Centred, SparesApart, MidIndex
  <2> QED BY <2>1, <2>3, <2>4 DEF Laid
<1> HIDE DEF z
<1>10. ASSUME NEW i \in 0 .. n - 1 PROVE Datum(i)' = f[w[i + 1]]
  <2>1. i + 1 \in 0 .. n + 1
    BY <1>0
  <2>2. Steps(z.next, HEAD, i + 1) = w[i + 1]
    <3>1. Linked(z, w) /\ z.numels \in Nat /\ i + 1 \in 0 .. z.numels + 1
      BY <1>0, <1>8, <1>9, <2>1 DEF Laid
    <3> QED BY <3>1, FromHead
  <2>3. Datum(i)' = lst'.data[Steps(lst'.next, HEAD, i + 1)]
    BY DEF Datum, Entry
  <2> QED BY <1>2, <1>8, <2>2, <2>3
<1> QED BY <1>2, <1>4, <1>8, <1>9, <1>10

SortStages == {"call", "select", "partition", "left longer", "right longer"}
Sorts ==
  [at : SortStages, versus : {-1, 1}, calls : Seq(Int \X Int), before : [1 .. lst.numels -> ListValues],
   unsorted : Int, pivot : Int, left : Int, right : Int]

\* The list holds what it held when the sort began.
SameElements ==
  \A d \in ListValues : Cardinality({i \in 1 .. lst.numels : Datum(i - 1) = d})
                        = Cardinality({i \in 1 .. lst.numels : sorting.before[i] = d})

SortBase ==
  /\ sorting \in Sorts
  /\ Ranges(sorting.calls, lst.numels)
  /\ Settled(Keys, sorting.calls, lst.numels)
  /\ SameElements

\* How far the call that runs has come.
StageHolds ==
  /\ sorting.at # "call" => sorting.calls # <<>>
  /\ sorting.at = "select" => Selected(Keys, Head(sorting.calls), sorting.unsorted)
  /\ sorting.at = "partition" =>
       Parted(Keys, Head(sorting.calls), sorting.left, sorting.pivot, sorting.right)
  /\ sorting.at = "left longer" =>
       Parted(Keys, Head(sorting.calls), sorting.left, sorting.pivot, sorting.pivot)
  /\ sorting.at = "right longer" =>
       Parted(Keys, Head(sorting.calls), sorting.pivot, sorting.pivot, sorting.right)

Sorting == SortBase /\ StageHolds

\* The comparator's answer is the difference of the keys.
LEMMA KeysAre ==
  ASSUME NEW w, Laid(lst, w), sorting.versus \in {-1, 1}
  PROVE  /\ \A i \in 0 .. lst.numels - 1 : Keys[i] \in Int /\ Keys[i] = sorting.versus * Datum(i)
         /\ \A i, jj \in 0 .. lst.numels - 1 : Order(Datum(i), Datum(jj)) = Keys[i] - Keys[jj]
<1>1. \A i \in 0 .. lst.numels - 1 : Datum(i) \in Nat
  BY DataAre
<1>2. \A i \in 0 .. lst.numels - 1 : Keys[i] = sorting.versus * Datum(i)
  BY DEF Keys
<1>3. ASSUME NEW i \in 0 .. lst.numels - 1 PROVE Keys[i] \in Int
  BY <1>1, <1>2
<1>4. ASSUME NEW i \in 0 .. lst.numels - 1, NEW jj \in 0 .. lst.numels - 1
      PROVE  Order(Datum(i), Datum(jj)) = Keys[i] - Keys[jj]
  <2> DEFINE a == Datum(i)
             b == Datum(jj)
             v == sorting.versus
  <2>1. a \in Nat /\ b \in Nat /\ Keys[i] = v * a /\ Keys[jj] = v * b /\ v \in {-1, 1}
    BY <1>1, <1>2
  <2>2. Order(Datum(i), Datum(jj)) = v * (a - b)
    BY DEF Order
  <2> HIDE DEF a, b, v
  <2>3. v * (a - b) = v * a - v * b
    <3>1. CASE v = 1
      BY <2>1, <3>1
    <3>2. CASE v = -1
      BY <2>1, <3>2
    <3> QED BY <2>1, <3>1, <3>2
  <2> QED BY <2>1, <2>2, <2>3
<1> QED BY <1>2, <1>3, <1>4

\* A step that moves no data.
LEMMA KeptBase ==
  ASSUME SortBase, lst' = lst, sorting' \in Sorts, sorting'.versus = sorting.versus,
         sorting'.before = sorting.before, Ranges(sorting'.calls, lst.numels),
         Settled(Keys, sorting'.calls, lst.numels)
  PROVE  SortBase' /\ Keys' = Keys
<1>1. \A i : Datum(i)' = Datum(i)
  BY DEF Datum, Entry
<1>2. Keys' = Keys
  BY <1>1 DEF Keys
<1>3. SameElements'
  BY <1>1 DEF SortBase, SameElements
<1>4. (sorting \in Sorts)'
  BY DEF Sorts
<1>5. lst'.numels = lst.numels
  OBVIOUS
<1> QED BY <1>2, <1>3, <1>4, <1>5 DEF SortBase

\* Positions in the range of the call that runs, and a permutation of them.
InRange(S) == \A i \in S : i \in Int /\ Within(Head(sorting.calls), i)
Permuting(S, moved) ==
  /\ moved \in [S -> S]
  /\ \A i, jj \in S : moved[i] = moved[jj] => i = jj
  /\ \A jj \in S : \E i \in S : moved[i] = jj

\* What the step of a permutation of some positions in a range gets from where.
From(S, moved) == [i \in 0 .. lst.numels - 1 |-> IF i \in S THEN moved[i] ELSE i]

\* It permutes all positions.
LEMMA FromPermutes ==
  ASSUME lst.numels \in Nat, NEW S, S \subseteq 0 .. lst.numels - 1, NEW moved, Permuting(S, moved)
  PROVE  Permutes(From(S, moved), lst.numels)
<1>0. /\ moved \in [S -> S]
      /\ \A i, jj \in S : moved[i] = moved[jj] => i = jj
      /\ \A jj \in S : \E i \in S : moved[i] = jj
  BY DEF Permuting
<1> DEFINE n == lst.numels
           g == From(S, moved)
<1>1. \A i \in 0 .. n - 1 : g[i] = IF i \in S THEN moved[i] ELSE i
  BY DEF From
<1> HIDE DEF n, g
<1>2. \A i \in S : i \in 0 .. n - 1 /\ moved[i] \in S
  BY <1>0 DEF n
<1>3. \A i \in 0 .. n - 1 : g[i] \in 0 .. n - 1
  BY <1>0, <1>1, <1>2
<1>4. \A i, jj \in 0 .. n - 1 : g[i] = g[jj] => i = jj
  BY <1>0, <1>1, <1>2
<1>5. \A jj \in 0 .. n - 1 : \E i \in 0 .. n - 1 : g[i] = jj
  BY <1>0, <1>1, <1>2
<1>6. Permutes(g, n)
  BY <1>3, <1>4, <1>5 DEF Permutes
<1> QED BY <1>6 DEF g, n

\* A step that moves data within that range.
LEMMA MovedBase ==
  ASSUME SortBase, sorting.calls # <<>>, NEW w, Laid(lst, w), NEW S, InRange(S), NEW moved, Permuting(S, moved),
         Move(moved), sorting' \in Sorts, sorting'.versus = sorting.versus,
         sorting'.before = sorting.before, sorting'.calls = sorting.calls
  PROVE  /\ Laid(lst', w) /\ lst'.numels = lst.numels /\ lst'.next = lst.next /\ SortBase'
         /\ \A i \in 0 .. lst.numels - 1 : Keys[i]' = Keys[IF i \in S THEN moved[i] ELSE i]
<1> SUFFICES ASSUME \A i \in S : i \in Int /\ Within(Head(sorting.calls), i),
                    moved \in [S -> S],
                    \A i, jj \in S : moved[i] = moved[jj] => i = jj,
                    \A jj \in S : \E i \in S : moved[i] = jj
             PROVE  /\ Laid(lst', w) /\ lst'.numels = lst.numels /\ lst'.next = lst.next /\ SortBase'
                    /\ \A i \in 0 .. lst.numels - 1 : Keys[i]' = Keys[IF i \in S THEN moved[i] ELSE i]
  BY DEF InRange, Permuting
<1> DEFINE n == lst.numels
           c == Head(sorting.calls)
           g == From(S, moved)
<1>0. n \in Nat /\ Ranges(sorting.calls, n) /\ Settled(Keys, sorting.calls, n) /\ sorting \in Sorts
  BY DEF Laid, Lists, SortBase
<1>1. c \in Int \X Int /\ 0 <= c[1] /\ c[2] < n
  BY <1>0, FirstRange
<1>2. S \subseteq 0 .. n - 1
  <2>1. ASSUME NEW i \in S PROVE i \in 0 .. n - 1
    <3>1. i \in Int /\ c[1] <= i /\ i <= c[2]
      BY <2>1 DEF Within
    <3>2. c[1] \in Int /\ c[2] \in Int
      BY <1>1
    <3>3. n \in Nat /\ 0 <= c[1] /\ c[2] < n
      BY <1>0, <1>1
    <3> HIDE DEF c, n
    <3> QED BY ONLY <3>1, <3>2, <3>3
  <2> QED BY <2>1
<1>3. /\ Laid(lst', w) /\ lst'.numels = lst.numels /\ lst'.next = lst.next
      /\ \A i \in 0 .. n - 1 : Datum(i)' = Datum(IF i \in S THEN moved[i] ELSE i)
  BY <1>2, MoveIs
<1>4. Permutes(g, n)
  BY <1>0, <1>2, FromPermutes
<1>5. \A i \in 0 .. n - 1 : g[i] = IF i \in S THEN moved[i] ELSE i
  BY DEF From
<1>6. \A i \in 0 .. n - 1 : g[i] \in 0 .. n - 1
  BY <1>4 DEF Permutes
<1> HIDE DEF g
<1>7. \A i \in 0 .. n - 1 : Datum(i)' = Datum(g[i])
  <2> TAKE i \in 0 .. n - 1
  <2> DEFINE x == IF i \in S THEN moved[i] ELSE i
  <2>1. g[i] = x /\ Datum(i)' = Datum(x)
    BY <1>3, <1>5
  <2> HIDE DEF x
  <2> QED BY ONLY <2>1
<1>8. \A i \in 0 .. n - 1 : Keys[i] = sorting.versus * Datum(i)
  BY DEF Keys
<1>9. \A i \in 0 .. n - 1 : Keys'[i] = sorting.versus * Datum(i)'
  BY <1>3 DEF Keys
<1>10. \A i \in 0 .. n - 1 : Keys'[i] = Keys[g[i]]
  BY <1>6, <1>7, <1>8, <1>9
<1>11. Settled(Keys', sorting.calls, n)
  <2>1. \A i \in 0 .. n - 1 : g[i] \in 0 .. n - 1 /\ Keys'[i] = Keys[g[i]]
    BY <1>6, <1>10
  <2>2. \A i \in 0 .. n - 1 : Within(Head(sorting.calls), i) => Within(Head(sorting.calls), g[i])
    BY <1>5
  <2>3. \A i \in 0 .. n - 1 : ~Within(Head(sorting.calls), i) => g[i] = i
    BY <1>5
  <2> DEFINE m == Keys'
             calls == sorting.calls
             kk == Keys
  <2>4. Ranges(calls, n) /\ calls # <<>> /\ Settled(kk, calls, n) /\ n \in Nat
    BY <1>0
  <2> HIDE DEF m, calls, n, kk
  <2>5. Settled(m, calls, n)
    BY <2>1, <2>2, <2>3, <2>4, MovedSettled DEF m, calls, kk
  <2> QED BY <2>5 DEF m, calls, n
<1>12. SameElements'
  <2>1. ASSUME NEW d \in ListValues
        PROVE  Cardinality({i \in 1 .. n : Datum(i - 1)' = d}) = Cardinality({i \in 1 .. n : Datum(i - 1) = d})
    <3> DEFINE a == [i \in 0 .. n - 1 |-> Datum(i)]
               b == [i \in 0 .. n - 1 |-> Datum(i)']
    <3>1. \A i \in 0 .. n - 1 : b[i] = a[g[i]]
      BY <1>6, <1>7
    <3>2. \A i \in 1 .. n : i - 1 \in 0 .. n - 1
      BY <1>0
    <3>3. {i \in 1 .. n : Datum(i - 1)' = d} = HeldAt(b, n, d)
      BY <3>2 DEF HeldAt
    <3>4. {i \in 1 .. n : Datum(i - 1) = d} = HeldAt(a, n, d)
      BY <3>2 DEF HeldAt
    <3> HIDE DEF a, b, n
    <3>5. n \in Nat
      BY <1>0
    <3>6. Cardinality(HeldAt(b, n, d)) = Cardinality(HeldAt(a, n, d))
      BY ONLY <1>4, <3>1, <3>5, PermutedHolds
    <3> QED BY <3>3, <3>4, <3>6
  <2>2. ASSUME NEW d \in ListValues
        PROVE  Cardinality({i \in 1 .. n : Datum(i - 1)' = d}) = Cardinality({i \in 1 .. n : sorting'.before[i] = d})
    <3>1. Cardinality({i \in 1 .. n : Datum(i - 1) = d}) = Cardinality({i \in 1 .. n : sorting.before[i] = d})
      BY DEF SortBase, SameElements
    <3>2. {i \in 1 .. n : sorting'.before[i] = d} = {i \in 1 .. n : sorting.before[i] = d}
      OBVIOUS
    <3> QED BY <2>1, <3>1, <3>2
  <2>3. lst'.numels = n
    BY <1>3
  <2> QED BY <2>2, <2>3 DEF SameElements
<1>13. (sorting \in Sorts)'
  BY <1>3 DEF Sorts
<1>14. SortBase'
  BY <1>0, <1>3, <1>11, <1>12, <1>13 DEF SortBase
<1>15. \A i \in 0 .. n - 1 : Keys[i]' = Keys[IF i \in S THEN moved[i] ELSE i]
  BY <1>5, <1>10
<1> QED BY <1>3, <1>14, <1>15

\* A sort that has come further.
Further(at, calls, u, p, l, r) ==
  [at |-> at, versus |-> sorting.versus, calls |-> calls, before |-> sorting.before,
   unsorted |-> u, pivot |-> p, left |-> l, right |-> r]

\* What such a step leaves in each field of the sort.
LEMMA FurtherIs ==
  ASSUME sorting \in Sorts, NEW at \in SortStages, NEW calls \in Seq(Int \X Int),
         NEW u \in Int, NEW p \in Int, NEW l \in Int, NEW r \in Int
  PROVE  /\ Further(at, calls, u, p, l, r) \in Sorts
         /\ Further(at, calls, u, p, l, r).at = at /\ Further(at, calls, u, p, l, r).calls = calls
         /\ Further(at, calls, u, p, l, r).versus = sorting.versus
         /\ Further(at, calls, u, p, l, r).before = sorting.before
         /\ Further(at, calls, u, p, l, r).unsorted = u /\ Further(at, calls, u, p, l, r).pivot = p
         /\ Further(at, calls, u, p, l, r).left = l /\ Further(at, calls, u, p, l, r).right = r
<1>1. sorting.versus \in {-1, 1} /\ sorting.before \in [1 .. lst.numels -> ListValues]
  BY DEF Sorts
<1> QED BY <1>1 DEF Further, Sorts

\* The steps of the model are such steps.
LEMMA StepsFurther ==
  ASSUME sorting \in Sorts
  PROVE  /\ \A at, calls : With(at, calls) = Further(at, calls, 0, 0, 0, 0)
         /\ \A at, calls, u : [With(at, calls) EXCEPT !.unsorted = u] = Further(at, calls, u, 0, 0, 0)
         /\ \A u : [sorting EXCEPT !.unsorted = u]
                   = Further(sorting.at, sorting.calls, u, sorting.pivot, sorting.left, sorting.right)
         /\ \A at : [sorting EXCEPT !.at = at]
                   = Further(at, sorting.calls, sorting.unsorted, sorting.pivot, sorting.left, sorting.right)
         /\ \A l, r : [sorting EXCEPT !.left = l, !.right = r]
                   = Further(sorting.at, sorting.calls, sorting.unsorted, sorting.pivot, l, r)
         /\ \A l : [sorting EXCEPT !.left = l]
                   = Further(sorting.at, sorting.calls, sorting.unsorted, sorting.pivot, l, sorting.right)
         /\ \A r : [sorting EXCEPT !.right = r]
                   = Further(sorting.at, sorting.calls, sorting.unsorted, sorting.pivot, sorting.left, r)
         /\ \A p : [sorting EXCEPT !.pivot = p]
                   = Further(sorting.at, sorting.calls, sorting.unsorted, p, sorting.left, sorting.right)
<1> DEFINE V == {-1, 1}
           C == Seq(Int \X Int)
           B == [1 .. lst.numels -> ListValues]
           I == Int
           v == sorting.versus
           b == sorting.before
           a0 == sorting.at
           c0 == sorting.calls
           u0 == sorting.unsorted
           p0 == sorting.pivot
           l0 == sorting.left
           r0 == sorting.right
           x == Further(a0, c0, u0, p0, l0, r0)
<1>1. sorting \in [at : SortStages, versus : V, calls : C, before : B,
                  unsorted : I, pivot : I, left : I, right : I]
  BY DEF Sorts
<1> HIDE DEF V, C, B, I
<1>2. sorting = x
  BY <1>1 DEF Further
<1>3. \A at, calls : With(at, calls) = Further(at, calls, 0, 0, 0, 0)
  BY DEF With, Further
<1>4. \A a, c, d, e, f, g : Further(a, c, d, e, f, g) =
        [at |-> a, versus |-> v, calls |-> c, before |-> b, unsorted |-> d, pivot |-> e, left |-> f, right |-> g]
  BY DEF Further
<1> HIDE DEF v, b, a0, c0, u0, p0, l0, r0
<1>5. ASSUME NEW at, NEW calls, NEW u
      PROVE  [With(at, calls) EXCEPT !.unsorted = u] = Further(at, calls, u, 0, 0, 0)
  <2> DEFINE y == Further(at, calls, 0, 0, 0, 0)
  <2>1. [y EXCEPT !.unsorted = u] = Further(at, calls, u, 0, 0, 0)
    BY <1>4
  <2>2. With(at, calls) = y
    BY <1>3
  <2> HIDE DEF y
  <2> QED BY <2>1, <2>2
<1>7. ASSUME NEW u PROVE [sorting EXCEPT !.unsorted = u] = Further(a0, c0, u, p0, l0, r0)
  <2>1. [x EXCEPT !.unsorted = u] = Further(a0, c0, u, p0, l0, r0)
    BY <1>4
  <2> QED BY <1>2, <2>1
<1>8. ASSUME NEW at PROVE [sorting EXCEPT !.at = at] = Further(at, c0, u0, p0, l0, r0)
  <2>1. [x EXCEPT !.at = at] = Further(at, c0, u0, p0, l0, r0)
    BY <1>4
  <2> QED BY <1>2, <2>1
<1>9. ASSUME NEW l PROVE [sorting EXCEPT !.left = l] = Further(a0, c0, u0, p0, l, r0)
  <2>1. [x EXCEPT !.left = l] = Further(a0, c0, u0, p0, l, r0)
    BY <1>4
  <2> QED BY <1>2, <2>1
<1>10. ASSUME NEW r PROVE [sorting EXCEPT !.right = r] = Further(a0, c0, u0, p0, l0, r)
  <2>1. [x EXCEPT !.right = r] = Further(a0, c0, u0, p0, l0, r)
    BY <1>4
  <2> QED BY <1>2, <2>1
<1>11. ASSUME NEW p PROVE [sorting EXCEPT !.pivot = p] = Further(a0, c0, u0, p, l0, r0)
  <2>1. [x EXCEPT !.pivot = p] = Further(a0, c0, u0, p, l0, r0)
    BY <1>4
  <2> QED BY <1>2, <2>1
<1>12. ASSUME NEW l, NEW r PROVE [sorting EXCEPT !.left = l, !.right = r] = Further(a0, c0, u0, p0, l, r)
  <2>1. [x EXCEPT !.left = l] = Further(a0, c0, u0, p0, l, r0)
    BY <1>4
  <2>2. [Further(a0, c0, u0, p0, l, r0) EXCEPT !.right = r] = Further(a0, c0, u0, p0, l, r)
    BY <1>4
  <2> HIDE DEF x
  <2>3. [x EXCEPT !.left = l, !.right = r] = [[x EXCEPT !.left = l] EXCEPT !.right = r]
    OBVIOUS
  <2>4. [x EXCEPT !.left = l, !.right = r] = Further(a0, c0, u0, p0, l, r)
    BY <2>1, <2>2, <2>3
  <2> QED BY <1>2, <2>4
<1> HIDE DEF x
<1> QED BY <1>3, <1>5, <1>7, <1>8, <1>9, <1>10, <1>11, <1>12 DEF a0, c0, u0, p0, l0, r0

\* The start of a partition, another step.
LEMMA PartitionFurther ==
  ASSUME NEW at, NEW calls, NEW p, NEW l, NEW r, NEW s,
         s = [With(at, calls) EXCEPT !.pivot = p, !.left = l, !.right = r]
  PROVE  s = Further(at, calls, 0, p, l, r)
<1> DEFINE v == sorting.versus
           b == sorting.before
           y == Further(at, calls, 0, 0, 0, 0)
<1>0. \A a, c, d, e, f, g : Further(a, c, d, e, f, g) =
        [at |-> a, versus |-> v, calls |-> c, before |-> b, unsorted |-> d, pivot |-> e, left |-> f, right |-> g]
  BY DEF Further
<1> HIDE DEF v, b
<1>1. [y EXCEPT !.pivot = p] = Further(at, calls, 0, p, 0, 0)
  BY <1>0
<1>2. [Further(at, calls, 0, p, 0, 0) EXCEPT !.left = l] = Further(at, calls, 0, p, l, 0)
  BY <1>0
<1>3. [Further(at, calls, 0, p, l, 0) EXCEPT !.right = r] = Further(at, calls, 0, p, l, r)
  BY <1>0
<1>4. With(at, calls) = y
  BY DEF With, Further
<1> HIDE DEF y
<1>5. [y EXCEPT !.pivot = p, !.left = l, !.right = r]
      = [[[y EXCEPT !.pivot = p] EXCEPT !.left = l] EXCEPT !.right = r]
  OBVIOUS
<1>6. [y EXCEPT !.pivot = p, !.left = l, !.right = r] = Further(at, calls, 0, p, l, r)
  BY <1>1, <1>2, <1>3, <1>5
<1> QED BY <1>4, <1>6

\* What a sort that runs keeps of the types.
LEMMA SortTypes ==
  ASSUME SortBase, NEW w, Laid(lst, w)
  PROVE  /\ sorting.at \in SortStages /\ sorting.versus \in {-1, 1} /\ sorting.calls \in Seq(Int \X Int)
         /\ sorting.unsorted \in Int /\ sorting.pivot \in Int /\ sorting.left \in Int /\ sorting.right \in Int
         /\ sorting \in Sorts /\ lst.numels \in Nat
         /\ \A i, jj \in 0 .. lst.numels - 1 : Order(Datum(i), Datum(jj)) = Keys[i] - Keys[jj]
         /\ \A i \in 0 .. lst.numels - 1 : Keys[i] \in Int
         /\ sorting.calls # <<>> =>
              /\ Head(sorting.calls) \in Int \X Int /\ 0 <= Head(sorting.calls)[1]
              /\ Head(sorting.calls)[1] <= Head(sorting.calls)[2] /\ Head(sorting.calls)[2] < lst.numels
<1>1. /\ sorting.at \in SortStages /\ sorting.versus \in {-1, 1} /\ sorting.calls \in Seq(Int \X Int)
      /\ sorting.unsorted \in Int /\ sorting.pivot \in Int /\ sorting.left \in Int /\ sorting.right \in Int
      /\ sorting \in Sorts
  BY DEF SortBase, Sorts
<1>2. lst.numels \in Nat
  BY DEF Laid, Lists
<1>3. /\ \A i, jj \in 0 .. lst.numels - 1 : Order(Datum(i), Datum(jj)) = Keys[i] - Keys[jj]
      /\ \A i \in 0 .. lst.numels - 1 : Keys[i] \in Int
  BY <1>1, KeysAre
<1>4. sorting.calls # <<>> =>
              /\ Head(sorting.calls) \in Int \X Int /\ 0 <= Head(sorting.calls)[1]
              /\ Head(sorting.calls)[1] <= Head(sorting.calls)[2] /\ Head(sorting.calls)[2] < lst.numels
  <2>1. Ranges(sorting.calls, lst.numels)
    BY DEF SortBase
  <2> QED BY <1>2, <2>1, FirstRange
<1> QED BY <1>1, <1>2, <1>3, <1>4

\* A step that moves no data, to another stage of the call.
LEMMA FurtherKept ==
  ASSUME SortBase, NEW w, Laid(lst, w), lst' = lst, NEW at \in SortStages, NEW calls,
         Ranges(calls, lst.numels), Settled(Keys, calls, lst.numels),
         NEW u \in Int, NEW p \in Int, NEW l \in Int, NEW r \in Int,
         sorting' = Further(at, calls, u, p, l, r),
         at # "call" => calls # <<>>,
         at = "select" => Selected(Keys, Head(calls), u),
         at = "partition" => Parted(Keys, Head(calls), l, p, r),
         at = "left longer" => Parted(Keys, Head(calls), l, p, p),
         at = "right longer" => Parted(Keys, Head(calls), p, p, r)
  PROVE  Sorting'
<1>1. calls \in Seq(Int \X Int) /\ sorting \in Sorts
  BY SortTypes DEF Ranges
<1> DEFINE s == Further(at, calls, u, p, l, r)
<1>2. /\ s \in Sorts /\ s.versus = sorting.versus /\ s.before = sorting.before /\ s.at = at /\ s.calls = calls
      /\ s.unsorted = u /\ s.pivot = p /\ s.left = l /\ s.right = r
  <2>1. s \in Sorts
    BY <1>1, FurtherIs
  <2>2. s.versus = sorting.versus /\ s.before = sorting.before /\ s.at = at /\ s.calls = calls
    BY DEF Further
  <2>3. s.unsorted = u /\ s.pivot = p /\ s.left = l /\ s.right = r
    BY DEF Further
  <2> QED BY <2>1, <2>2, <2>3
<1> HIDE DEF s
<1>3. sorting' = s
  BY DEF s
<1>4. SortBase' /\ Keys' = Keys
  BY <1>2, <1>3, KeptBase
<1>5. StageHolds'
  BY <1>2, <1>3, <1>4 DEF StageHolds
<1> QED BY <1>4, <1>5 DEF Sorting

\* What a step of the sort keeps.
Kept(w) ==
  /\ Laid(lst', w) /\ lst'.numels = lst.numels /\ lst'.next = lst.next
  /\ sorting'.at = "idle" \/ Sorting'

\* A call begins: it returns at once, selects, or partitions.
LEMMA SortCallStep ==
  ASSUME Sorting, NEW w, Laid(lst, w), SortCall
  PROVE  Kept(w)
<1> DEFINE n == lst.numels
           calls == sorting.calls
           c == Head(calls)
<1>0. /\ SortBase /\ sorting \in Sorts /\ n \in Nat /\ calls # <<>> /\ sorting.at = "call" /\ lst' = lst
      /\ c \in Int \X Int /\ 0 <= c[1] /\ c[1] <= c[2] /\ c[2] < n
      /\ Ranges(calls, n) /\ Settled(Keys, calls, n)
  BY SortTypes DEF Sorting, SortBase, SortCall
<1>1. c[1] \in Int /\ c[2] \in Int
  BY <1>0
<1>2. CASE c[2] <= c[1]
  <2>1. sorting' = With("call", Tail(calls))
    BY <1>2 DEF SortCall
  <2>2. sorting' = Further("call", Tail(calls), 0, 0, 0, 0)
    BY <1>0, <2>1, StepsFurther
  <2>3. \A i, jj \in c[1] .. c[2] : i < jj => Keys[i] <= Keys[jj]
    BY <1>1, <1>2
  <2>4. Ranges(Tail(calls), n) /\ Settled(Keys, Tail(calls), n)
    BY <1>0, <2>3, ReturnSettled
  <2>5. "call" \in SortStages /\ 0 \in Int
    BY DEF SortStages
  <2>6. Sorting'
    BY <1>0, <2>2, <2>4, <2>5, FurtherKept
  <2> QED BY <1>0, <2>6 DEF Kept
<1>3. CASE ~(c[2] <= c[1]) /\ c[2] - c[1] + 1 <= MinQuick
  <2>1. sorting' = [With("select", calls) EXCEPT !.unsorted = c[1]]
    BY <1>3 DEF SortCall
  <2>2. sorting' = Further("select", calls, c[1], 0, 0, 0)
    <3> DEFINE first == c[1]
               at == "select"
    <3>1. sorting' = [With(at, calls) EXCEPT !.unsorted = first]
      BY <2>1
    <3> HIDE DEF first, calls, at
    <3>2. [With(at, calls) EXCEPT !.unsorted = first] = Further(at, calls, first, 0, 0, 0)
      BY <1>0, StepsFurther
    <3>3. sorting' = Further(at, calls, first, 0, 0, 0)
      BY <3>1, <3>2
    <3> QED BY <3>3 DEF first, calls, at
  <2>3. Selected(Keys, c, c[1])
    BY <1>0, <1>1 DEF Selected, Within
  <2>5. "select" \in SortStages /\ 0 \in Int
    BY DEF SortStages
  <2>6. Sorting'
    BY <1>0, <1>1, <2>2, <2>3, <2>5, FurtherKept
  <2> QED BY <1>0, <2>6 DEF Kept
<1>4. CASE ~(c[2] <= c[1]) /\ ~(c[2] - c[1] + 1 <= MinQuick)
  <2>1. PICK pivot \in c[1] .. c[2] :
          sorting' = [With("partition", calls) EXCEPT !.pivot = pivot, !.left = c[1], !.right = c[2]]
    BY <1>4 DEF SortCall
  <2>2. sorting' = Further("partition", calls, 0, pivot, c[1], c[2])
    <3> DEFINE first == c[1]
               last == c[2]
               at == "partition"
    <3>1. sorting' = [With(at, calls) EXCEPT !.pivot = pivot, !.left = first, !.right = last]
      BY <2>1
    <3> HIDE DEF first, last, calls, at
    <3>3. sorting' = Further(at, calls, 0, pivot, first, last)
      BY <3>1, PartitionFurther
    <3> QED BY <3>3 DEF first, last, calls, at
  <2>3. Parted(Keys, c, c[1], pivot, c[2])
    BY <1>0, <1>1 DEF Parted
  <2>5. "partition" \in SortStages /\ 0 \in Int /\ pivot \in Int
    BY <1>1 DEF SortStages
  <2>6. Sorting'
    BY <1>0, <1>1, <2>2, <2>3, <2>5, FurtherKept
  <2> QED BY <1>0, <2>6 DEF Kept
<1> QED BY <1>2, <1>3, <1>4

\* A partition that is done makes its two calls.
LEMMA RecurseStep ==
  ASSUME Sorting, NEW w, Laid(lst, w), Recurse
  PROVE  Kept(w)
<1> DEFINE n == lst.numels
           calls == sorting.calls
           c == Head(calls)
           p == sorting.pivot
           s == BothCalls(c, p) \o Tail(calls)
<1>0. /\ SortBase /\ sorting \in Sorts /\ n \in Nat /\ p \in Int
      /\ Ranges(calls, n) /\ Settled(Keys, calls, n) /\ \A i \in 0 .. n - 1 : Keys[i] \in Int
  BY SortTypes DEF Sorting, SortBase
<1>1. lst' = lst /\ calls # <<>> /\ Parted(Keys, c, p, p, p)
  BY DEF Recurse, Sorting, StageHolds
<1>2. sorting' = With("call", s)
  BY DEF Recurse, BothCalls, LeftCall, RightCall
<1>3. Ranges(s, n) /\ Settled(Keys, s, n)
  <2> HIDE DEF p
  <2> QED BY <1>0, <1>1, RecurseSettled
<1> HIDE DEF s
<1>4. sorting' = Further("call", s, 0, 0, 0, 0)
  BY <1>0, <1>2, StepsFurther
<1>5. "call" \in SortStages /\ 0 \in Int
  BY DEF SortStages
<1>6. Sorting'
  BY <1>0, <1>1, <1>3, <1>4, <1>5, FurtherKept
<1> QED BY <1>1, <1>6 DEF Kept

\* The sort returns.
LEMMA SortReturnStep ==
  ASSUME Sorting, NEW w, Laid(lst, w), SortReturn
  PROVE  Kept(w)
BY DEF SortReturn, NotSorting, Kept

\* list_sort starts: one call, for the whole list.
LEMMA SortStartStep ==
  ASSUME NEW w, Laid(lst, w), NEW versus \in {-1, 1}, list_sort(versus)
  PROVE  Kept(w)
<1> DEFINE n == lst.numels
           calls == <<<<0, n - 1>>>>
           before == [i \in 1 .. n |-> Datum(i - 1)]
           s == [at |-> "call", versus |-> versus, calls |-> calls, before |-> before,
                 unsorted |-> 0, pivot |-> 0, left |-> 0, right |-> 0]
<1>0. n \in Nat /\ n > 1 /\ lst' = lst
  BY DEF list_sort, Laid, Lists
<1>1. sorting' = s
  BY DEF list_sort
<1>2. calls \in Seq(Int \X Int) /\ Len(calls) = 1 /\ calls[1] = <<0, n - 1>>
  BY <1>0
<1>3. before \in [1 .. n -> ListValues]
  <2>1. \A i \in 1 .. n : i - 1 \in 0 .. n - 1
    BY <1>0
  <2>2. \A i \in 0 .. n - 1 : Datum(i) \in ListValues
    BY DataAre
  <2> QED BY <2>1, <2>2
<1>4. \A i \in 1 .. n : before[i] = Datum(i - 1)
  OBVIOUS
<1>5. "call" \in SortStages
  BY DEF SortStages
<1>6. /\ s.at = "call" /\ s.versus = versus /\ s.calls = calls /\ s.before = before
  OBVIOUS
<1>7. s \in Sorts
  <2> HIDE DEF calls, before
  <2> QED BY <1>2, <1>3, <1>5 DEF Sorts
<1> HIDE DEF s, calls, before
<1>8. \A i : Datum(i)' = Datum(i)
  BY <1>0 DEF Datum, Entry
<1>9. (sorting \in Sorts)'
  BY <1>0, <1>1, <1>7 DEF Sorts
<1>10. Ranges(calls, n)
  <2>1. \A a \in 1 .. Len(calls) : a = 1
    BY <1>2
  <2>2. calls[1][1] = 0 /\ calls[1][2] = n - 1
    BY <1>2
  <2> QED BY <1>0, <1>2, <2>1, <2>2 DEF Ranges
<1>11. Settled(Keys', calls, n)
  <2>1. \A i \in 0 .. n - 1 : Within(calls[1], i)
    BY <1>0, <1>2 DEF Within
  <2>2. 1 \in 1 .. Len(calls)
    BY <1>2
  <2> QED BY <2>1, <2>2 DEF Settled
<1>12. SameElements'
  BY <1>0, <1>1, <1>4, <1>6, <1>8 DEF SameElements
<1>13. SortBase'
  BY <1>0, <1>1, <1>6, <1>9, <1>10, <1>11, <1>12 DEF SortBase
<1>14. StageHolds'
  BY <1>1, <1>6 DEF StageHolds
<1> QED BY <1>0, <1>13, <1>14 DEF Kept, Sorting

\* The least of some positions.
LEMMA LeastOfIs ==
  ASSUME NEW a \in Int, NEW b \in Int, NEW T, T \subseteq a .. b, T # {}
  PROVE  LeastOf(T) \in T /\ \A jj \in T : LeastOf(T) <= jj
<1> DEFINE U == {x - a : x \in T}
<1>1. U \subseteq Nat /\ U # {}
  OBVIOUS
<1>2. PICK u \in U : \A y \in U : u <= y
  BY <1>1, LeastNumber
<1>3. PICK x \in T : u = x - a
  BY <1>2
<1>4. \A jj \in T : x <= jj
  <2>1. ASSUME NEW jj \in T PROVE x <= jj
    <3>1. jj - a \in U
      OBVIOUS
    <3>2. x - a <= jj - a
      BY <1>2, <1>3, <3>1
    <3>3. x \in Int /\ jj \in Int
      OBVIOUS
    <3> QED BY <3>2, <3>3
  <2> QED BY <2>1
<1> HIDE DEF U
<1>5. \E i \in T : \A jj \in T : i <= jj
  BY <1>4
<1> QED BY <1>5 DEF LeastOf

\* And the greatest.
LEMMA GreatestOfIs ==
  ASSUME NEW a \in Int, NEW b \in Int, NEW T, T \subseteq a .. b, T # {}
  PROVE  GreatestOf(T) \in T /\ \A jj \in T : GreatestOf(T) >= jj
<1> DEFINE U == {b - x : x \in T}
<1>1. U \subseteq Nat /\ U # {}
  OBVIOUS
<1>2. PICK u \in U : \A y \in U : u <= y
  BY <1>1, LeastNumber
<1>3. PICK x \in T : u = b - x
  BY <1>2
<1>4. \A jj \in T : x >= jj
  <2>1. ASSUME NEW jj \in T PROVE x >= jj
    <3>1. b - jj \in U
      OBVIOUS
    <3>2. b - x <= b - jj
      BY <1>2, <1>3, <3>1
    <3>3. x \in Int /\ jj \in Int
      OBVIOUS
    <3> QED BY <3>2, <3>3
  <2> QED BY <2>1
<1> HIDE DEF U
<1>5. \E i \in T : \A jj \in T : i >= jj
  BY <1>4
<1> QED BY <1>5 DEF GreatestOf

\* Somewhere in a range a key is smallest.
LEMMA SmallestKey ==
  ASSUME NEW kk, NEW u \in Int, NEW v \in Int, u <= v, \A i \in u .. v : kk[i] \in Int
  PROVE  \E i \in u .. v : \A jj \in u .. v : kk[i] <= kk[jj]
<1> DEFINE G == {m \in Nat : u + m <= v => \E i \in u .. u + m : \A jj \in u .. u + m : kk[i] <= kk[jj]}
<1>1. 0 \in G
  <2>1. \A jj \in u .. u + 0 : jj = u
    OBVIOUS
  <2>2. u \in u .. u + 0 /\ kk[u] \in Int
    OBVIOUS
  <2>3. \A jj \in u .. u + 0 : kk[u] <= kk[jj]
    BY <2>1, <2>2
  <2> QED BY <2>2, <2>3
<1>2. ASSUME NEW m \in Nat, m \in G PROVE m + 1 \in G
  <2> SUFFICES ASSUME u + (m + 1) <= v
               PROVE  \E i \in u .. u + (m + 1) : \A jj \in u .. u + (m + 1) : kk[i] <= kk[jj]
    OBVIOUS
  <2> DEFINE x == u + m
             y == u + (m + 1)
  <2>1. x \in Int /\ y = x + 1 /\ u <= x /\ y <= v /\ u + m <= v
    OBVIOUS
  <2>2. PICK i \in u .. x : \A jj \in u .. x : kk[i] <= kk[jj]
    BY <1>2, <2>1
  <2> HIDE DEF x, y
  <2>3. \A jj \in u .. y : jj \in u .. x \/ jj = y
    BY <2>1
  <2>4. i \in u .. y /\ y \in u .. y /\ \A jj \in u .. y : kk[jj] \in Int
    BY <2>1
  <2>5. CASE kk[i] <= kk[y]
    <3>1. \A jj \in u .. y : kk[i] <= kk[jj]
      BY <2>2, <2>3, <2>5
    <3> QED BY <2>4, <3>1 DEF y
  <2>6. CASE ~(kk[i] <= kk[y])
    <3>1. ASSUME NEW jj \in u .. y PROVE kk[y] <= kk[jj]
      <4>1. jj \in u .. x => kk[i] <= kk[jj]
        BY <2>2
      <4> QED BY <2>3, <2>4, <2>6, <4>1
    <3> QED BY <2>4, <3>1 DEF y
  <2> QED BY <2>5, <2>6
<1> HIDE DEF G
<1>3. v - u \in G
  <2>1. Nat \subseteq G
    BY <1>1, <1>2, SetInduction
  <2> QED BY <2>1
<1>4. u + (v - u) = v
  OBVIOUS
<1> QED BY <1>3, <1>4 DEF G

\* Three positions turned.
Turned(i, q, p) == [x \in {i, q, p} |-> IF x = i THEN q ELSE IF x = p THEN i ELSE p]

\* The smallest of the rest comes to the front.
LEMMA SelectedNext ==
  ASSUME NEW c, c[1] \in Int, c[2] \in Int, NEW kk, NEW m, NEW g, NEW u \in Int, Selected(kk, c, u), u # c[2],
         NEW t \in u .. c[2], \A jj \in u .. c[2] : kk[t] <= kk[jj],
         \A i \in c[1] .. c[2] : m[i] = kk[g[i]],
         g[u] = t, g[t] = u, \A i \in c[1] .. c[2] : i # u /\ i # t => g[i] = i
  PROVE  Selected(m, c, u + 1)
<1>1. c[1] <= u /\ u <= c[2] /\ u + 1 <= c[2]
  BY DEF Selected, Within
<1>2. ASSUME NEW i \in c[1] .. c[2], NEW jj \in c[1] .. c[2], i < u + 1, i < jj PROVE m[i] <= m[jj]
  <2>1. m[i] = kk[g[i]] /\ m[jj] = kk[g[jj]]
    OBVIOUS
  <2>2. g[jj] = t \/ g[jj] = u \/ g[jj] = jj
    OBVIOUS
  <2>3. CASE i = u
    <3>1. g[jj] \in u .. c[2]
      BY <1>1, <1>2, <2>2, <2>3
    <3> QED BY <2>1, <2>3, <3>1
  <2>4. CASE i # u
    <3>1. i < u /\ i # t /\ g[i] = i
      BY <1>2, <2>4
    <3>2. g[jj] \in c[1] .. c[2] /\ i < g[jj]
      BY <1>1, <1>2, <2>2, <3>1
    <3> QED BY <2>1, <3>1, <3>2 DEF Selected
  <2> QED BY <2>3, <2>4
<1>3. Within(c, u + 1)
  BY <1>1 DEF Within
<1> QED BY <1>2, <1>3 DEF Selected

\* The pointers have passed what need not move.
LEMMA PartedPassed ==
  ASSUME NEW c, c[1] \in Int, c[2] \in Int, NEW kk, NEW l \in Int, NEW p \in Int, NEW r \in Int,
         Parted(kk, c, l, p, r), NEW a \in l .. p, NEW b \in p .. r,
         \A i \in l .. p : i < a => kk[i] <= kk[p],
         \A i \in p .. r : b < i => kk[p] <= kk[i]
  PROVE  Parted(kk, c, a, p, b)
<1>1. c[1] <= l /\ l <= p /\ p <= r /\ r <= c[2]
  BY DEF Parted
<1>2. ASSUME NEW i \in c[1] .. c[2], i < a PROVE kk[i] <= kk[p]
  <2>1. CASE i < l
    BY <2>1 DEF Parted
  <2>2. CASE ~(i < l)
    <3>1. i \in l .. p
      BY <1>2, <2>2
    <3> QED BY <1>2, <3>1
  <2> QED BY <2>1, <2>2
<1>3. ASSUME NEW i \in c[1] .. c[2], b < i PROVE kk[p] <= kk[i]
  <2>1. CASE r < i
    BY <2>1 DEF Parted
  <2>2. CASE ~(r < i)
    <3>1. i \in p .. r
      BY <1>3, <2>2
    <3> QED BY <1>3, <3>1
  <2> QED BY <2>1, <2>2
<1>4. c[1] <= a /\ a <= p /\ p <= b /\ b <= c[2]
  BY <1>1
<1> QED BY <1>2, <1>3, <1>4 DEF Parted

\* A pair is swapped across the pivot.
LEMMA PartedSwapped ==
  ASSUME NEW c, c[1] \in Int, c[2] \in Int, NEW kk, NEW m, NEW g, \A i \in c[1] .. c[2] : kk[i] \in Int,
         NEW a \in Int, NEW p \in Int, NEW b \in Int, Parted(kk, c, a, p, b), a < p, p < b,
         kk[p] < kk[a], kk[b] < kk[p], \A i \in c[1] .. c[2] : m[i] = kk[g[i]],
         g[a] = b, g[b] = a, \A i \in c[1] .. c[2] : i # a /\ i # b => g[i] = i
  PROVE  Parted(m, c, a + 1, p, b - 1)
<1>1. c[1] <= a /\ b <= c[2]
  BY DEF Parted
<1>2. p \in c[1] .. c[2] /\ a \in c[1] .. c[2] /\ b \in c[1] .. c[2]
  BY <1>1
<1>3. m[p] = kk[p] /\ m[a] = kk[b] /\ m[b] = kk[a] /\ kk[a] \in Int /\ kk[b] \in Int /\ kk[p] \in Int
  BY <1>2
<1>4. ASSUME NEW i \in c[1] .. c[2], i < a + 1 PROVE m[i] <= m[p]
  <2>1. CASE i = a
    BY <1>3, <2>1
  <2>2. CASE i # a
    <3>1. i < a /\ i # b
      BY <1>4, <2>2
    <3>2. kk[i] <= kk[p]
      BY <3>1 DEF Parted
    <3> QED BY <1>3, <2>2, <3>1, <3>2
  <2> QED BY <2>1, <2>2
<1>5. ASSUME NEW i \in c[1] .. c[2], b - 1 < i PROVE m[p] <= m[i]
  <2>1. CASE i = b
    BY <1>3, <2>1
  <2>2. CASE i # b
    <3>1. b < i /\ i # a
      BY <1>5, <2>2
    <3>2. kk[p] <= kk[i]
      BY <3>1 DEF Parted
    <3> QED BY <1>3, <2>2, <3>1, <3>2
  <2> QED BY <2>1, <2>2
<1>6. c[1] <= a + 1 /\ a + 1 <= p /\ p <= b - 1 /\ b - 1 <= c[2]
  BY <1>1
<1> QED BY <1>4, <1>5, <1>6 DEF Parted

\* What is left on the left side crosses the pivot, which moves down by one.
LEMMA PartedDown ==
  ASSUME NEW c, c[1] \in Int, c[2] \in Int, NEW kk, NEW m, NEW g, \A i \in c[1] .. c[2] : kk[i] \in Int,
         NEW a \in Int, NEW p \in Int, Parted(kk, c, a, p, p), a < p, kk[p] < kk[a],
         \A i \in c[1] .. c[2] : m[i] = kk[g[i]],
         g[p - 1] = p, g[p] = a,
         \A i \in c[1] .. c[2] : i # a /\ i # p - 1 /\ i # p => g[i] = i
  PROVE  Parted(m, c, a, p - 1, p - 1)
<1>1. c[1] <= a /\ p <= c[2]
  BY DEF Parted
<1>2. p \in c[1] .. c[2] /\ p - 1 \in c[1] .. c[2] /\ a \in c[1] .. c[2]
  BY <1>1
<1>3. m[p - 1] = kk[p] /\ m[p] = kk[a] /\ kk[a] \in Int /\ kk[p] \in Int
  BY <1>2
<1>4. ASSUME NEW i \in c[1] .. c[2], i < a PROVE m[i] <= m[p - 1]
  <2>1. i # a /\ i # p - 1 /\ i # p
    BY <1>4
  <2>2. kk[i] <= kk[p]
    BY <1>4 DEF Parted
  <2> QED BY <1>3, <2>1, <2>2
<1>5. ASSUME NEW i \in c[1] .. c[2], p - 1 < i PROVE m[p - 1] <= m[i]
  <2>1. CASE i = p
    BY <1>3, <2>1
  <2>2. CASE i # p
    <3>1. p < i /\ i # a /\ i # p - 1
      BY <1>5, <2>2
    <3>2. kk[p] <= kk[i]
      BY <3>1 DEF Parted
    <3> QED BY <1>3, <2>2, <3>1, <3>2
  <2> QED BY <2>1, <2>2
<1>6. c[1] <= a /\ a <= p - 1 /\ p - 1 <= p - 1 /\ p - 1 <= c[2]
  BY <1>1
<1> QED BY <1>4, <1>5, <1>6 DEF Parted

\* What is left on the right side crosses it, and it moves up by one.
LEMMA PartedUp ==
  ASSUME NEW c, c[1] \in Int, c[2] \in Int, NEW kk, NEW m, NEW g, \A i \in c[1] .. c[2] : kk[i] \in Int,
         NEW b \in Int, NEW p \in Int, Parted(kk, c, p, p, b), p < b, kk[b] < kk[p],
         \A i \in c[1] .. c[2] : m[i] = kk[g[i]],
         g[p + 1] = p, g[p] = b,
         \A i \in c[1] .. c[2] : i # b /\ i # p + 1 /\ i # p => g[i] = i
  PROVE  Parted(m, c, p + 1, p + 1, b)
<1>1. c[1] <= p /\ b <= c[2]
  BY DEF Parted
<1>2. p \in c[1] .. c[2] /\ p + 1 \in c[1] .. c[2] /\ b \in c[1] .. c[2]
  BY <1>1
<1>3. m[p + 1] = kk[p] /\ m[p] = kk[b] /\ kk[b] \in Int /\ kk[p] \in Int
  BY <1>2
<1>4. ASSUME NEW i \in c[1] .. c[2], b < i PROVE m[p + 1] <= m[i]
  <2>1. i # b /\ i # p + 1 /\ i # p
    BY <1>4
  <2>2. kk[p] <= kk[i]
    BY <1>4 DEF Parted
  <2> QED BY <1>3, <2>1, <2>2
<1>5. ASSUME NEW i \in c[1] .. c[2], i < p + 1 PROVE m[i] <= m[p + 1]
  <2>1. CASE i = p
    BY <1>3, <2>1
  <2>2. CASE i # p
    <3>1. i < p /\ i # b /\ i # p + 1
      BY <1>5, <2>2
    <3>2. kk[i] <= kk[p]
      BY <3>1 DEF Parted
    <3> QED BY <1>3, <2>2, <3>1, <3>2
  <2> QED BY <2>1, <2>2
<1>6. c[1] <= p + 1 /\ p + 1 <= p + 1 /\ p + 1 <= b /\ b <= c[2]
  BY <1>1
<1> QED BY <1>4, <1>5, <1>6 DEF Parted

\* What a step that permutes positions in the range of the call does.
Permuted(w, S, moved, u, p, l, r) ==
  /\ Laid(lst', w) /\ lst'.numels = lst.numels /\ lst'.next = lst.next /\ SortBase'
  /\ \A i \in 0 .. lst.numels - 1 : Keys'[i] = Keys[IF i \in S THEN moved[i] ELSE i]
  /\ sorting'.at = sorting.at /\ sorting'.calls = sorting.calls /\ sorting'.unsorted = u
  /\ sorting'.pivot = p /\ sorting'.left = l /\ sorting'.right = r

\* A step of the sort that permutes positions in the range of the call.
LEMMA PermutedIs ==
  ASSUME Sorting, sorting.calls # <<>>, NEW w, Laid(lst, w), NEW S, InRange(S),
         NEW moved, Permuting(S, moved),
         Move(moved), NEW u \in Int, NEW p \in Int, NEW l \in Int, NEW r \in Int,
         sorting' = Further(sorting.at, sorting.calls, u, p, l, r)
  PROVE  Permuted(w, S, moved, u, p, l, r)
<1> DEFINE s == Further(sorting.at, sorting.calls, u, p, l, r)
<1>0. sorting \in Sorts /\ sorting.at \in SortStages /\ sorting.calls \in Seq(Int \X Int) /\ SortBase
  BY SortTypes DEF Sorting
<1>1. s \in Sorts
  BY <1>0, FurtherIs
<1>2. /\ s.versus = sorting.versus /\ s.before = sorting.before /\ s.at = sorting.at /\ s.calls = sorting.calls
      /\ s.unsorted = u /\ s.pivot = p /\ s.left = l /\ s.right = r
  BY DEF Further
<1>3. sorting' = s
  OBVIOUS
<1> HIDE DEF s
<1>4. /\ sorting' \in Sorts /\ sorting'.versus = sorting.versus /\ sorting'.before = sorting.before
      /\ sorting'.calls = sorting.calls
  BY <1>1, <1>2, <1>3
<1>5. /\ Laid(lst', w) /\ lst'.numels = lst.numels /\ lst'.next = lst.next /\ SortBase'
      /\ \A i \in 0 .. lst.numels - 1 : Keys[i]' = Keys[IF i \in S THEN moved[i] ELSE i]
  BY <1>0, <1>4, MovedBase
<1> QED BY <1>2, <1>3, <1>5 DEF Permuted

\* A step that swaps the data of two positions in the range of the call.
LEMMA SwapStep ==
  ASSUME Sorting, sorting.calls # <<>>, NEW w, Laid(lst, w), NEW i \in Int, NEW jj \in Int,
         Within(Head(sorting.calls), i), Within(Head(sorting.calls), jj), Move(Swapped(i, jj)),
         NEW u \in Int, NEW p \in Int, NEW l \in Int, NEW r \in Int,
         sorting' = Further(sorting.at, sorting.calls, u, p, l, r)
  PROVE  Permuted(w, {i, jj}, Swapped(i, jj), u, p, l, r)
<1> DEFINE S == {i, jj}
           moved == Swapped(i, jj)
<1>1. Permuting(S, moved)
  <2>1. moved \in [S -> S]
    BY DEF Swapped
  <2>2. moved[i] = jj /\ moved[jj] = i
    BY DEF Swapped
  <2> HIDE DEF moved
  <2>3. \A x, y \in S : moved[x] = moved[y] => x = y
    BY <2>2
  <2>4. \A y \in S : \E x \in S : moved[x] = y
    BY <2>2
  <2> QED BY <2>1, <2>3, <2>4 DEF Permuting
<1>2. InRange(S)
  BY DEF InRange
<1>3. Move(moved)
  OBVIOUS
<1> HIDE DEF S, moved
<1>4. Permuted(w, S, moved, u, p, l, r)
  BY <1>1, <1>2, <1>3, PermutedIs
<1> QED BY <1>4 DEF S, moved

\* The keys of the two positions are swapped, every other keeps its own.
KeysSwapped(i, jj) ==
  \A x \in 0 .. lst.numels - 1 : Keys'[x] = Keys[IF x = i THEN jj ELSE IF x = jj THEN i ELSE x]

\* What it does to the keys.
LEMMA SwapKeys ==
  ASSUME NEW w, NEW i, NEW jj, NEW u, NEW p, NEW l, NEW r, Permuted(w, {i, jj}, Swapped(i, jj), u, p, l, r)
  PROVE  KeysSwapped(i, jj)
<1> DEFINE S == {i, jj}
           moved == Swapped(i, jj)
<1>1. moved[i] = jj /\ moved[jj] = i /\ \A x : x \in S <=> x = i \/ x = jj
  BY DEF Swapped
<1>2. Permuted(w, S, moved, u, p, l, r)
  OBVIOUS
<1> HIDE DEF S, moved
<1>3. \A x : (IF x \in S THEN moved[x] ELSE x) = IF x = i THEN jj ELSE IF x = jj THEN i ELSE x
  BY <1>1
<1> QED BY <1>2, <1>3 DEF Permuted, KeysSwapped

\* A step that turns the data of three.
LEMMA TurnStep ==
  ASSUME Sorting, sorting.calls # <<>>, NEW w, Laid(lst, w), NEW i \in Int, NEW q \in Int, NEW v \in Int,
         i # q, i # v, q # v, Within(Head(sorting.calls), i), Within(Head(sorting.calls), q),
         Within(Head(sorting.calls), v), Move(Turned(i, q, v)),
         NEW u \in Int, NEW p \in Int, NEW l \in Int, NEW r \in Int,
         sorting' = Further(sorting.at, sorting.calls, u, p, l, r)
  PROVE  Permuted(w, {i, q, v}, Turned(i, q, v), u, p, l, r)
<1> DEFINE S == {i, q, v}
           moved == Turned(i, q, v)
<1>1. Permuting(S, moved)
  <2>1. moved \in [S -> S]
    BY DEF Turned
  <2>2. moved[i] = q /\ moved[q] = v /\ moved[v] = i
    BY DEF Turned
  <2> HIDE DEF moved
  <2>3. \A x, y \in S : moved[x] = moved[y] => x = y
    BY <2>2
  <2>4. \A y \in S : \E x \in S : moved[x] = y
    BY <2>2
  <2> QED BY <2>1, <2>3, <2>4 DEF Permuting
<1>2. InRange(S)
  BY DEF InRange
<1>3. Move(moved)
  OBVIOUS
<1> HIDE DEF S, moved
<1>4. Permuted(w, S, moved, u, p, l, r)
  BY <1>1, <1>2, <1>3, PermutedIs
<1> QED BY <1>4 DEF S, moved

\* The keys of the three positions are turned, every other keeps its own.
KeysTurned(i, q, v) ==
  \A x \in 0 .. lst.numels - 1 :
    Keys'[x] = Keys[IF x = i THEN q ELSE IF x = v THEN i ELSE IF x = q THEN v ELSE x]

\* What it does to their keys.
LEMMA TurnKeys ==
  ASSUME NEW w, NEW i, NEW q, NEW v, i # q, i # v, q # v, NEW u, NEW p, NEW l, NEW r,
         Permuted(w, {i, q, v}, Turned(i, q, v), u, p, l, r)
  PROVE  KeysTurned(i, q, v)
<1> DEFINE S == {i, q, v}
           moved == Turned(i, q, v)
<1>1. moved[i] = q /\ moved[q] = v /\ moved[v] = i /\ \A x : x \in S <=> x = i \/ x = q \/ x = v
  BY DEF Turned
<1>2. Permuted(w, S, moved, u, p, l, r)
  OBVIOUS
<1> HIDE DEF S, moved
<1>3. \A x : (IF x \in S THEN moved[x] ELSE x)
             = IF x = i THEN q ELSE IF x = v THEN i ELSE IF x = q THEN v ELSE x
  BY <1>1
<1> QED BY <1>2, <1>3 DEF Permuted, KeysTurned

\* A step of the selection sort.
LEMMA SelectionStepStep ==
  ASSUME Sorting, NEW w, Laid(lst, w), SelectionStep
  PROVE  Kept(w)
<1> DEFINE n == lst.numels
           calls == sorting.calls
           c == Head(calls)
           first == c[1]
           last == c[2]
           u == sorting.unsorted
           rest == u .. last
           T == {i \in rest : \A jj \in rest : Order(Datum(i), Datum(jj)) <= 0}
           t == LeastOf(T)
           p == sorting.pivot
           l == sorting.left
           r == sorting.right
<1>0. /\ SortBase /\ sorting \in Sorts /\ n \in Nat /\ sorting.at = "select" /\ calls # <<>>
      /\ Ranges(calls, n) /\ Settled(Keys, calls, n) /\ Selected(Keys, c, u)
      /\ u \in Int /\ p \in Int /\ l \in Int /\ r \in Int
  BY SortTypes DEF Sorting, StageHolds, SortBase, SelectionStep
<1>1. c \in Int \X Int /\ 0 <= first /\ first <= last /\ last < n
  BY <1>0, SortTypes
<1>2. first \in Int /\ last \in Int /\ first <= u /\ u <= last
  BY <1>0, <1>1 DEF Selected, Within
<1>3. \A i \in first .. last : i \in 0 .. n - 1
  BY <1>0, <1>1, <1>2
<1>4. \A i \in rest : i \in first .. last
  BY <1>0, <1>2
<1>5. /\ \A i \in first .. last : Keys[i] \in Int
      /\ \A i, jj \in first .. last : Order(Datum(i), Datum(jj)) = Keys[i] - Keys[jj]
  BY <1>0, <1>3, SortTypes
<1>6. CASE u = last
  <2>1. sorting' = With("call", Tail(calls)) /\ lst' = lst
    BY <1>6 DEF SelectionStep
  <2>2. sorting' = Further("call", Tail(calls), 0, 0, 0, 0)
    BY <1>0, <2>1, StepsFurther
  <2>3. \A i, jj \in first .. last : i < jj => Keys[i] <= Keys[jj]
    BY <1>0, <1>2, <1>6 DEF Selected
  <2>4. Ranges(Tail(calls), n) /\ Settled(Keys, Tail(calls), n)
    BY <1>0, <2>3, ReturnSettled
  <2>5. "call" \in SortStages /\ 0 \in Int
    BY DEF SortStages
  <2>6. Sorting'
    BY <1>0, <2>1, <2>2, <2>4, <2>5, FurtherKept
  <2> QED BY <2>1, <2>6 DEF Kept
<1>7. CASE u # last
  <2>1. Move(Swapped(u, t)) /\ sorting' = [sorting EXCEPT !.unsorted = u + 1]
    BY <1>7 DEF SelectionStep
  <2>2. sorting' = Further(sorting.at, calls, u + 1, p, l, r)
    BY <1>0, <2>1, StepsFurther
  <2>3. t \in rest /\ \A jj \in rest : Keys[t] <= Keys[jj]
    <3>1. PICK i \in rest : \A jj \in rest : Keys[i] <= Keys[jj]
      <4>1. \A i \in u .. last : Keys[i] \in Int
        BY <1>4, <1>5
      <4> QED BY <1>0, <1>2, <4>1, SmallestKey
    <3>2. \A jj \in rest : Order(Datum(i), Datum(jj)) <= 0
      <4>1. ASSUME NEW jj \in rest PROVE Order(Datum(i), Datum(jj)) <= 0
        <5>1. Order(Datum(i), Datum(jj)) = Keys[i] - Keys[jj] /\ Keys[i] \in Int /\ Keys[jj] \in Int
          BY <1>4, <1>5
        <5> QED BY <3>1, <5>1
      <4> QED BY <4>1
    <3>3. T # {} /\ T \subseteq u .. last
      BY <3>2
    <3>4. t \in T
      <4> HIDE DEF T
      <4> QED BY <1>0, <1>2, <3>3, LeastOfIs
    <3>5. t \in rest /\ \A jj \in rest : Order(Datum(t), Datum(jj)) <= 0
      BY <3>4
    <3> HIDE DEF t
    <3>6. ASSUME NEW jj \in rest PROVE Keys[t] <= Keys[jj]
      <4>1. Order(Datum(t), Datum(jj)) = Keys[t] - Keys[jj] /\ Keys[t] \in Int /\ Keys[jj] \in Int
        BY <1>4, <1>5, <3>5
      <4> QED BY <3>5, <4>1
    <3> QED BY <3>5, <3>6
  <2>4. Within(c, u) /\ Within(c, t) /\ t \in Int /\ u + 1 \in Int
    BY <1>0, <1>2, <1>4, <2>3 DEF Within
  <2> HIDE DEF t
  <2>5. /\ Laid(lst', w) /\ lst'.numels = lst.numels /\ lst'.next = lst.next /\ SortBase'
        /\ \A x \in 0 .. n - 1 : Keys'[x] = Keys[IF x = u THEN t ELSE IF x = t THEN u ELSE x]
        /\ sorting'.at = "select" /\ sorting'.calls = calls /\ sorting'.unsorted = u + 1
    <3> DEFINE v == u + 1
    <3>1. v \in Int /\ sorting' = Further(sorting.at, calls, v, p, l, r)
      BY <2>2, <2>4
    <3> HIDE DEF v, u, p, l, r
    <3>2. Permuted(w, {u, t}, Swapped(u, t), v, p, l, r)
      BY <1>0, <2>1, <2>4, <3>1, SwapStep
    <3>3. \A x \in 0 .. n - 1 : Keys'[x] = Keys[IF x = u THEN t ELSE IF x = t THEN u ELSE x]
      <4>1. KeysSwapped(u, t)
        BY <3>2, SwapKeys
      <4> QED BY <4>1 DEF KeysSwapped
    <3> QED BY <1>0, <3>2, <3>3 DEF Permuted, v
  <2>6. Selected(Keys', c, u + 1)
    <3> DEFINE g == [x \in first .. last |-> IF x = u THEN t ELSE IF x = t THEN u ELSE x]
               m == Keys'
               kk == Keys
    <3>1. \A x \in first .. last : m[x] = kk[g[x]]
      BY <1>3, <2>5
    <3>2. g[u] = t /\ g[t] = u /\ \A x \in first .. last : x # u /\ x # t => g[x] = x
      <4>1. u \in first .. last /\ t \in first .. last
        BY <1>0, <1>2, <1>4, <2>3
      <4> HIDE DEF u, first, last, c
      <4>2. g[u] = t /\ g[t] = u
        BY <4>1
      <4> QED BY <4>2
    <3>3. u \in Int /\ c[1] \in Int /\ c[2] \in Int /\ Selected(kk, c, u) /\ u # c[2] /\ t \in u .. c[2]
          /\ \A jj \in u .. c[2] : kk[t] <= kk[jj]
      BY <1>0, <1>2, <1>7, <2>3
    <3> HIDE DEF g, m, kk, u, c
    <3>4. Selected(m, c, u + 1)
      BY <3>1, <3>2, <3>3, SelectedNext
    <3> QED BY <3>4 DEF m
  <2>7. StageHolds'
    BY <1>0, <2>5, <2>6 DEF StageHolds
  <2> QED BY <2>5, <2>7 DEF Kept, Sorting
<1> QED BY <1>6, <1>7

\* What the steps of a partition start from.
LEMMA PartTypes ==
  ASSUME Sorting, NEW w, Laid(lst, w), sorting.at \in {"partition", "left longer", "right longer"}
  PROVE  /\ SortBase /\ sorting \in Sorts /\ lst.numels \in Nat /\ sorting.calls # <<>>
         /\ Ranges(sorting.calls, lst.numels) /\ Settled(Keys, sorting.calls, lst.numels)
         /\ sorting.unsorted \in Int /\ sorting.pivot \in Int /\ sorting.left \in Int /\ sorting.right \in Int
         /\ Head(sorting.calls)[1] \in Int /\ Head(sorting.calls)[2] \in Int
         /\ 0 <= Head(sorting.calls)[1] /\ Head(sorting.calls)[2] < lst.numels
         /\ \A i \in Head(sorting.calls)[1] .. Head(sorting.calls)[2] :
              i \in 0 .. lst.numels - 1 /\ Keys[i] \in Int
         /\ \A i, jj \in Head(sorting.calls)[1] .. Head(sorting.calls)[2] :
              Order(Datum(i), Datum(jj)) = Keys[i] - Keys[jj]
<1> DEFINE n == lst.numels
           c == Head(sorting.calls)
<1>0. /\ SortBase /\ sorting \in Sorts /\ n \in Nat /\ sorting.calls # <<>>
      /\ Ranges(sorting.calls, n) /\ Settled(Keys, sorting.calls, n)
      /\ sorting.unsorted \in Int /\ sorting.pivot \in Int /\ sorting.left \in Int /\ sorting.right \in Int
  BY SortTypes DEF Sorting, StageHolds, SortBase
<1>1. c \in Int \X Int /\ 0 <= c[1] /\ c[1] <= c[2] /\ c[2] < n
  BY <1>0, SortTypes
<1>2. c[1] \in Int /\ c[2] \in Int
  BY <1>1
<1>3. \A i \in c[1] .. c[2] : i \in 0 .. n - 1
  <2> DEFINE a == c[1]
             b == c[2]
  <2>1. a \in Int /\ b \in Int /\ 0 <= a /\ b < n /\ n \in Nat
    BY <1>0, <1>1, <1>2
  <2> HIDE DEF a, b, n
  <2>2. \A i \in a .. b : i \in 0 .. n - 1
    BY ONLY <2>1
  <2> QED BY <2>2 DEF a, b
<1> HIDE DEF c
<1>4. /\ \A i \in c[1] .. c[2] : Keys[i] \in Int
      /\ \A i, jj \in c[1] .. c[2] : Order(Datum(i), Datum(jj)) = Keys[i] - Keys[jj]
  BY <1>0, <1>3, SortTypes
<1> QED BY <1>0, <1>1, <1>2, <1>3, <1>4 DEF c

\* A step of the loop that empties the left side.
LEMMA LeftLongerStep ==
  ASSUME Sorting, NEW w, Laid(lst, w), LeftLonger
  PROVE  Kept(w)
<1> DEFINE n == lst.numels
           calls == sorting.calls
           c == Head(calls)
           i == sorting.left
           p == sorting.pivot
           u == sorting.unsorted
           r == sorting.right
<1>0. /\ SortBase /\ sorting \in Sorts /\ n \in Nat /\ calls # <<>>
      /\ Ranges(calls, n) /\ Settled(Keys, calls, n)
      /\ u \in Int /\ p \in Int /\ i \in Int /\ r \in Int
      /\ c[1] \in Int /\ c[2] \in Int /\ 0 <= c[1] /\ c[2] < n
      /\ \A x \in c[1] .. c[2] : x \in 0 .. n - 1 /\ Keys[x] \in Int
      /\ \A x, y \in c[1] .. c[2] : Order(Datum(x), Datum(y)) = Keys[x] - Keys[y]
  BY PartTypes DEF LeftLonger
<1>1. sorting.at = "left longer" /\ i # p /\ Parted(Keys, c, i, p, p)
  BY DEF LeftLonger, Sorting, StageHolds
<1>2. c[1] <= i /\ i <= p /\ p <= c[2] /\ i < p
  <2>1. c[1] <= i /\ i <= p /\ p <= c[2]
    BY <1>1 DEF Parted
  <2>2. i < p
    <3>1. i \in Int /\ p \in Int /\ i <= p /\ i # p
      BY <1>0, <1>1, <2>1
    <3> HIDE DEF i, p
    <3> QED BY ONLY <3>1
  <2> QED BY <2>1, <2>2
<1>3. i \in c[1] .. c[2] /\ p \in c[1] .. c[2] /\ p - 1 \in c[1] .. c[2]
  BY <1>0, <1>2
<1>4. Order(Datum(i), Datum(p)) = Keys[i] - Keys[p] /\ Keys[i] \in Int /\ Keys[p] \in Int
  BY <1>0, <1>3
<1>5. "left longer" \in SortStages
  BY DEF SortStages
<1>6. CASE ~(Order(Datum(i), Datum(p)) > 0)
  <2>1. sorting' = [sorting EXCEPT !.left = i + 1] /\ lst' = lst
    BY <1>6 DEF LeftLonger
  <2> DEFINE l == i + 1
  <2>2. l \in Int /\ l \in i .. p
    BY <1>0, <1>2
  <2>3. sorting' = Further(sorting.at, calls, u, p, l, r)
    BY <1>0, <2>1, StepsFurther
  <2>4. Parted(Keys, c, l, p, p)
    <3>1. Keys[i] <= Keys[p]
      BY <1>4, <1>6
    <3>2. \A x \in i .. p : x < l => x = i
      BY <1>0
    <3>3. \A x \in i .. p : x < l => Keys[x] <= Keys[p]
      BY <3>1, <3>2
    <3>4. p \in p .. p /\ \A x \in p .. p : ~(p < x)
      BY <1>0
    <3> DEFINE kk == Keys
    <3> HIDE DEF l, c, i, p, kk
    <3>5. Parted(kk, c, i, p, p) /\ (\A x \in i .. p : x < l => kk[x] <= kk[p])
          /\ \A x \in p .. p : p < x => kk[p] <= kk[x]
      BY <1>1, <3>3, <3>4 DEF kk
    <3> QED BY <1>0, <2>2, <3>4, <3>5, PartedPassed DEF kk
  <2> HIDE DEF l
  <2>5. Sorting'
    <3> DEFINE at == sorting.at
    <3>1. at \in SortStages /\ at = "left longer"
      BY <1>1, <1>5
    <3> HIDE DEF at, c, u, p, r, n
    <3>2. sorting' = Further(at, calls, u, p, l, r)
      BY <2>3 DEF at
    <3> QED BY <1>0, <2>1, <2>2, <2>4, <3>1, <3>2, FurtherKept DEF c, n
  <2> QED BY <2>1, <2>5 DEF Kept
<1>7. CASE Order(Datum(i), Datum(p)) > 0
  <2>1. /\ Move(IF p - 1 = i THEN Swapped(i, p) ELSE Turned(i, p - 1, p))
        /\ sorting' = [sorting EXCEPT !.pivot = p - 1]
    BY <1>7 DEF LeftLonger, Turned
  <2> DEFINE q == p - 1
             g == [x \in c[1] .. c[2] |-> IF x = q THEN p ELSE IF x = p THEN i ELSE IF x = i THEN q ELSE x]
  <2>2. q \in Int /\ q # p /\ q \in c[1] .. c[2]
    BY <1>0, <1>3
  <2>3. sorting' = Further(sorting.at, calls, u, q, i, r)
    BY <1>0, <2>1, StepsFurther
  <2>4. Within(c, i) /\ Within(c, p) /\ Within(c, q)
    BY <1>0, <1>3, <2>2 DEF Within
  <2>5. Move(IF q = i THEN Swapped(i, p) ELSE Turned(i, q, p))
    BY <2>1
  <2>6. \A x \in c[1] .. c[2] : g[x] = IF x = q THEN p ELSE IF x = p THEN i ELSE IF x = i THEN q ELSE x
    OBVIOUS
  <2> HIDE DEF q, g
  <2>7. /\ Laid(lst', w) /\ lst'.numels = n /\ lst'.next = lst.next /\ SortBase'
        /\ \A x \in c[1] .. c[2] : Keys'[x] = Keys[g[x]]
        /\ sorting'.at = sorting.at /\ sorting'.calls = calls
        /\ sorting'.pivot = q /\ sorting'.left = i
    <3>1. CASE q = i
      <4>1. Move(Swapped(i, p))
        BY <2>5, <3>1
      <4> HIDE DEF i, p, u, r
      <4>2. Permuted(w, {i, p}, Swapped(i, p), u, q, i, r)
        BY <1>0, <2>2, <2>3, <2>4, <4>1, SwapStep
      <4>5. \A x \in 0 .. n - 1 : Keys'[x] = Keys[IF x = i THEN p ELSE IF x = p THEN i ELSE x]
        <5>1. KeysSwapped(i, p)
          BY <4>2, SwapKeys
        <5> QED BY <5>1 DEF KeysSwapped
      <4>3. \A x \in c[1] .. c[2] : g[x] = IF x = i THEN p ELSE IF x = p THEN i ELSE x
        BY <2>6, <3>1
      <4>4. \A x \in c[1] .. c[2] : Keys'[x] = Keys[g[x]]
        BY <1>0, <4>3, <4>5
      <4> QED BY <4>2, <4>4 DEF Permuted
    <3>2. CASE q # i
      <4>1. /\ Move(Turned(i, q, p)) /\ i # q /\ i # p /\ q # p
            /\ calls # <<>> /\ q \in Int /\ i \in Int /\ p \in Int /\ u \in Int /\ r \in Int
        BY <1>0, <1>1, <2>2, <2>5, <3>2
      <4> HIDE DEF i, p, u, r
      <4>2. Permuted(w, {i, q, p}, Turned(i, q, p), u, q, i, r)
        BY <2>3, <2>4, <4>1, TurnStep
      <4>5. \A x \in 0 .. n - 1 : Keys'[x] = Keys[IF x = i THEN q ELSE IF x = p THEN i ELSE IF x = q THEN p ELSE x]
        <5>1. KeysTurned(i, q, p)
          BY <4>1, <4>2, TurnKeys
        <5> QED BY <5>1 DEF KeysTurned
      <4>3. \A x \in c[1] .. c[2] : g[x] = IF x = i THEN q ELSE IF x = p THEN i ELSE IF x = q THEN p ELSE x
        BY <1>1, <2>2, <2>6, <3>2
      <4>4. \A x \in c[1] .. c[2] : Keys'[x] = Keys[g[x]]
        BY <1>0, <4>3, <4>5
      <4> QED BY <4>2, <4>4 DEF Permuted
    <3> QED BY <3>1, <3>2
  <2>8. Parted(Keys', c, i, q, q)
    <3> DEFINE m == Keys'
               kk == Keys
    <3>1. Keys[p] < Keys[i]
      BY <1>4, <1>7
    <3>2. g[q] = p /\ g[p] = i /\ \A x \in c[1] .. c[2] : x # i /\ x # q /\ x # p => g[x] = x
      BY <1>3, <2>2, <2>6
    <3>3. /\ \A x \in c[1] .. c[2] : kk[x] \in Int
          /\ Parted(kk, c, i, p, p) /\ kk[p] < kk[i]
          /\ \A x \in c[1] .. c[2] : m[x] = kk[g[x]]
          /\ c[1] \in Int /\ c[2] \in Int /\ i \in Int /\ p \in Int /\ i < p
      BY <1>0, <1>1, <1>2, <2>7, <3>1
    <3> HIDE DEF m, kk, c, i, p
    <3>4. Parted(m, c, i, p - 1, p - 1)
      BY <3>2, <3>3, PartedDown DEF q
    <3> QED BY <3>4 DEF m, q
  <2>9. StageHolds'
    BY <1>0, <1>1, <2>7, <2>8 DEF StageHolds
  <2> QED BY <2>7, <2>9 DEF Kept, Sorting
<1> QED BY <1>6, <1>7

\* A step of the loop that empties the right side.
LEMMA RightLongerStep ==
  ASSUME Sorting, NEW w, Laid(lst, w), RightLonger
  PROVE  Kept(w)
<1> DEFINE n == lst.numels
           calls == sorting.calls
           c == Head(calls)
           i == sorting.right
           p == sorting.pivot
           u == sorting.unsorted
           l == sorting.left
<1>0. /\ SortBase /\ sorting \in Sorts /\ n \in Nat /\ calls # <<>>
      /\ Ranges(calls, n) /\ Settled(Keys, calls, n)
      /\ u \in Int /\ p \in Int /\ i \in Int /\ l \in Int
      /\ c[1] \in Int /\ c[2] \in Int /\ 0 <= c[1] /\ c[2] < n
      /\ \A x \in c[1] .. c[2] : x \in 0 .. n - 1 /\ Keys[x] \in Int
      /\ \A x, y \in c[1] .. c[2] : Order(Datum(x), Datum(y)) = Keys[x] - Keys[y]
  BY PartTypes DEF RightLonger
<1>1. sorting.at = "right longer" /\ i # p /\ Parted(Keys, c, p, p, i)
  BY DEF RightLonger, Sorting, StageHolds
<1>2. c[1] <= p /\ p <= i /\ i <= c[2] /\ p < i
  <2>1. c[1] <= p /\ p <= i /\ i <= c[2]
    BY <1>1 DEF Parted
  <2>2. p < i
    <3>1. i \in Int /\ p \in Int /\ p <= i /\ i # p
      BY <1>0, <1>1, <2>1
    <3> HIDE DEF i, p
    <3> QED BY ONLY <3>1
  <2> QED BY <2>1, <2>2
<1>3. i \in c[1] .. c[2] /\ p \in c[1] .. c[2] /\ p + 1 \in c[1] .. c[2]
  BY <1>0, <1>2
<1>4. Order(Datum(i), Datum(p)) = Keys[i] - Keys[p] /\ Keys[i] \in Int /\ Keys[p] \in Int
  BY <1>0, <1>3
<1>5. "right longer" \in SortStages
  BY DEF SortStages
<1>6. CASE ~(Order(Datum(i), Datum(p)) < 0)
  <2>1. sorting' = [sorting EXCEPT !.right = i - 1] /\ lst' = lst
    BY <1>6 DEF RightLonger
  <2> DEFINE r == i - 1
  <2>2. r \in Int /\ r \in p .. i
    BY <1>0, <1>2
  <2>3. sorting' = Further(sorting.at, calls, u, p, l, r)
    BY <1>0, <2>1, StepsFurther
  <2>4. Parted(Keys, c, p, p, r)
    <3>1. Keys[p] <= Keys[i]
      BY <1>4, <1>6
    <3>2. \A x \in p .. i : r < x => x = i
      BY <1>0
    <3>3. \A x \in p .. i : r < x => Keys[p] <= Keys[x]
      BY <3>1, <3>2
    <3>4. p \in p .. p /\ \A x \in p .. p : ~(x < p)
      BY <1>0
    <3> DEFINE kk == Keys
    <3> HIDE DEF r, c, i, p, kk
    <3>5. Parted(kk, c, p, p, i) /\ (\A x \in p .. i : r < x => kk[p] <= kk[x])
          /\ \A x \in p .. p : x < p => kk[x] <= kk[p]
      BY <1>1, <3>3, <3>4 DEF kk
    <3> QED BY <1>0, <2>2, <3>4, <3>5, PartedPassed DEF kk
  <2> HIDE DEF r
  <2>5. Sorting'
    <3> DEFINE at == sorting.at
    <3>1. at \in SortStages /\ at = "right longer"
      BY <1>1, <1>5
    <3> HIDE DEF at, c, u, p, l, n
    <3>2. sorting' = Further(at, calls, u, p, l, r)
      BY <2>3 DEF at
    <3> QED BY <1>0, <2>1, <2>2, <2>4, <3>1, <3>2, FurtherKept DEF c, n
  <2> QED BY <2>1, <2>5 DEF Kept
<1>7. CASE Order(Datum(i), Datum(p)) < 0
  <2>1. /\ Move(IF p + 1 = i THEN Swapped(i, p) ELSE Turned(i, p + 1, p))
        /\ sorting' = [sorting EXCEPT !.pivot = p + 1]
    BY <1>7 DEF RightLonger, Turned
  <2> DEFINE q == p + 1
             g == [x \in c[1] .. c[2] |-> IF x = q THEN p ELSE IF x = p THEN i ELSE IF x = i THEN q ELSE x]
  <2>2. q \in Int /\ q # p /\ q \in c[1] .. c[2]
    BY <1>0, <1>3
  <2>3. sorting' = Further(sorting.at, calls, u, q, l, i)
    BY <1>0, <2>1, StepsFurther
  <2>4. Within(c, i) /\ Within(c, p) /\ Within(c, q)
    BY <1>0, <1>3, <2>2 DEF Within
  <2>5. Move(IF q = i THEN Swapped(i, p) ELSE Turned(i, q, p))
    BY <2>1
  <2>6. \A x \in c[1] .. c[2] : g[x] = IF x = q THEN p ELSE IF x = p THEN i ELSE IF x = i THEN q ELSE x
    OBVIOUS
  <2> HIDE DEF q, g
  <2>7. /\ Laid(lst', w) /\ lst'.numels = n /\ lst'.next = lst.next /\ SortBase'
        /\ \A x \in c[1] .. c[2] : Keys'[x] = Keys[g[x]]
        /\ sorting'.at = sorting.at /\ sorting'.calls = calls
        /\ sorting'.pivot = q /\ sorting'.right = i
    <3>1. CASE q = i
      <4>1. Move(Swapped(i, p))
        BY <2>5, <3>1
      <4> HIDE DEF i, p, u, l
      <4>2. Permuted(w, {i, p}, Swapped(i, p), u, q, l, i)
        BY <1>0, <2>2, <2>3, <2>4, <4>1, SwapStep
      <4>5. \A x \in 0 .. n - 1 : Keys'[x] = Keys[IF x = i THEN p ELSE IF x = p THEN i ELSE x]
        <5>1. KeysSwapped(i, p)
          BY <4>2, SwapKeys
        <5> QED BY <5>1 DEF KeysSwapped
      <4>3. \A x \in c[1] .. c[2] : g[x] = IF x = i THEN p ELSE IF x = p THEN i ELSE x
        BY <2>6, <3>1
      <4>4. \A x \in c[1] .. c[2] : Keys'[x] = Keys[g[x]]
        BY <1>0, <4>3, <4>5
      <4> QED BY <4>2, <4>4 DEF Permuted
    <3>2. CASE q # i
      <4>1. /\ Move(Turned(i, q, p)) /\ i # q /\ i # p /\ q # p
            /\ calls # <<>> /\ q \in Int /\ i \in Int /\ p \in Int /\ u \in Int /\ l \in Int
        BY <1>0, <1>1, <2>2, <2>5, <3>2
      <4> HIDE DEF i, p, u, l
      <4>2. Permuted(w, {i, q, p}, Turned(i, q, p), u, q, l, i)
        BY <2>3, <2>4, <4>1, TurnStep
      <4>5. \A x \in 0 .. n - 1 : Keys'[x] = Keys[IF x = i THEN q ELSE IF x = p THEN i ELSE IF x = q THEN p ELSE x]
        <5>1. KeysTurned(i, q, p)
          BY <4>1, <4>2, TurnKeys
        <5> QED BY <5>1 DEF KeysTurned
      <4>3. \A x \in c[1] .. c[2] : g[x] = IF x = i THEN q ELSE IF x = p THEN i ELSE IF x = q THEN p ELSE x
        BY <1>1, <2>2, <2>6, <3>2
      <4>4. \A x \in c[1] .. c[2] : Keys'[x] = Keys[g[x]]
        BY <1>0, <4>3, <4>5
      <4> QED BY <4>2, <4>4 DEF Permuted
    <3> QED BY <3>1, <3>2
  <2>8. Parted(Keys', c, q, q, i)
    <3> DEFINE m == Keys'
               kk == Keys
    <3>1. Keys[i] < Keys[p]
      BY <1>4, <1>7
    <3>2. g[q] = p /\ g[p] = i /\ \A x \in c[1] .. c[2] : x # i /\ x # q /\ x # p => g[x] = x
      BY <1>3, <2>2, <2>6
    <3>3. /\ \A x \in c[1] .. c[2] : kk[x] \in Int
          /\ Parted(kk, c, p, p, i) /\ kk[i] < kk[p]
          /\ \A x \in c[1] .. c[2] : m[x] = kk[g[x]]
          /\ c[1] \in Int /\ c[2] \in Int /\ i \in Int /\ p \in Int /\ p < i
      BY <1>0, <1>1, <1>2, <2>7, <3>1
    <3> HIDE DEF m, kk, c, i, p
    <3>4. Parted(m, c, p + 1, p + 1, i)
      BY <3>2, <3>3, PartedUp DEF q
    <3> QED BY <3>4 DEF m, q
  <2>9. StageHolds'
    BY <1>0, <1>1, <2>7, <2>8 DEF StageHolds
  <2> QED BY <2>7, <2>9 DEF Kept, Sorting
<1> QED BY <1>6, <1>7

\* Where the pointers stop: at the pivot, or at the first that is on the wrong side.
LEMMA StopsAt ==
  ASSUME NEW kk, NEW o, NEW l \in Int, NEW p \in Int, NEW r \in Int, l <= p, p <= r,
         \A i \in l .. r : kk[i] \in Int /\ o[i] = kk[i] - kk[p]
  PROVE  LET a == LeastOf({i \in l .. p : i = p \/ o[i] > 0})
             b == GreatestOf({i \in p .. r : i = p \/ o[i] < 0})
         IN /\ a \in l .. p /\ b \in p .. r
            /\ a # p => kk[p] < kk[a]
            /\ b # p => kk[b] < kk[p]
            /\ \A i \in l .. p : i < a => kk[i] <= kk[p]
            /\ \A i \in p .. r : b < i => kk[p] <= kk[i]
<1> DEFINE S == {i \in l .. p : i = p \/ o[i] > 0}
           T == {i \in p .. r : i = p \/ o[i] < 0}
           a == LeastOf(S)
           b == GreatestOf(T)
<1>1. /\ \A i \in l .. p : i \in l .. r
      /\ \A i \in p .. r : i \in l .. r
  OBVIOUS
<1>2. p \in S /\ p \in T /\ S \subseteq l .. p /\ T \subseteq p .. r
  OBVIOUS
<1>3. \A i : i \in S <=> i \in l .. p /\ (i = p \/ o[i] > 0)
  OBVIOUS
<1>4. \A i : i \in T <=> i \in p .. r /\ (i = p \/ o[i] < 0)
  OBVIOUS
<1> HIDE DEF S, T
<1>5. a \in S /\ \A jj \in S : a <= jj
  BY <1>2, LeastOfIs
<1>6. b \in T /\ \A jj \in T : b >= jj
  BY <1>2, GreatestOfIs
<1> HIDE DEF a, b
<1>7. kk[p] \in Int /\ \A i \in l .. r : kk[i] \in Int /\ o[i] = kk[i] - kk[p]
  BY <1>1, <1>2
<1>8. a \in l .. p /\ (a # p => kk[p] < kk[a])
  <2>1. a \in l .. p /\ (a = p \/ o[a] > 0)
    BY <1>3, <1>5
  <2>2. kk[a] \in Int /\ o[a] = kk[a] - kk[p]
    BY <1>1, <1>7, <2>1
  <2> QED BY <1>7, <2>1, <2>2
<1>9. b \in p .. r /\ (b # p => kk[b] < kk[p])
  <2>1. b \in p .. r /\ (b = p \/ o[b] < 0)
    BY <1>4, <1>6
  <2>2. kk[b] \in Int /\ o[b] = kk[b] - kk[p]
    BY <1>1, <1>7, <2>1
  <2> QED BY <1>7, <2>1, <2>2
<1>10. ASSUME NEW i \in l .. p, i < a PROVE kk[i] <= kk[p]
  <2>1. i \notin S
    BY <1>5, <1>8, <1>10
  <2>2. ~(o[i] > 0) /\ kk[i] \in Int /\ o[i] = kk[i] - kk[p]
    BY <1>1, <1>3, <1>7, <2>1
  <2> QED BY ONLY <1>7, <2>2
<1>11. ASSUME NEW i \in p .. r, b < i PROVE kk[p] <= kk[i]
  <2>1. i \notin T
    BY <1>6, <1>9, <1>11
  <2>2. ~(o[i] < 0) /\ kk[i] \in Int /\ o[i] = kk[i] - kk[p]
    BY <1>1, <1>4, <1>7, <2>1
  <2> QED BY ONLY <1>7, <2>2
<1> QED BY <1>8, <1>9, <1>10, <1>11 DEF a, b, S, T

\* A round of the loop that swaps pairs across the pivot.
LEMMA PartitionStepStep ==
  ASSUME Sorting, NEW w, Laid(lst, w), PartitionStep
  PROVE  Kept(w)
<1> DEFINE n == lst.numels
           calls == sorting.calls
           c == Head(calls)
           p == sorting.pivot
           u == sorting.unsorted
           l == sorting.left
           r == sorting.right
           o == [i \in c[1] .. c[2] |-> Order(Datum(i), Datum(p))]
           a == LeastOf({i \in l .. p : i = p \/ Order(Datum(i), Datum(p)) > 0})
           b == GreatestOf({i \in p .. r : i = p \/ Order(Datum(i), Datum(p)) < 0})
<1>0. /\ SortBase /\ sorting \in Sorts /\ n \in Nat /\ calls # <<>>
      /\ Ranges(calls, n) /\ Settled(Keys, calls, n)
      /\ u \in Int /\ p \in Int /\ l \in Int /\ r \in Int
      /\ c[1] \in Int /\ c[2] \in Int /\ 0 <= c[1] /\ c[2] < n
      /\ \A x \in c[1] .. c[2] : x \in 0 .. n - 1 /\ Keys[x] \in Int
      /\ \A x, y \in c[1] .. c[2] : Order(Datum(x), Datum(y)) = Keys[x] - Keys[y]
  BY PartTypes DEF PartitionStep
<1>1. sorting.at = "partition" /\ Parted(Keys, c, l, p, r)
  BY DEF PartitionStep, Sorting, StageHolds
<1>2. c[1] <= l /\ l <= p /\ p <= r /\ r <= c[2]
  BY <1>1 DEF Parted
<1>3. p \in c[1] .. c[2] /\ \A i \in l .. r : i \in c[1] .. c[2]
  <2>1. c[1] \in Int /\ c[2] \in Int /\ p \in Int /\ l \in Int /\ r \in Int
    BY <1>0
  <2> HIDE DEF l, p, r, c
  <2> QED BY ONLY <1>2, <2>1
<1>4. /\ a \in l .. p /\ b \in p .. r
      /\ a # p => Keys[p] < Keys[a]
      /\ b # p => Keys[b] < Keys[p]
      /\ \A i \in l .. p : i < a => Keys[i] <= Keys[p]
      /\ \A i \in p .. r : b < i => Keys[p] <= Keys[i]
  <2> DEFINE kk == Keys
             S == {i \in l .. p : i = p \/ o[i] > 0}
             T == {i \in p .. r : i = p \/ o[i] < 0}
  <2>1. \A i \in c[1] .. c[2] : o[i] = Order(Datum(i), Datum(p))
    OBVIOUS
  <2>2. \A i \in l .. r : kk[i] \in Int /\ o[i] = kk[i] - kk[p]
    BY <1>0, <1>3, <2>1
  <2>3. \A i \in l .. r : o[i] = Order(Datum(i), Datum(p))
    BY <1>3, <2>1
  <2>4. /\ \A i \in l .. p : i \in l .. r
        /\ \A i \in p .. r : i \in l .. r
    <3>1. p \in Int /\ l \in Int /\ r \in Int /\ l <= p /\ p <= r
      BY <1>0, <1>2
    <3> HIDE DEF l, p, r
    <3> QED BY ONLY <3>1
  <2> HIDE DEF o, l, p, r, kk
  <2>5. S = {i \in l .. p : i = p \/ Order(Datum(i), Datum(p)) > 0}
    BY <2>3, <2>4
  <2>6. T = {i \in p .. r : i = p \/ Order(Datum(i), Datum(p)) < 0}
    BY <2>3, <2>4
  <2>7. a = LeastOf(S) /\ b = GreatestOf(T)
    BY <2>5, <2>6
  <2>8. l \in Int /\ p \in Int /\ r \in Int /\ l <= p /\ p <= r
    BY <1>0, <1>2
  <2>9. /\ LeastOf(S) \in l .. p /\ GreatestOf(T) \in p .. r
        /\ LeastOf(S) # p => kk[p] < kk[LeastOf(S)]
        /\ GreatestOf(T) # p => kk[GreatestOf(T)] < kk[p]
        /\ \A i \in l .. p : i < LeastOf(S) => kk[i] <= kk[p]
        /\ \A i \in p .. r : GreatestOf(T) < i => kk[p] <= kk[i]
    BY <2>2, <2>8, StopsAt
  <2> HIDE DEF a, b, S, T
  <2> QED BY <2>7, <2>9 DEF kk
<1>5. Parted(Keys, c, a, p, b)
  <2> DEFINE kk == Keys
  <2>1. /\ Parted(kk, c, l, p, r) /\ a \in l .. p /\ b \in p .. r
        /\ \A i \in l .. p : i < a => kk[i] <= kk[p]
        /\ \A i \in p .. r : b < i => kk[p] <= kk[i]
        /\ c[1] \in Int /\ c[2] \in Int /\ p \in Int /\ l \in Int /\ r \in Int
    BY <1>0, <1>1, <1>4
  <2> HIDE DEF kk, a, b, c, p, l, r
  <2> QED BY <2>1, PartedPassed DEF kk
<1>6. a \in Int /\ b \in Int
  BY <1>0, <1>4
<1>7. /\ (l = p \/ r = p) =>
           /\ sorting' = [sorting EXCEPT !.at = IF r = p THEN "left longer" ELSE "right longer"]
           /\ lst' = lst
      /\ ~(l = p \/ r = p) /\ (a = p \/ b = p) =>
           sorting' = [sorting EXCEPT !.left = a, !.right = b] /\ lst' = lst
      /\ ~(l = p \/ r = p) /\ ~(a = p \/ b = p) =>
           /\ Move(Swapped(a, b))
           /\ sorting' = [sorting EXCEPT !.left = a + 1, !.right = b - 1]
  BY DEF PartitionStep
<1> HIDE DEF a, b, o
<1>8. CASE l = p \/ r = p
  <2> DEFINE at == IF r = p THEN "left longer" ELSE "right longer"
  <2>1. sorting' = [sorting EXCEPT !.at = at] /\ lst' = lst
    BY <1>7, <1>8
  <2>2. at \in SortStages /\ at # "call" /\ at # "select" /\ at # "partition"
    BY DEF SortStages
  <2>3. at = "left longer" => Parted(Keys, c, l, p, p)
    <3>1. CASE r = p
      BY <1>1, <3>1
    <3> QED BY <3>1
  <2>4. at = "right longer" => Parted(Keys, c, p, p, r)
    <3>1. CASE r # p
      BY <1>1, <1>8, <3>1
    <3> QED BY <3>1
  <2> HIDE DEF at
  <2>5. sorting' = Further(at, calls, u, p, l, r)
    BY <1>0, <2>1, StepsFurther
  <2>6. Sorting'
    <3> HIDE DEF c, p, u, l, r, n
    <3> QED BY <1>0, <2>1, <2>2, <2>3, <2>4, <2>5, FurtherKept DEF c, n
  <2> QED BY <2>1, <2>6 DEF Kept
<1>9. CASE ~(l = p \/ r = p) /\ (a = p \/ b = p)
  <2>1. sorting' = [sorting EXCEPT !.left = a, !.right = b] /\ lst' = lst
    BY <1>7, <1>9
  <2>2. sorting' = Further(sorting.at, calls, u, p, a, b)
    BY <1>0, <2>1, StepsFurther
  <2>3. "partition" \in SortStages
    BY DEF SortStages
  <2>4. Sorting'
    <3> DEFINE at == sorting.at
    <3>1. at = "partition" /\ at \in SortStages
      BY <1>1, <2>3
    <3> HIDE DEF at, c, p, u, l, r, n
    <3>2. sorting' = Further(at, calls, u, p, a, b)
      BY <2>2 DEF at
    <3> QED BY <1>0, <1>5, <1>6, <2>1, <3>1, <3>2, FurtherKept DEF c, n
  <2> QED BY <2>1, <2>4 DEF Kept
<1>10. CASE ~(l = p \/ r = p) /\ ~(a = p \/ b = p)
  <2>1. Move(Swapped(a, b)) /\ sorting' = [sorting EXCEPT !.left = a + 1, !.right = b - 1]
    BY <1>7, <1>10
  <2> DEFINE d == a + 1
             e == b - 1
  <2>2. d \in Int /\ e \in Int
    BY <1>6
  <2>3. sorting' = Further(sorting.at, calls, u, p, d, e)
    BY <1>0, <2>1, StepsFurther
  <2>4. c[1] <= a /\ a <= p /\ p <= b /\ b <= c[2]
    BY <1>5 DEF Parted
  <2>5. a < p /\ p < b /\ a \in c[1] .. c[2] /\ b \in c[1] .. c[2]
    <3>1. a # p /\ b # p /\ a \in Int /\ b \in Int /\ p \in Int /\ c[1] \in Int /\ c[2] \in Int
      BY <1>0, <1>6, <1>10
    <3> HIDE DEF p, c
    <3> QED BY ONLY <2>4, <3>1
  <2>6. Within(c, a) /\ Within(c, b)
    BY <2>4, <2>5 DEF Within
  <2> HIDE DEF d, e
  <2>7. /\ Laid(lst', w) /\ lst'.numels = n /\ lst'.next = lst.next /\ SortBase'
        /\ \A x \in 0 .. n - 1 : Keys'[x] = Keys[IF x = a THEN b ELSE IF x = b THEN a ELSE x]
        /\ sorting'.at = sorting.at /\ sorting'.calls = sorting.calls
        /\ sorting'.pivot = p /\ sorting'.left = d /\ sorting'.right = e
    <3>1. calls # <<>> /\ u \in Int /\ p \in Int /\ d \in Int /\ e \in Int /\ a \in Int /\ b \in Int
      BY <1>0, <1>6, <2>2
    <3> HIDE DEF u, p
    <3>2. Permuted(w, {a, b}, Swapped(a, b), u, p, d, e)
      BY <2>1, <2>3, <2>6, <3>1, SwapStep
    <3>3. \A x \in 0 .. n - 1 : Keys'[x] = Keys[IF x = a THEN b ELSE IF x = b THEN a ELSE x]
      <4>1. KeysSwapped(a, b)
        BY <3>2, SwapKeys
      <4> QED BY <4>1 DEF KeysSwapped
    <3> QED BY <3>2, <3>3 DEF Permuted
  <2>8. Parted(Keys', c, d, p, e)
    <3> DEFINE g == [x \in c[1] .. c[2] |-> IF x = a THEN b ELSE IF x = b THEN a ELSE x]
               m == Keys'
               kk == Keys
    <3>1. \A x \in c[1] .. c[2] : g[x] = IF x = a THEN b ELSE IF x = b THEN a ELSE x
      OBVIOUS
    <3> HIDE DEF g
    <3>2. \A x \in c[1] .. c[2] : m[x] = kk[g[x]]
      BY <1>0, <2>7, <3>1
    <3>3. g[a] = b /\ g[b] = a /\ \A x \in c[1] .. c[2] : x # a /\ x # b => g[x] = x
      BY <2>5, <3>1
    <3>4. /\ \A x \in c[1] .. c[2] : kk[x] \in Int
          /\ Parted(kk, c, a, p, b) /\ a < p /\ p < b /\ kk[p] < kk[a] /\ kk[b] < kk[p]
          /\ c[1] \in Int /\ c[2] \in Int /\ a \in Int /\ p \in Int /\ b \in Int
      BY <1>0, <1>4, <1>5, <1>6, <1>10, <2>5
    <3> HIDE DEF m, kk, c, p
    <3>5. Parted(m, c, a + 1, p, b - 1)
      BY <3>2, <3>3, <3>4, PartedSwapped
    <3> QED BY <3>5 DEF m, d, e
  <2>9. StageHolds'
    BY <1>0, <1>1, <2>7, <2>8 DEF StageHolds
  <2> QED BY <2>7, <2>9 DEF Kept, Sorting
<1> QED BY <1>8, <1>9, <1>10

-----------------------------------------------------------------------------
(* The invariant *)

\* What an iterator holds of a list whose entries are w.
Iterates(w) ==
  /\ iter \in [active : BOOLEAN, pos : 0 .. MaxElems, curentry : Pointers]
  /\ iter.active => iter.pos <= lst.numels /\ iter.curentry = w[iter.pos + 1]

\* The entries are w, and an iterator or a sort that runs is in order, never both.
ListHolds(w) ==
  /\ Laid(lst, w) /\ lst.numels <= MaxElems
  /\ Iterates(w)
  /\ sorting.at = "idle" \/ (~iter.active /\ Sorting)

ListInv == \E w : ListHolds(w)

\* It holds of the empty list.
LEMMA ListInitHolds == ListInit => ListInv
<1> SUFFICES ASSUME ListInit PROVE ListInv
  OBVIOUS
<1> DEFINE w == [i \in 0 .. 1 |-> IF i = 0 THEN HEAD ELSE TAIL]
<1>1. lst = list_init /\ iter = NotIterating /\ sorting = NotSorting
  BY DEF ListInit
<1>2. Laid(lst, w) /\ lst.numels = 0
  BY <1>1, InitLaid
<1>3. lst.numels <= MaxElems /\ 0 \in 0 .. MaxElems /\ NIL \in Pointers
  BY <1>2, PointerFacts
<1> HIDE DEF w
<1>4. Iterates(w)
  BY <1>1, <1>3 DEF Iterates, NotIterating
<1>5. sorting.at = "idle"
  BY <1>1 DEF NotSorting
<1> QED BY <1>2, <1>3, <1>4, <1>5 DEF ListInv, ListHolds

\* An operation that leaves a list in order keeps it.
LEMMA ChangeHolds ==
  ASSUME NEW w, ListHolds(w), Changeable, NEW v, Laid(lst', v), lst'.numels <= MaxElems,
         UNCHANGED <<iter, sorting>>
  PROVE  ListInv'
<1>1. iter' = iter /\ sorting' = sorting /\ ~iter.active /\ sorting.at = "idle"
  BY DEF Changeable
<1>2. Iterates(v)'
  BY <1>1 DEF Iterates, ListHolds
<1>3. ListHolds(v)'
  BY <1>1, <1>2 DEF ListHolds
<1> QED BY <1>3 DEF ListInv

\* An insertion keeps it.
LEMMA InsertKeeps ==
  ASSUME NEW w, ListHolds(w), NEW d \in ListValues, NEW pos \in 0 .. MaxElems, Insert(d, pos)
  PROVE  ListInv'
<1>1. /\ Changeable /\ lst.numels < MaxElems /\ pos <= lst.numels /\ lst' = list_insert_at(lst, d, pos)
      /\ UNCHANGED <<iter, sorting>>
  BY DEF Insert
<1>2. Laid(lst, w) /\ lst.numels \in Nat /\ pos \in Nat /\ MaxElems \in Nat
  BY SimclistAssumption DEF ListHolds, Laid, Lists
<1>3. Laid(lst', Grown(w, lst.numels, pos, Lent(lst))) /\ lst'.numels = lst.numels + 1
  BY <1>1, <1>2, InsertIs
<1>4. lst'.numels <= MaxElems
  BY <1>1, <1>2, <1>3
<1> QED BY <1>1, <1>3, <1>4, ChangeHolds

\* So does a deletion.
LEMMA DeleteAtKeeps ==
  ASSUME NEW w, ListHolds(w), NEW pos \in Nat, DeleteAt(pos)
  PROVE  ListInv'
<1>1. /\ Changeable /\ pos < lst.numels /\ lst' = list_delete_at(lst, pos)
      /\ UNCHANGED <<iter, sorting>>
  BY DEF DeleteAt
<1>2. Laid(lst, w) /\ lst.numels \in Nat /\ MaxElems \in Nat /\ lst.numels <= MaxElems
  BY SimclistAssumption DEF ListHolds, Laid, Lists
<1>3. Laid(lst', Rest(w, lst.numels, pos, 1)) /\ lst'.numels = lst.numels - 1
  BY <1>1, <1>2, DeleteAtIs
<1>4. lst'.numels <= MaxElems
  BY <1>2, <1>3
<1> QED BY <1>1, <1>3, <1>4, ChangeHolds

\* An element that is found is at a position.
LEMMA LocateIs ==
  ASSUME NEW l, l.numels \in Nat, NEW d, list_locate(l, d) >= 0
  PROVE  list_locate(l, d) \in Nat
<1> DEFINE held == {i \in Positions(l) : l.data[Steps(l.next, HEAD, i + 1)] = d}
<1>1. held \subseteq Nat
  BY DEF Positions
<1>2. list_locate(l, d) = IF held = {} THEN -1 ELSE CHOOSE i \in held : \A jj \in held : i <= jj
  BY DEF list_locate
<1> HIDE DEF held
<1>3. held # {}
  BY <1>2
<1>4. \E i \in held : \A jj \in held : i <= jj
  BY <1>1, <1>3, LeastNumber
<1>5. list_locate(l, d) \in held
  BY <1>2, <1>3, <1>4
<1> QED BY <1>1, <1>5

\* So does the deletion of a range.
LEMMA DeleteRangeKeeps ==
  ASSUME NEW w, ListHolds(w), NEW posstart \in Nat, NEW posend \in Nat, DeleteRange(posstart, posend)
  PROVE  ListInv'
<1>1. /\ Changeable /\ posstart <= posend /\ posend < lst.numels
      /\ lst' = list_delete_range(lst, posstart, posend) /\ UNCHANGED <<iter, sorting>>
  BY DEF DeleteRange
<1>2. Laid(lst, w) /\ lst.numels \in Nat /\ MaxElems \in Nat /\ lst.numels <= MaxElems
  BY SimclistAssumption DEF ListHolds, Laid, Lists
<1>3. PICK v : /\ Laid(list_delete_range(lst, posstart, posend), v)
               /\ list_delete_range(lst, posstart, posend).numels = lst.numels - (posend - posstart + 1)
  BY <1>1, <1>2, DeleteRangeIs
<1>4. Laid(lst', v) /\ lst'.numels = lst.numels - (posend - posstart + 1)
  BY <1>1, <1>3
<1>5. lst'.numels <= MaxElems
  BY <1>1, <1>2, <1>4
<1> QED BY <1>1, <1>4, <1>5, ChangeHolds

\* So does a deletion of everything.
LEMMA ClearKeeps ==
  ASSUME NEW w, ListHolds(w), Clear
  PROVE  ListInv'
<1>1. Changeable /\ lst' = list_clear(lst) /\ UNCHANGED <<iter, sorting>>
  BY DEF Clear
<1>2. Laid(lst, w)
  BY DEF ListHolds
<1>3. PICK v : Laid(list_clear(lst), v) /\ list_clear(lst).numels = 0
  BY <1>2, ClearIs
<1>4. Laid(lst', v) /\ lst'.numels = 0
  BY <1>1, <1>3
<1>5. lst'.numels <= MaxElems
  BY <1>4, SimclistAssumption
<1> QED BY <1>1, <1>4, <1>5, ChangeHolds

\* An iterator that starts, goes on or stops.
LEMMA IteratorKeeps ==
  ASSUME NEW w, ListHolds(w), list_iterator_start \/ list_iterator_next \/ list_iterator_stop
  PROVE  ListInv'
<1>0. /\ Laid(lst, w) /\ lst.numels \in Nat /\ lst.numels <= MaxElems /\ MaxElems \in Nat /\ Linked(lst, w)
      /\ iter \in [active : BOOLEAN, pos : 0 .. MaxElems, curentry : Pointers]
  BY SimclistAssumption DEF ListHolds, Laid, Lists, Iterates
<1>1. \A i \in 0 .. lst.numels + 1 : w[i] \in Pointers
  BY <1>0 DEF Linked
<1>2. lst' = lst /\ sorting' = sorting
  BY DEF list_iterator_start, list_iterator_next, list_iterator_stop
<1>3. Laid(lst', w) /\ lst'.numels <= MaxElems /\ lst'.numels = lst.numels
  BY <1>0, <1>2
<1>4. CASE list_iterator_start
  <2>1. iter' = [active |-> TRUE, pos |-> 0, curentry |-> lst.next[HEAD]] /\ sorting.at = "idle"
    BY <1>4 DEF list_iterator_start, Changeable
  <2>2. lst.next[HEAD] = w[0 + 1] /\ w[0 + 1] \in Pointers
    BY <1>0, <1>1 DEF Linked
  <2>3. 0 <= lst.numels /\ 0 \in 0 .. MaxElems
    BY <1>0
  <2>4. Iterates(w)'
    BY <1>3, <2>1, <2>2, <2>3 DEF Iterates
  <2>5. ListHolds(w)'
    BY <1>2, <1>3, <2>1, <2>4 DEF ListHolds
  <2> QED BY <2>5 DEF ListInv
<1>5. CASE list_iterator_next
  <2>1. /\ iter.active /\ iter.pos < lst.numels
        /\ iter' = [iter EXCEPT !.curentry = lst.next[@], !.pos = @ + 1]
    BY <1>5 DEF list_iterator_next, list_iterator_hasnext
  <2>2. sorting.at = "idle" /\ iter.curentry = w[iter.pos + 1] /\ iter.pos \in 0 .. MaxElems
    BY <2>1 DEF ListHolds, Iterates
  <2> DEFINE i == iter.pos
  <2>3. i \in Nat /\ i < lst.numels
    BY <2>1, <2>2
  <2>4. iter' = [active |-> iter.active, pos |-> i + 1, curentry |-> lst.next[iter.curentry]]
    BY <1>0, <2>1
  <2> HIDE DEF i
  <2>5. /\ i + 1 \in 0 .. lst.numels /\ i + 1 \in 0 .. MaxElems /\ i + 1 <= lst.numels
        /\ (i + 1) + 1 \in 0 .. lst.numels + 1
    BY <1>0, <2>3
  <2>6. lst.next[w[i + 1]] = w[(i + 1) + 1] /\ w[(i + 1) + 1] \in Pointers
    BY <1>0, <1>1, <2>5 DEF Linked
  <2>7. Iterates(w)'
    BY <1>0, <1>3, <2>1, <2>2, <2>4, <2>5, <2>6 DEF Iterates, i
  <2>8. ListHolds(w)'
    BY <1>2, <1>3, <2>2, <2>7 DEF ListHolds
  <2> QED BY <2>8 DEF ListInv
<1>6. CASE list_iterator_stop
  <2>1. iter' = NotIterating /\ sorting.at = "idle"
    BY <1>6 DEF list_iterator_stop, ListHolds
  <2>2. Iterates(w)'
    BY <1>0, <2>1, PointerFacts DEF Iterates, NotIterating
  <2>3. ListHolds(w)'
    BY <1>2, <1>3, <2>1, <2>2 DEF ListHolds
  <2> QED BY <2>3 DEF ListInv
<1> QED BY <1>4, <1>5, <1>6

\* A sort that starts, and every step of one.
LEMMA SortKeeps ==
  ASSUME NEW w, ListHolds(w),
         \/ \E versus \in {-1, 1} : list_sort(versus)
         \/ SortCall \/ SelectionStep \/ PartitionStep \/ LeftLonger \/ RightLonger \/ Recurse \/ SortReturn
  PROVE  ListInv'
<1>0. Laid(lst, w)
  BY DEF ListHolds
<1>1. iter' = iter
  BY DEF list_sort, SortCall, SelectionStep, PartitionStep, LeftLonger, RightLonger, Recurse, SortReturn
<1>2. ~iter.active /\ Kept(w)
  <2>1. CASE \E versus \in {-1, 1} : list_sort(versus)
    <3>1. PICK versus \in {-1, 1} : list_sort(versus)
      BY <2>1
    <3>2. ~iter.active
      BY <3>1 DEF list_sort, Changeable
    <3> QED BY <1>0, <3>1, <3>2, SortStartStep
  <2>2. CASE SortCall \/ SelectionStep \/ PartitionStep \/ LeftLonger \/ RightLonger \/ Recurse \/ SortReturn
    <3>1. sorting.at # "idle"
      BY <2>2 DEF SortCall, SelectionStep, PartitionStep, LeftLonger, RightLonger, Recurse, SortReturn
    <3>2. ~iter.active /\ Sorting
      BY <3>1 DEF ListHolds
    <3> QED BY <1>0, <2>2, <3>2, SortCallStep, SelectionStepStep, PartitionStepStep, LeftLongerStep,
               RightLongerStep, RecurseStep, SortReturnStep
  <2> QED BY <2>1, <2>2
<1>3. Laid(lst', w) /\ lst'.numels = lst.numels /\ (sorting'.at = "idle" \/ Sorting')
  BY <1>2 DEF Kept
<1>4. Iterates(w)' /\ lst'.numels <= MaxElems
  BY <1>1, <1>3 DEF ListHolds, Iterates
<1>5. ListHolds(w)'
  BY <1>1, <1>2, <1>3, <1>4 DEF ListHolds
<1> QED BY <1>5 DEF ListInv

\* Every step keeps it.
LEMMA ListNextHolds == ListInv /\ [ListNext]_listVars => ListInv'
<1> SUFFICES ASSUME ListInv, [ListNext]_listVars PROVE ListInv'
  OBVIOUS
<1>0. PICK w : ListHolds(w)
  BY DEF ListInv
<1>1. ASSUME NEW d \in ListValues, NEW pos \in 0 .. MaxElems, Insert(d, pos) PROVE ListInv'
  BY <1>0, <1>1, InsertKeeps
<1>2. ASSUME NEW pos \in 0 .. MaxElems, DeleteAt(pos) PROVE ListInv'
  <2>1. pos \in Nat
    OBVIOUS
  <2> QED BY <1>0, <1>2, <2>1, DeleteAtKeeps
<1>3. ASSUME NEW d \in ListValues, Delete(d) PROVE ListInv'
  <2>1. list_locate(lst, d) >= 0 /\ DeleteAt(list_locate(lst, d))
    BY <1>3 DEF Delete
  <2>2. lst.numels \in Nat
    BY <1>0 DEF ListHolds, Laid, Lists
  <2>3. list_locate(lst, d) \in Nat
    BY <2>1, <2>2, LocateIs
  <2> QED BY <1>0, <2>1, <2>3, DeleteAtKeeps
<1>4. ASSUME NEW posstart \in 0 .. MaxElems, NEW posend \in 0 .. MaxElems, DeleteRange(posstart, posend)
      PROVE  ListInv'
  <2>1. posstart \in Nat /\ posend \in Nat
    OBVIOUS
  <2> QED BY <1>0, <1>4, <2>1, DeleteRangeKeeps
<1>5. CASE Clear
  BY <1>0, <1>5, ClearKeeps
<1>6. CASE list_iterator_start \/ list_iterator_next \/ list_iterator_stop
  BY <1>0, <1>6, IteratorKeeps
<1>7. CASE \/ \E versus \in {-1, 1} : list_sort(versus)
           \/ SortCall \/ SelectionStep \/ PartitionStep \/ LeftLonger \/ RightLonger \/ Recurse \/ SortReturn
  BY <1>0, <1>7, SortKeeps
<1>8. CASE UNCHANGED listVars
  <2>1. lst' = lst /\ iter' = iter /\ sorting' = sorting
    BY <1>8 DEF listVars
  <2>2. (sorting.at = "idle" \/ Sorting) => (sorting.at = "idle" \/ Sorting)'
    <3>1. \A i : Datum(i)' = Datum(i)
      BY ONLY <2>1 DEF Datum, Entry
    <3>2. Keys' = Keys /\ SameElements' = SameElements
      BY ONLY <2>1, <3>1 DEF Keys, SameElements
    <3>3. Sorts' = Sorts
      BY ONLY <2>1 DEF Sorts
    <3>4. SortBase' = SortBase
      BY ONLY <2>1, <3>2, <3>3 DEF SortBase
    <3>5. StageHolds' = StageHolds
      BY ONLY <2>1, <3>2 DEF StageHolds
    <3> QED BY <2>1, <3>4, <3>5 DEF Sorting
  <2>3. ListHolds(w)'
    BY <1>0, <2>1, <2>2 DEF ListHolds, Iterates
  <2> QED BY <2>3 DEF ListInv
<1> QED BY <1>1, <1>2, <1>3, <1>4, <1>5, <1>6, <1>7, <1>8 DEF ListNext

\* The invariant gives the property: the entry of the iterator and the sort that is done among it.
LEMMA ListInvSequences == ListInv => ListsAreSequences
<1> SUFFICES ASSUME ListInv PROVE ListsAreSequences
  OBVIOUS
<1>0. PICK w : ListHolds(w)
  BY DEF ListInv
<1>1. Laid(lst, w) /\ lst.numels \in Nat /\ Linked(lst, w)
  BY <1>0 DEF ListHolds, Laid, Lists
<1>2. RepOk(lst) /\ WalksArrive /\ OperationsAgree /\ ConcatAgrees
  BY <1>1, LaidAgrees, LaidConcat
<1>3. IteratorInPlace
  <2> SUFFICES ASSUME iter.active PROVE iter.curentry = Steps(lst.next, HEAD, iter.pos + 1)
    BY DEF IteratorInPlace
  <2>1. iter.pos <= lst.numels /\ iter.curentry = w[iter.pos + 1] /\ iter.pos \in 0 .. MaxElems
    BY <1>0 DEF ListHolds, Iterates
  <2>2. iter.pos + 1 \in 0 .. lst.numels + 1
    BY <1>1, <2>1
  <2> QED BY <1>1, <2>1, <2>2, FromHead
<1>4. SortSorts
  <2> SUFFICES ASSUME sorting.at = "call", sorting.calls = <<>>
               PROVE  /\ \A i \in 1 .. lst.numels - 1 : Order(Datum(i - 1), Datum(i)) <= 0
                      /\ SameElements
    BY DEF SortSorts, SameElements
  <2>1. Sorting
    BY <1>0 DEF ListHolds
  <2>2. SortBase /\ SameElements /\ Settled(Keys, <<>>, lst.numels)
    BY <2>1 DEF Sorting, SortBase
  <2>3. ASSUME NEW i \in 1 .. lst.numels - 1 PROVE Order(Datum(i - 1), Datum(i)) <= 0
    <3> DEFINE h == i - 1
    <3>1. h \in 0 .. lst.numels - 1 /\ i \in 0 .. lst.numels - 1 /\ h < i
      BY <1>1
    <3> HIDE DEF h
    <3>2. Order(Datum(h), Datum(i)) = Keys[h] - Keys[i] /\ Keys[h] \in Int /\ Keys[i] \in Int
      BY <1>1, <2>2, <3>1, SortTypes
    <3>3. \A a \in 1 .. Len(<<>>) : FALSE
      OBVIOUS
    <3>4. Keys[h] <= Keys[i]
      BY <2>2, <3>1, <3>3 DEF Settled
    <3>5. Order(Datum(h), Datum(i)) <= 0
      BY ONLY <3>2, <3>4
    <3> QED BY <3>5 DEF h
  <2> QED BY <2>2, <2>3
<1> QED BY <1>2, <1>3, <1>4 DEF ListsAreSequences

\* The invariant gives the types.
LEMMA ListInvTypes == ListInv => ListTypeOK
<1> SUFFICES ASSUME ListInv PROVE ListTypeOK
  OBVIOUS
<1>0. PICK w : ListHolds(w)
  BY DEF ListInv
<1>1. lst \in Lists /\ lst.numels <= MaxElems /\ MaxElems \in Nat
  BY <1>0, SimclistAssumption DEF ListHolds, Laid
<1>2. /\ lst.next \in [Pointers -> Pointers] /\ lst.prev \in [Pointers -> Pointers]
      /\ lst.data \in [Pointers -> ListValues \cup {NIL}]
      /\ lst.mid \in Pointers /\ lst.numels \in Nat /\ lst.spareels \in Seq(ListEntries)
  BY <1>1 DEF Lists
<1>3. lst.numels \in 0 .. MaxElems
  BY <1>1, <1>2
<1>4. iter.active \in BOOLEAN /\ iter.pos \in 0 .. MaxElems /\ iter.curentry \in Pointers
  BY <1>0 DEF ListHolds, Iterates
<1>5. sorting.at \in {"idle", "call", "select", "partition", "left longer", "right longer"}
  BY <1>0 DEF ListHolds, Sorting, SortBase, Sorts, SortStages
<1> QED BY <1>2, <1>3, <1>4, <1>5 DEF ListTypeOK

\* A list behaves as a sequence (simclist.c): whatever the insertions, deletions, iterations and
\* sorts before, its representation is sound, every walk arrives, each operation does what it would
\* do to a sequence, and a sort returns with the same elements in order. For lists of any length.
THEOREM ListsStaySequences == ListSpec => []ListsAreSequences
<1>1. ListInit => ListInv
  BY ListInitHolds
<1>2. ListInv /\ [ListNext]_listVars => ListInv'
  BY ListNextHolds
<1>3. ListInv => ListsAreSequences
  BY ListInvSequences
<1> QED BY <1>1, <1>2, <1>3, PTL DEF ListSpec

\* The fields of the list_t, of its iterator and of the sort keep their types.
THEOREM ListTypesHold == ListSpec => []ListTypeOK
<1>1. ListInit => ListInv
  BY ListInitHolds
<1>2. ListInv /\ [ListNext]_listVars => ListInv'
  BY ListNextHolds
<1>3. ListInv => ListTypeOK
  BY ListInvTypes
<1> QED BY <1>1, <1>2, <1>3, PTL DEF ListSpec

-----------------------------------------------------------------------------
(* The router *)

\* The hardware is known and the routing table agrees with it (sr_verify_routing_table).
Verified == sr.routing_table # {} /\ sr.routing_table \subseteq sr.if_list

\* What may be on its way to the router: of requests, those that were asked.
Requests ==
  {m \in {Packet(iface, <<"request", tip>>) : iface \in Ifaces, tip \in Ifaces} :
     <<m.iface, m.frame[2]>> \in asked}
OtherFrames == {Packet(iface, <<kind>>) : iface \in Ifaces, kind \in {"reply", "ip"}}
DownMsgs ==
  {Msg(type) : type \in {"AUTH_REQUEST", "AUTH_STATUS", "RTABLE", "CLOSE"}}
    \cup [type : {"HWINFO"}, interfaces : SUBSET Ifaces] \cup Requests \cup OtherFrames

\* What may be on its way from it: replies only to what was asked, and only once verified.
Returning == {iface \in Ifaces : Verified /\ <<iface, iface>> \in asked}
Replies == {Packet(iface, <<"reply", iface>>) : iface \in Returning}
UpMsgs == {Msg(type) : type \in {"AUTH_REPLY", "OPEN", "OPEN_TEMPLATE"}} \cup Replies

Stages == {"start", "connecting", "AUTH_REQUEST", "AUTH_STATUS", "RTABLE", "loop",
           "exited", "aborted", "crashed", "spins"}
SessionTypes ==
  /\ sr \in [at : Stages, if_list : SUBSET Ifaces, routing_table : SUBSET UNION RtFiles,
             file : RtFiles, template : BOOLEAN]
  /\ vns \in [listed : BOOLEAN, interfaces : SUBSET Ifaces, lost : BOOLEAN]
  /\ asked \subseteq Ifaces \X Ifaces
  /\ frames \in 0 .. MaxFrames

\* The table is the file's or empty, and a router that knows its hardware and has not
\* exited has found that they agree.
TableInv ==
  /\ sr.routing_table \in {{}, sr.file}
  /\ sr.at = "start" => sr.if_list = {}
  /\ sr.if_list # {} /\ sr.at # "exited" => Verified

AnsweredInv == answered \subseteq {<<iface, iface>> : iface \in Returning}

SessionInv ==
  /\ SessionTypes
  /\ TableInv
  /\ down \in Seq(DownMsgs)
  /\ up \in Seq(UpMsgs)
  /\ AnsweredInv

-----------------------------------------------------------------------------
(* Sequences *)

LEMMA Larger ==
  ASSUME NEW S, NEW T, S \subseteq T, NEW s \in Seq(S)
  PROVE  s \in Seq(T)
<1>1. s \in [1 .. Len(s) -> S] /\ Len(s) \in Nat
  OBVIOUS
<1>2. s \in [1 .. Len(s) -> T]
  BY <1>1
<1> QED BY <1>1, <1>2, SeqDef

LEMMA Taken ==
  ASSUME NEW S, NEW s \in Seq(S), s # <<>>
  PROVE  Head(s) \in S /\ Tail(s) \in Seq(S)
OBVIOUS

LEMMA Sent ==
  ASSUME NEW S, NEW s \in Seq(S), NEW m \in S
  PROVE  Append(s, m) \in Seq(S) /\ <<m>> \in Seq(S)
OBVIOUS

LEMMA Joined ==
  ASSUME NEW S, NEW s \in Seq(S), NEW t \in Seq(S)
  PROVE  s \o t \in Seq(S)
OBVIOUS

-----------------------------------------------------------------------------
(* Steps *)

\* What may be on its way stays so as requests are asked and the hardware becomes known.
LEMMA Grows ==
  ASSUME asked \subseteq asked', Verified => Verified'
  PROVE  DownMsgs \subseteq DownMsgs' /\ UpMsgs \subseteq UpMsgs' /\ Returning \subseteq Returning'
<1>1. Requests \subseteq Requests' /\ OtherFrames' = OtherFrames
  BY DEF Requests, OtherFrames, Packet
<1>2. Returning \subseteq Returning'
  BY DEF Returning
<1>3. Replies \subseteq Replies'
  BY <1>2 DEF Replies, Packet
<1>4. DownMsgs \subseteq DownMsgs'
  BY <1>1 DEF DownMsgs, Msg
<1>5. UpMsgs \subseteq UpMsgs'
  BY <1>3 DEF UpMsgs, Msg
<1> QED BY <1>2, <1>4, <1>5

\* A packet at the head of `down` is a frame of a host, of `up` a reply.
LEMMA HeadOfDown ==
  ASSUME SessionInv, down # <<>>
  PROVE  /\ Head(down).type = "HWINFO" => Head(down).interfaces \subseteq Ifaces
         /\ Head(down).type = "PACKET" /\ Head(down).frame[1] = "request"
              => <<Head(down).iface, Head(down).frame[2]>> \in asked
<1>1. Head(down) \in DownMsgs
  BY Taken DEF SessionInv
<1>2. CASE Head(down) \in Requests
  BY <1>2 DEF Requests, Packet, SessionInv, SessionTypes
<1>3. CASE Head(down) \in OtherFrames
  <2>1. PICK iface \in Ifaces, kind \in {"reply", "ip"} : Head(down) = Packet(iface, <<kind>>)
    BY <1>3 DEF OtherFrames
  <2>2. Head(down).type = "PACKET" /\ Head(down).frame = <<kind>>
    BY <2>1 DEF Packet
  <2>3. <<kind>>[1] # "request"
    OBVIOUS
  <2> QED BY <2>2, <2>3
<1>4. CASE Head(down) \in [type : {"HWINFO"}, interfaces : SUBSET Ifaces]
  BY <1>4
<1>5. CASE \E type \in {"AUTH_REQUEST", "AUTH_STATUS", "RTABLE", "CLOSE"} : Head(down) = Msg(type)
  BY <1>5 DEF Msg
<1> QED BY <1>1, <1>2, <1>3, <1>4, <1>5 DEF DownMsgs

LEMMA HeadOfUp ==
  ASSUME SessionInv, up # <<>>, Head(up).type = "PACKET"
  PROVE  \E iface \in Returning : Head(up).iface = iface /\ Head(up).frame[2] = iface
<1>1. Head(up) \in UpMsgs
  BY Taken DEF SessionInv
<1>2. CASE Head(up) \in Replies
  <2>1. PICK iface \in Returning : Head(up) = Packet(iface, <<"reply", iface>>)
    BY <1>2 DEF Replies
  <2>2. Head(up).iface = iface /\ Head(up).frame = <<"reply", iface>>
    BY <2>1 DEF Packet
  <2>3. <<"reply", iface>>[2] = iface
    OBVIOUS
  <2> QED BY <2>2, <2>3
<1>3. CASE \E type \in {"AUTH_REPLY", "OPEN", "OPEN_TEMPLATE"} : Head(up) = Msg(type)
  BY <1>3 DEF Msg
<1> QED BY <1>1, <1>2, <1>3 DEF UpMsgs

LEMMA InitHolds == RouterInit => SessionInv
<1> SUFFICES ASSUME RouterInit PROVE SessionInv
  OBVIOUS
<1>1. SessionTypes
  BY RouterAssumption DEF RouterInit, SessionTypes, Stages
<1>2. TableInv
  BY DEF RouterInit, TableInv
<1>3. down \in Seq(DownMsgs) /\ up \in Seq(UpMsgs) /\ AnsweredInv
  BY DEF RouterInit, AnsweredInv
<1> QED BY <1>1, <1>2, <1>3 DEF SessionInv

\* What is on its way and what has been answered stays in order while the hardware stays known.
LEMMA Stays ==
  ASSUME SessionInv, asked \subseteq asked', Verified => Verified'
  PROVE  /\ \A s \in Seq(DownMsgs) : s \in Seq(DownMsgs')
         /\ \A s \in Seq(UpMsgs) : s \in Seq(UpMsgs')
         /\ answered' = answered => AnsweredInv'
<1>1. DownMsgs \subseteq DownMsgs' /\ UpMsgs \subseteq UpMsgs' /\ Returning \subseteq Returning'
  BY Grows
<1>2. ASSUME NEW s \in Seq(DownMsgs) PROVE s \in Seq(DownMsgs')
  BY <1>1, Larger
<1>3. ASSUME NEW s \in Seq(UpMsgs) PROVE s \in Seq(UpMsgs')
  BY <1>1, Larger
<1>4. answered' = answered => AnsweredInv'
  BY <1>1 DEF SessionInv, AnsweredInv
<1> QED BY <1>2, <1>3, <1>4

\* The server's steps leave the router alone.
LEMMA ServerStep ==
  ASSUME SessionInv, UNCHANGED sr,
         asked \subseteq asked', asked' \subseteq Ifaces \X Ifaces,
         vns' \in [listed : BOOLEAN, interfaces : SUBSET Ifaces, lost : BOOLEAN],
         frames' \in 0 .. MaxFrames,
         down' \in Seq(DownMsgs'), up' \in Seq(UpMsgs'), AnsweredInv'
  PROVE  SessionInv'
<1>1. SessionTypes'
  BY DEF SessionInv, SessionTypes
<1>2. TableInv'
  BY DEF SessionInv, TableInv, Verified
<1> QED BY <1>1, <1>2 DEF SessionInv

\* The router's steps leave the server alone.
LEMMA RouterStep ==
  ASSUME SessionInv, UNCHANGED <<vns, asked, answered, frames>>,
         sr' \in [at : Stages, if_list : SUBSET Ifaces, routing_table : SUBSET UNION RtFiles,
                 file : RtFiles, template : BOOLEAN],
         TableInv', Verified => Verified', down' \in Seq(DownMsgs), up' \in Seq(UpMsgs')
  PROVE  SessionInv'
<1>1. SessionTypes'
  BY DEF SessionInv, SessionTypes
<1>2. AnsweredInv' /\ down' \in Seq(DownMsgs')
  BY Stays
<1> QED BY <1>1, <1>2 DEF SessionInv

\* A router that only moves on to another stage.
LEMMA StageStep ==
  ASSUME SessionInv, UNCHANGED <<vns, asked, answered, frames>>,
         NEW where \in Stages \ {"start", "exited"}, Goes(where), sr.at # "exited",
         down' \in Seq(DownMsgs), up' \in Seq(UpMsgs')
  PROVE  SessionInv'
<1>1. /\ sr' \in [at : Stages, if_list : SUBSET Ifaces, routing_table : SUBSET UNION RtFiles,
                 file : RtFiles, template : BOOLEAN]
      /\ sr'.at = where /\ sr'.if_list = sr.if_list /\ sr'.file = sr.file
      /\ sr'.routing_table = sr.routing_table
  BY DEF SessionInv, SessionTypes, Goes
<1>2. Verified' <=> Verified
  BY <1>1 DEF Verified
<1>3. TableInv'
  BY <1>1, <1>2 DEF SessionInv, TableInv
<1> QED BY <1>1, <1>2, <1>3, RouterStep

\* A router that ends.
LEMMA ExitStep ==
  ASSUME SessionInv, UNCHANGED <<vns, asked, answered, frames>>, Goes("exited"),
         down' \in Seq(DownMsgs), up' = up
  PROVE  SessionInv'
<1>1. /\ sr' \in [at : Stages, if_list : SUBSET Ifaces, routing_table : SUBSET UNION RtFiles,
                 file : RtFiles, template : BOOLEAN]
      /\ sr'.at = "exited" /\ sr'.if_list = sr.if_list /\ sr'.file = sr.file
      /\ sr'.routing_table = sr.routing_table
  BY DEF SessionInv, SessionTypes, Goes, Stages
<1>2. Verified' <=> Verified
  BY <1>1 DEF Verified
<1>3. TableInv'
  BY <1>1, <1>2 DEF SessionInv, TableInv
<1>4. up' \in Seq(UpMsgs')
  BY <1>2, Stays DEF SessionInv
<1> QED BY <1>1, <1>2, <1>3, <1>4, RouterStep

LEMMA ServerSteps ==
  ASSUME SessionInv,
         \/ handle_RouterInfo \/ handle_auth_reply \/ handle_open_msg \/ handle_open_template_msg
         \/ handle_SRPacketIn \/ handle_packet_msg \/ ServerEnds
  PROVE  SessionInv'
<1>1. /\ SessionTypes /\ down \in Seq(DownMsgs) /\ up \in Seq(UpMsgs) /\ AnsweredInv
  BY DEF SessionInv
<1>2. ASSUME UNCHANGED <<sr, asked>>
      PROVE  /\ \A s \in Seq(DownMsgs) : s \in Seq(DownMsgs')
             /\ \A s \in Seq(UpMsgs) : s \in Seq(UpMsgs')
             /\ answered' = answered => AnsweredInv'
  BY <1>2, Stays DEF Verified
<1>3. ASSUME NEW type \in {"AUTH_STATUS", "CLOSE", "RTABLE"} PROVE Msg(type) \in DownMsgs
  BY DEF DownMsgs
<1>4. ASSUME NEW ifs \in SUBSET Ifaces
      PROVE  [type |-> "HWINFO", interfaces |-> ifs] \in DownMsgs
  BY DEF DownMsgs
<1>5. \A type : Received(type) => Tail(up) \in Seq(UpMsgs)
  BY <1>1, Taken DEF Received
<1>6. CASE handle_RouterInfo
  <2>1. UNCHANGED <<sr, down, up, asked, answered, frames>> /\ vns' = [vns EXCEPT !.interfaces = Ifaces]
    BY <1>6 DEF handle_RouterInfo
  <2>2. vns' \in [listed : BOOLEAN, interfaces : SUBSET Ifaces, lost : BOOLEAN]
    BY <1>1, <2>1 DEF SessionTypes
  <2> QED BY <1>1, <1>2, <2>1, <2>2, ServerStep DEF SessionTypes
<1>7. CASE handle_auth_reply
  <2>1. UNCHANGED <<sr, vns, asked, answered, frames>> /\ up' \in Seq(UpMsgs)
    BY <1>5, <1>7 DEF handle_auth_reply
  <2>2. down' \in Seq(DownMsgs)
    BY <1>1, <1>3, <1>7, Sent, Joined DEF handle_auth_reply, ToRouter
  <2> QED BY <1>1, <1>2, <2>1, <2>2, ServerStep DEF SessionTypes
<1>8. CASE handle_open_msg
  <2>1. UNCHANGED <<sr, vns, asked, answered, frames>> /\ up' \in Seq(UpMsgs)
    BY <1>5, <1>8 DEF handle_open_msg
  <2>2. [type |-> "HWINFO", interfaces |-> vns.interfaces] \in DownMsgs
    BY <1>1, <1>4 DEF SessionTypes
  <2>3. <<[type |-> "HWINFO", interfaces |-> vns.interfaces]>> \in Seq(DownMsgs)
    BY <1>1, <2>2, Sent
  <2>4. down' \in Seq(DownMsgs)
    <3>1. \/ down' = down \/ down' = down \o <<>>
          \/ down' = down \o <<[type |-> "HWINFO", interfaces |-> vns.interfaces]>>
      BY <1>8 DEF handle_open_msg, ToRouter
    <3>2. <<>> \in Seq(DownMsgs)
      OBVIOUS
    <3> QED BY <1>1, <2>3, <3>1, <3>2, Joined
  <2> QED BY <1>1, <1>2, <2>1, <2>4, ServerStep DEF SessionTypes
<1>9. CASE handle_open_template_msg
  <2>1. UNCHANGED <<sr, asked, answered, frames>> /\ up' \in Seq(UpMsgs)
    BY <1>5, <1>9 DEF handle_open_template_msg
  <2>2. vns' = vns \/ vns' = [vns EXCEPT !.lost = TRUE]
    BY <1>9 DEF handle_open_template_msg
  <2>3. vns' \in [listed : BOOLEAN, interfaces : SUBSET Ifaces, lost : BOOLEAN]
    BY <1>1, <2>2 DEF SessionTypes
  <2>4. <<Msg("RTABLE"), [type |-> "HWINFO", interfaces |-> Ifaces]>> \in Seq(DownMsgs)
    <3>1. Msg("RTABLE") \in DownMsgs /\ [type |-> "HWINFO", interfaces |-> Ifaces] \in DownMsgs
      BY <1>3, <1>4
    <3> QED BY <3>1
  <2>5. down' \in Seq(DownMsgs)
    <3>1. down' = down
          \/ down' = down \o <<Msg("RTABLE"), [type |-> "HWINFO", interfaces |-> Ifaces]>>
      BY <1>9 DEF handle_open_template_msg, ToRouter
    <3> QED BY <1>1, <2>4, <3>1, Joined
  <2> QED BY <1>1, <1>2, <2>1, <2>3, <2>5, ServerStep DEF SessionTypes
<1>10. CASE handle_SRPacketIn
  <2>1. UNCHANGED <<sr, up, vns, answered>> /\ frames' = frames + 1 /\ frames < MaxFrames
    BY <1>10 DEF handle_SRPacketIn
  <2>2. PICK iface \in Ifaces,
             frame \in {<<"request", tip>> : tip \in Ifaces} \cup {<<"reply">>, <<"ip">>} :
               /\ ToRouter(<<Packet(iface, frame)>>)
               /\ asked' = IF frame[1] = "request" THEN asked \cup {<<iface, frame[2]>>} ELSE asked
    BY <1>10 DEF handle_SRPacketIn
  <2>3. /\ asked \subseteq asked' /\ asked' \subseteq Ifaces \X Ifaces
        /\ Packet(iface, frame) \in DownMsgs'
    <3>1. CASE \E tip \in Ifaces : frame = <<"request", tip>>
      <4>1. PICK tip \in Ifaces : frame = <<"request", tip>>
        BY <3>1
      <4>2. frame[1] = "request" /\ frame[2] = tip
        BY <4>1
      <4>3. asked' = asked \cup {<<iface, tip>>}
        BY <2>2, <4>2
      <4>4. Packet(iface, frame).iface = iface /\ Packet(iface, frame).frame = frame
        BY DEF Packet
      <4>5. Packet(iface, frame) \in Requests'
        BY <4>1, <4>2, <4>3, <4>4 DEF Requests
      <4> QED BY <1>1, <4>3, <4>5 DEF SessionTypes, DownMsgs
    <3>2. CASE frame \in {<<"reply">>, <<"ip">>}
      <4>1. frame[1] # "request"
        BY <3>2
      <4>2. asked' = asked
        BY <2>2, <4>1
      <4>3. \E kind \in {"reply", "ip"} : frame = <<kind>>
        BY <3>2
      <4>4. Packet(iface, frame) \in OtherFrames'
        BY <4>3 DEF OtherFrames
      <4> QED BY <1>1, <4>2, <4>4 DEF SessionTypes, DownMsgs
    <3> QED BY <3>1, <3>2
  <2>4. Verified' <=> Verified
    BY <2>1 DEF Verified
  <2>5. down \in Seq(DownMsgs') /\ up \in Seq(UpMsgs') /\ AnsweredInv'
    BY <1>1, <2>1, <2>3, <2>4, Stays
  <2>6. down' \in Seq(DownMsgs')
    <3>1. <<Packet(iface, frame)>> \in Seq(DownMsgs')
      BY <2>3, <2>5, Sent
    <3>2. down' = down \/ down' = down \o <<Packet(iface, frame)>>
      BY <2>2 DEF ToRouter
    <3> QED BY <2>5, <3>1, <3>2, Joined
  <2>7. frames' \in 0 .. MaxFrames
    BY <1>1, <2>1, RouterAssumption DEF SessionTypes
  <2>8. vns' \in [listed : BOOLEAN, interfaces : SUBSET Ifaces, lost : BOOLEAN]
    BY <1>1, <2>1 DEF SessionTypes
  <2>9. up' \in Seq(UpMsgs')
    BY <2>1, <2>5
  <2> QED BY <2>1, <2>3, <2>5, <2>6, <2>7, <2>8, <2>9, ServerStep
<1>11. CASE handle_packet_msg
  <2>1. UNCHANGED <<sr, down, vns, asked, frames>> /\ up' \in Seq(UpMsgs)
    BY <1>5, <1>11 DEF handle_packet_msg
  <2>2. answered' = answered \cup {<<Head(up).iface, Head(up).frame[2]>>}
    BY <1>11 DEF handle_packet_msg
  <2>3. \E iface \in Returning : Head(up).iface = iface /\ Head(up).frame[2] = iface
    BY <1>11, HeadOfUp DEF handle_packet_msg, Received
  <2>4. answered' \subseteq {<<iface, iface>> : iface \in Returning}
    BY <1>1, <2>2, <2>3 DEF AnsweredInv
  <2>5. Returning' = Returning
    BY <2>1 DEF Returning, Verified
  <2>6. AnsweredInv'
    BY <2>4, <2>5 DEF AnsweredInv
  <2> QED BY <1>1, <1>2, <2>1, <2>6, ServerStep DEF SessionTypes
<1>12. CASE ServerEnds
  <2>1. UNCHANGED <<sr, up, asked, answered, frames>> /\ vns' = [vns EXCEPT !.lost = TRUE]
    BY <1>12 DEF ServerEnds
  <2>2. vns' \in [listed : BOOLEAN, interfaces : SUBSET Ifaces, lost : BOOLEAN]
    BY <1>1, <2>1 DEF SessionTypes
  <2>3. down' \in Seq(DownMsgs)
    BY <1>1, <1>3, <1>12, Sent DEF ServerEnds
  <2> QED BY <1>1, <1>2, <2>1, <2>2, <2>3, ServerStep DEF SessionTypes
<1> QED BY <1>6, <1>7, <1>8, <1>9, <1>10, <1>11, <1>12

LEMMA RouterSteps ==
  ASSUME SessionInv,
         \/ handle_new_client \/ Start \/ EndOfStream \/ Unexpected \/ sr_handle_auth_request
         \/ sr_handle_auth_status \/ sr_handle_rtable \/ sr_handle_hwinfo \/ NoInterface
         \/ handle_arpreq_recieved \/ handle_arprep \/ DropIP
  PROVE  SessionInv'
<1>1. /\ SessionTypes /\ TableInv /\ down \in Seq(DownMsgs) /\ up \in Seq(UpMsgs)
  BY DEF SessionInv
<1>2. ASSUME Verified => Verified', asked' = asked
      PROVE  \A s \in Seq(UpMsgs) : s \in Seq(UpMsgs')
  BY <1>2, Stays
<1>3. \A type : Reads(type) => /\ Tail(down) \in Seq(DownMsgs) /\ down' = Tail(down)
                               /\ sr.at \in {"AUTH_REQUEST", "AUTH_STATUS", "RTABLE", "loop"}
                               /\ UNCHANGED <<vns, asked, answered, frames>>
                               /\ down # <<>> /\ Head(down).type = type
  BY <1>1, Taken DEF Reads, Reading
<1>4. ASSUME NEW where, Goes(where)
      PROVE  Verified' <=> Verified
  <2>1. sr'.if_list = sr.if_list /\ sr'.routing_table = sr.routing_table
    BY <1>1, <1>4 DEF Goes, SessionTypes
  <2> QED BY <2>1 DEF Verified
<1>5. ASSUME NEW type \in {"AUTH_REPLY", "OPEN", "OPEN_TEMPLATE"}, ToServer(Msg(type)),
             Verified => Verified', asked' = asked
      PROVE  up' \in Seq(UpMsgs')
  <2>1. Msg(type) \in UpMsgs'
    BY DEF UpMsgs
  <2>2. up \in Seq(UpMsgs')
    BY <1>1, <1>2, <1>5
  <2> QED BY <1>5, <2>1, <2>2, Sent DEF ToServer
<1>6. CASE handle_new_client
  <2>1. /\ vns' = [vns EXCEPT !.listed = TRUE] /\ Goes("AUTH_REQUEST") /\ sr.at = "connecting"
        /\ UNCHANGED <<up, asked, answered, frames>>
    BY <1>6 DEF handle_new_client, Goes
  <2>2. Msg("AUTH_REQUEST") \in DownMsgs
    BY DEF DownMsgs
  <2>3. down' \in Seq(DownMsgs)
    BY <1>1, <1>6, <2>2, Sent, Joined DEF handle_new_client, ToRouter
  <2>4. vns' \in [listed : BOOLEAN, interfaces : SUBSET Ifaces, lost : BOOLEAN]
    BY <1>1, <2>1 DEF SessionTypes
  <2>5. /\ sr' \in [at : Stages, if_list : SUBSET Ifaces, routing_table : SUBSET UNION RtFiles,
                   file : RtFiles, template : BOOLEAN]
        /\ sr'.at = "AUTH_REQUEST" /\ sr'.if_list = sr.if_list /\ sr'.file = sr.file
        /\ sr'.routing_table = sr.routing_table
    BY <1>1, <2>1 DEF Goes, SessionTypes, Stages
  <2>6. Verified' <=> Verified
    BY <2>5 DEF Verified
  <2>7. TableInv'
    BY <1>1, <2>1, <2>5, <2>6 DEF TableInv
  <2>8. down' \in Seq(DownMsgs') /\ up' \in Seq(UpMsgs') /\ AnsweredInv'
    BY <1>1, <2>1, <2>3, <2>6, Stays
  <2>9. SessionTypes'
    BY <1>1, <2>1, <2>4, <2>5 DEF SessionTypes
  <2> QED BY <2>7, <2>8, <2>9 DEF SessionInv
<1>7. CASE Start
  <2>1. /\ UNCHANGED <<down, up, vns, asked, answered, frames>> /\ sr.at = "start"
        /\ sr' = [sr EXCEPT !.at = "connecting",
                            !.routing_table = IF sr.template THEN {} ELSE sr.file]
    BY <1>7 DEF Start, sr_load_rt
  <2>2. /\ sr' \in [at : Stages, if_list : SUBSET Ifaces, routing_table : SUBSET UNION RtFiles,
                   file : RtFiles, template : BOOLEAN]
        /\ sr'.if_list = sr.if_list /\ sr'.file = sr.file /\ sr'.at = "connecting"
        /\ sr'.routing_table \in {{}, sr.file}
    BY <1>1, <2>1 DEF SessionTypes, Stages
  <2>3. sr.if_list = {}
    BY <1>1, <2>1 DEF TableInv
  <2>4. ~Verified
    BY <2>3 DEF Verified
  <2>5. TableInv'
    BY <2>2, <2>3 DEF TableInv
  <2>6. up' \in Seq(UpMsgs')
    BY <1>1, <1>2, <2>1, <2>4
  <2> QED BY <1>1, <2>1, <2>2, <2>4, <2>5, <2>6, RouterStep
<1>8. CASE EndOfStream
  <2>1. Goes("spins") /\ UNCHANGED <<down, up, vns, asked, answered, frames>> /\ sr.at # "exited"
    BY <1>8 DEF EndOfStream, Reading
  <2>2. up' \in Seq(UpMsgs')
    BY <1>1, <1>2, <1>4, <2>1
  <2> QED BY <1>1, <2>1, <2>2, StageStep DEF Stages
<1>9. CASE Unexpected
  <2>1. PICK type \in {"AUTH_STATUS", "RTABLE", "HWINFO", "PACKET", "CLOSE"} :
          Reads(type) /\ Goes("exited") /\ UNCHANGED up
    BY <1>9 DEF Unexpected
  <2> QED BY <1>3, <2>1, ExitStep
<1>10. CASE sr_handle_auth_request
  <2>1. Reads("AUTH_REQUEST")
    BY <1>10 DEF sr_handle_auth_request
  <2>2. CASE ToServer(Msg("AUTH_REPLY")) /\ Goes("AUTH_STATUS")
    <3>1. up' \in Seq(UpMsgs')
      BY <1>3, <1>4, <1>5, <2>1, <2>2
    <3>2. sr.at # "exited"
      BY <1>3, <2>1
    <3> QED BY <1>3, <2>1, <2>2, <3>1, <3>2, StageStep DEF Stages
  <2>3. CASE Goes("exited") /\ UNCHANGED up
    BY <1>3, <2>1, <2>3, ExitStep
  <2> QED BY <1>10, <2>2, <2>3 DEF sr_handle_auth_request
<1>11. CASE sr_handle_auth_status
  <2>1. /\ Reads("AUTH_STATUS") /\ \E where \in {"RTABLE", "loop"} : Goes(where)
        /\ \E type \in {"OPEN", "OPEN_TEMPLATE"} : ToServer(Msg(type))
    BY <1>11 DEF sr_handle_auth_status, OpenSession
  <2>2. PICK where \in {"RTABLE", "loop"} : Goes(where)
    BY <2>1
  <2>3. up' \in Seq(UpMsgs')
    BY <1>3, <1>4, <1>5, <2>1, <2>2
  <2>4. sr.at # "exited"
    BY <1>3, <2>1
  <2> QED BY <1>3, <2>1, <2>2, <2>3, <2>4, StageStep DEF Stages
<1>12. CASE sr_handle_rtable
  <2>1. /\ Reads("RTABLE") /\ UNCHANGED up
        /\ sr' = [sr EXCEPT !.at = "loop", !.routing_table = sr.file]
    BY <1>12 DEF sr_handle_rtable, sr_load_rt
  <2>2. sr.at \notin {"start", "exited"} /\ UNCHANGED <<vns, asked, answered, frames>>
        /\ down' \in Seq(DownMsgs)
    BY <1>3, <2>1
  <2>3. /\ sr' \in [at : Stages, if_list : SUBSET Ifaces, routing_table : SUBSET UNION RtFiles,
                   file : RtFiles, template : BOOLEAN]
        /\ sr'.at = "loop" /\ sr'.if_list = sr.if_list /\ sr'.file = sr.file
        /\ sr'.routing_table = sr.file
    BY <1>1, <2>1 DEF SessionTypes, Stages
  <2>4. Verified => Verified'
    BY <1>1, <2>3 DEF TableInv, Verified
  <2>5. TableInv'
    BY <1>1, <2>2, <2>3, <2>4 DEF TableInv
  <2>6. up' \in Seq(UpMsgs')
    BY <1>1, <1>2, <2>1, <2>2, <2>4
  <2> QED BY <2>2, <2>3, <2>4, <2>5, <2>6, RouterStep
<1>13. CASE sr_handle_hwinfo
  <2> DEFINE ifs == sr.if_list \cup Head(down).interfaces
  <2>1. /\ Reads("HWINFO") /\ UNCHANGED up
        /\ sr' = [sr EXCEPT !.if_list = ifs,
                            !.at = IF sr_verify_routing_table(ifs) THEN "loop" ELSE "exited"]
    BY <1>13 DEF sr_handle_hwinfo, sr_add_interfaces
  <2>2. UNCHANGED <<vns, asked, answered, frames>> /\ down' \in Seq(DownMsgs)
    BY <1>3, <2>1
  <2>3. ifs \subseteq Ifaces
    BY <1>1, <1>3, <2>1, HeadOfDown DEF SessionTypes
  <2>4. /\ sr' \in [at : Stages, if_list : SUBSET Ifaces, routing_table : SUBSET UNION RtFiles,
                   file : RtFiles, template : BOOLEAN]
        /\ sr'.if_list = ifs /\ sr'.file = sr.file /\ sr'.routing_table = sr.routing_table
        /\ sr'.at = IF sr_verify_routing_table(ifs) THEN "loop" ELSE "exited"
    BY <1>1, <2>1, <2>3 DEF SessionTypes, Stages
  <2>5. Verified => Verified'
    BY <2>4 DEF Verified
  <2>6. sr'.at = "loop" => Verified'
    BY <2>4 DEF Verified, sr_verify_routing_table
  <2>7. TableInv'
    BY <1>1, <2>4, <2>6 DEF TableInv
  <2>8. up' \in Seq(UpMsgs')
    BY <1>1, <1>2, <2>1, <2>2, <2>5
  <2> QED BY <2>2, <2>4, <2>5, <2>7, <2>8, RouterStep
<1>14. CASE NoInterface
  <2>1. Reads("PACKET") /\ Goes("aborted") /\ UNCHANGED up
    BY <1>14 DEF NoInterface
  <2>2. sr.at # "exited" /\ up' \in Seq(UpMsgs')
    BY <1>1, <1>2, <1>3, <1>4, <2>1
  <2> QED BY <1>3, <2>1, <2>2, StageStep DEF Stages
<1>15. CASE handle_arpreq_recieved
  <2>1. /\ Reads("PACKET") /\ Wanted("PACKET") /\ sr_get_interface(Iface)
        /\ Frame[1] = "request" /\ UNCHANGED sr
        /\ \/ /\ Frame[2] = Iface
              /\ ToServer(Packet(Frame[2], <<"reply", Frame[2]>>))
           \/ UNCHANGED up
    BY <1>15 DEF handle_arpreq_recieved, ReadsFrame, sr_arp_req_not_for_us
  <2>2. sr.at = "loop" /\ UNCHANGED <<vns, asked, answered, frames>> /\ down' \in Seq(DownMsgs)
    BY <1>3, <2>1 DEF Wanted
  <2>3. Verified' <=> Verified
    BY <2>1 DEF Verified
  <2>4. TableInv'
    BY <1>1, <2>1, <2>3 DEF TableInv
  <2>5. CASE /\ Frame[2] = Iface
             /\ ToServer(Packet(Frame[2], <<"reply", Frame[2]>>))
    <3>1. <<Iface, Iface>> \in asked
      BY <1>3, <2>1, <2>5, HeadOfDown DEF Iface, Frame
    <3>2. Iface \in Ifaces /\ Verified
      BY <1>1, <2>1, <2>2 DEF SessionTypes, TableInv, sr_get_interface
    <3>3. Iface \in Returning
      BY <3>1, <3>2 DEF Returning
    <3>4. Packet(Iface, <<"reply", Iface>>) \in UpMsgs
      BY <3>3 DEF UpMsgs, Replies
    <3>5. up' \in Seq(UpMsgs)
      BY <1>1, <2>5, <3>4, Sent DEF ToServer
    <3>6. up' \in Seq(UpMsgs')
      BY <1>2, <2>2, <2>3, <3>5
    <3> QED BY <1>1, <2>1, <2>2, <2>3, <2>4, <3>6, RouterStep DEF SessionTypes
  <2>6. CASE UNCHANGED up
    <3>1. up' \in Seq(UpMsgs')
      BY <1>1, <1>2, <2>2, <2>3, <2>6
    <3> QED BY <1>1, <2>1, <2>2, <2>3, <2>4, <3>1, RouterStep DEF SessionTypes
  <2> QED BY <2>1, <2>5, <2>6
<1>16. CASE handle_arprep
  <2>1. Reads("PACKET") /\ Goes("crashed") /\ UNCHANGED up
    BY <1>16 DEF handle_arprep, ReadsFrame
  <2>2. sr.at # "exited" /\ up' \in Seq(UpMsgs')
    BY <1>1, <1>2, <1>3, <1>4, <2>1
  <2> QED BY <1>3, <2>1, <2>2, StageStep DEF Stages
<1>17. CASE DropIP
  <2>1. Reads("PACKET") /\ UNCHANGED <<sr, up>>
    BY <1>17 DEF DropIP, ReadsFrame
  <2>2. Verified' <=> Verified
    BY <2>1 DEF Verified
  <2>3. TableInv' /\ up' \in Seq(UpMsgs')
    BY <1>1, <1>2, <1>3, <2>1, <2>2 DEF TableInv
  <2> QED BY <1>1, <1>3, <2>1, <2>2, <2>3, RouterStep DEF SessionTypes
<1> QED BY <1>6, <1>7, <1>8, <1>9, <1>10, <1>11, <1>12, <1>13, <1>14, <1>15, <1>16, <1>17

-----------------------------------------------------------------------------
(* The theorems *)

\* The inductive invariant.
THEOREM SessionInvariance == RouterSpec => []SessionInv
<1>1. ASSUME SessionInv, [RouterNext]_routerVars PROVE SessionInv'
  <2>1. CASE RouterNext
    BY <1>1, <2>1, ServerSteps, RouterSteps DEF RouterNext
  <2>2. CASE UNCHANGED routerVars
    <3>1. UNCHANGED <<sr, down, up, vns, asked, answered, frames>>
      BY <2>2 DEF routerVars
    <3>2. Verified' <=> Verified
      BY <3>1 DEF Verified
    <3>3. down' \in Seq(DownMsgs') /\ up' \in Seq(UpMsgs') /\ AnsweredInv'
      BY <1>1, <3>1, <3>2, Stays DEF SessionInv
    <3>4. SessionTypes' /\ TableInv'
      BY <1>1, <3>1, <3>2 DEF SessionInv, SessionTypes, TableInv
    <3> QED BY <3>3, <3>4 DEF SessionInv
  <2> QED BY <1>1, <2>1, <2>2
<1> QED BY InitHolds, <1>1, PTL DEF RouterSpec

\* The router and its server keep their types, whatever comes when.
THEOREM SessionTypesHold == RouterSpec => []RouterTypeOK
<1>1. SessionInv => RouterTypeOK
  BY DEF SessionInv, SessionTypes, Stages, RouterTypeOK
<1> QED BY <1>1, SessionInvariance, PTL

\* A host is answered on the wire it has asked on, about the interface at that wire's end, and
\* by a router whose hardware and routing table agree.
THEOREM RepliesGoBack == RouterSpec => []AnswersGoBack
<1>1. SessionInv => AnswersGoBack
  BY DEF SessionInv, AnsweredInv, Returning, Verified, AnswersGoBack
<1> QED BY <1>1, SessionInvariance, PTL

-----------------------------------------------------------------------------
(* The tester: what a test may ask, and where its peers' threads are *)

TesterEvents == {"INIT", "LISTEN", "ACCEPT", "CONNECT", "RUN", "CLOSE", "EXIT"}
TestObjects == PeerStates \cup {"thread", "state", "ESTABLISHED", "CLOSED"}
TestCalls ==
  [do : {"create", "join", "look", "wait", "tcp"}, peer : TestPeers, what : TestObjects]
    \cup [do : {"tell"}, peer : TestPeers, what : TesterEvents]
PeerStages ==
  TesterEvents \cup {"none", "loop", "asleep", "listening", "connecting", "running", "closing",
                     "closed", "acted", "done"}

TesterInv ==
  /\ test \in Seq(TestCalls)
  /\ sleeps \in BOOLEAN
  /\ sleeps => test # <<>>
  /\ event \in [TestPeers -> TesterEvents \cup {"NONE"}]
  /\ holds \in [TestPeers -> BOOLEAN]
  /\ state \in [TestPeers -> PeerStates]
  /\ thread \in [TestPeers -> [at : PeerStages, prev : PeerStates]]
  /\ network \in [listening : BOOLEAN, syn : BOOLEAN, echo : BOOLEAN,
                  sent : SUBSET TestPeers, closed : SUBSET TestPeers]

\* The tests are sequences of calls.
LEMMA TestsAreCalls == \A s \in {test_data, test_handshake, simple_tester, handshake} : s \in Seq(TestCalls)
<1>1. \A p \in TestPeers :
        /\ Create(p) \in TestCalls /\ Look(p) \in TestCalls /\ JoinPeer(p) \in TestCalls
        /\ \A e \in TesterEvents : Tell(p, e) \in TestCalls
        /\ \A s \in TestObjects : AwaitState(p, s) \in TestCalls /\ AwaitTcp(p, s) \in TestCalls
  <2> SUFFICES ASSUME NEW p \in TestPeers
               PROVE  /\ Create(p) \in TestCalls /\ Look(p) \in TestCalls /\ JoinPeer(p) \in TestCalls
                      /\ \A e \in TesterEvents : Tell(p, e) \in TestCalls
                      /\ \A s \in TestObjects : AwaitState(p, s) \in TestCalls /\ AwaitTcp(p, s) \in TestCalls
    OBVIOUS
  <2>1. "thread" \in TestObjects /\ "state" \in TestObjects
    BY DEF TestObjects
  <2>2. Create(p) \in TestCalls /\ Look(p) \in TestCalls /\ JoinPeer(p) \in TestCalls
    BY <2>1 DEF Create, Look, JoinPeer, TestCalls
  <2>3. \A e \in TesterEvents : Tell(p, e) \in TestCalls
    BY DEF Tell, TestCalls
  <2>4. \A s \in TestObjects : AwaitState(p, s) \in TestCalls /\ AwaitTcp(p, s) \in TestCalls
    BY DEF AwaitState, AwaitTcp, TestCalls
  <2> QED BY <2>2, <2>3, <2>4
<1>2. ASSUME NEW a \in TestCalls, NEW b \in TestCalls PROVE <<a, b>> \in Seq(TestCalls)
  OBVIOUS
<1>3. ASSUME NEW s \in Seq(TestCalls), NEW t \in Seq(TestCalls) PROVE s \o t \in Seq(TestCalls)
  BY ConcatProperties
<1>4. "server" \in TestPeers /\ "client" \in TestPeers
  BY DEF TestPeers
<1>5. chitcp_tester_start \in Seq(TestCalls)
  <2>1. <<Create("server"), Create("client")>> \in Seq(TestCalls)
    BY <1>1, <1>2, <1>4
  <2>2. <<Tell("server", "INIT"), Tell("client", "INIT")>> \in Seq(TestCalls)
    BY <1>1, <1>2, <1>4 DEF TesterEvents
  <2>3. Create("server") \in TestCalls /\ Create("client") \in TestCalls
        /\ Tell("server", "INIT") \in TestCalls /\ Tell("client", "INIT") \in TestCalls
    BY <1>1, <1>4 DEF TesterEvents
  <2> QED BY <2>3 DEF chitcp_tester_start
<1>6. /\ chitcp_tester_server_listen \in Seq(TestCalls) /\ chitcp_tester_server_accept \in Seq(TestCalls)
      /\ chitcp_tester_client_connect \in Seq(TestCalls)
  <2>1. /\ AwaitState("server", "INITIALIZED") \in TestCalls /\ Tell("server", "LISTEN") \in TestCalls
        /\ AwaitState("server", "SERVER_LISTENING") \in TestCalls /\ Tell("server", "ACCEPT") \in TestCalls
        /\ AwaitState("client", "INITIALIZED") \in TestCalls /\ Tell("client", "CONNECT") \in TestCalls
    BY <1>1, <1>4 DEF TesterEvents, TestObjects, PeerStates
  <2> QED BY <1>2, <2>1 DEF chitcp_tester_server_listen, chitcp_tester_server_accept, chitcp_tester_client_connect
<1>7. ASSUME NEW p \in TestPeers
      PROVE  /\ chitcp_tester_run(p) \in Seq(TestCalls) /\ chitcp_tester_close(p) \in Seq(TestCalls)
             /\ chitcp_tester_exit(p) \in Seq(TestCalls)
  <2>1. Ready(p) \in TestObjects
    BY DEF Ready, TestObjects, PeerStates
  <2>2. /\ AwaitState(p, Ready(p)) \in TestCalls /\ JoinPeer(p) \in TestCalls
        /\ Tell(p, "RUN") \in TestCalls /\ Tell(p, "CLOSE") \in TestCalls /\ Tell(p, "EXIT") \in TestCalls
    BY <1>1, <2>1 DEF TesterEvents
  <2> QED BY <1>2, <2>2 DEF chitcp_tester_run, chitcp_tester_close, chitcp_tester_exit
<1>8. ASSUME NEW s \in TestObjects PROVE WaitForBoth(s) \in Seq(TestCalls)
  <2>1. \A p \in TestPeers : chitcp_tester_wait_for_state(p, s) \in Seq(TestCalls)
    BY <1>1, <1>2 DEF chitcp_tester_wait_for_state
  <2> QED BY <1>3, <1>4, <2>1 DEF WaitForBoth
<1>9. tester_connect \in Seq(TestCalls)
  <2>1. chitcp_tester_start \o chitcp_tester_server_listen \in Seq(TestCalls)
    BY <1>3, <1>5, <1>6
  <2>2. chitcp_tester_start \o chitcp_tester_server_listen \o chitcp_tester_server_accept \in Seq(TestCalls)
    BY <1>3, <1>6, <2>1
  <2> QED BY <1>3, <1>6, <2>2 DEF tester_connect
<1>10. tester_done \in Seq(TestCalls)
  BY <1>3, <1>4, <1>7 DEF tester_done
<1>11. /\ tester_connect \o WaitForBoth("ESTABLISHED") \in Seq(TestCalls)
       /\ WaitForBoth("CLOSED") \in Seq(TestCalls)
  <2>1. "ESTABLISHED" \in TestObjects /\ "CLOSED" \in TestObjects
    BY DEF TestObjects
  <2> QED BY <1>3, <1>8, <1>9, <2>1
<1>12. test_handshake \in Seq(TestCalls)
  BY <1>3, <1>10, <1>11 DEF test_handshake
<1>13. test_data \in Seq(TestCalls)
  <2>1. tester_connect \o WaitForBoth("ESTABLISHED") \o chitcp_tester_run("server") \in Seq(TestCalls)
    BY <1>3, <1>4, <1>7, <1>11
  <2>2. tester_connect \o WaitForBoth("ESTABLISHED") \o chitcp_tester_run("server")
          \o chitcp_tester_run("client") \in Seq(TestCalls)
    BY <1>3, <1>4, <1>7, <2>1
  <2> QED BY <1>3, <1>10, <2>2 DEF test_data
<1>14. handshake \in Seq(TestCalls)
  <2>1. tester_connect \o chitcp_tester_close("client") \in Seq(TestCalls)
    BY <1>3, <1>4, <1>7, <1>9
  <2> QED BY <1>3, <1>4, <1>7, <2>1 DEF handshake
<1>15. simple_tester \in Seq(TestCalls)
  <2>1. tester_connect \o WaitForBoth("ESTABLISHED") \o chitcp_tester_run("client") \in Seq(TestCalls)
    BY <1>3, <1>4, <1>7, <1>11
  <2>2. tester_connect \o WaitForBoth("ESTABLISHED") \o chitcp_tester_run("client")
          \o chitcp_tester_run("server") \in Seq(TestCalls)
    BY <1>3, <1>4, <1>7, <2>1
  <2>3. tester_connect \o WaitForBoth("ESTABLISHED") \o chitcp_tester_run("client")
          \o chitcp_tester_run("server") \o chitcp_tester_close("client") \in Seq(TestCalls)
    BY <1>3, <1>4, <1>7, <2>2
  <2>4. tester_connect \o WaitForBoth("ESTABLISHED") \o chitcp_tester_run("client")
          \o chitcp_tester_run("server") \o chitcp_tester_close("client")
          \o chitcp_tester_close("server") \in Seq(TestCalls)
    BY <1>3, <1>4, <1>7, <2>3
  <2>5. tester_connect \o WaitForBoth("ESTABLISHED") \o chitcp_tester_run("client")
          \o chitcp_tester_run("server") \o chitcp_tester_close("client")
          \o chitcp_tester_close("server") \o WaitForBoth("CLOSED") \in Seq(TestCalls)
    BY <1>3, <1>11, <2>4
  <2> QED BY <1>3, <1>10, <2>5 DEF simple_tester
<1> QED BY <1>12, <1>13, <1>14, <1>15

LEMMA TesterStart == TesterInit => TesterInv
<1> SUFFICES ASSUME TesterInit PROVE TesterInv
  OBVIOUS
<1>1. test \in Seq(TestCalls)
  BY TestsAreCalls DEF TesterInit
<1>2. thread \in [TestPeers -> [at : PeerStages, prev : PeerStates]]
  BY DEF TesterInit, PeerStages, PeerStates
<1>3. network \in [listening : BOOLEAN, syn : BOOLEAN, echo : BOOLEAN,
                  sent : SUBSET TestPeers, closed : SUBSET TestPeers]
  BY DEF TesterInit
<1> QED BY <1>1, <1>2, <1>3 DEF TesterInit, TesterInv, PeerStates

\* The next call of the test, and what is left of it.
LEMMA HeadCall ==
  ASSUME TesterInv, NEW what, Now(what)
  PROVE  /\ Head(test) \in TestCalls /\ Tail(test) \in Seq(TestCalls) /\ ~sleeps
         /\ Of \in TestPeers /\ (what = "tell" => What \in TesterEvents)
<1>1. test \in Seq(TestCalls) /\ test # <<>> /\ ~sleeps /\ Head(test).do = what
  BY DEF Now, TesterInv
<1>2. Head(test) \in TestCalls /\ Tail(test) \in Seq(TestCalls)
  BY <1>1, HeadTailProperties
<1> QED BY <1>1, <1>2 DEF Of, What, TestCalls

\* A thread goes on.
LEMMA StageWritten ==
  ASSUME thread \in [TestPeers -> [at : PeerStages, prev : PeerStates]], NEW p \in TestPeers,
         NEW where \in PeerStages, thread' = [thread EXCEPT ![p].at = where]
  PROVE  thread' \in [TestPeers -> [at : PeerStages, prev : PeerStates]]
<1>1. thread[p] \in [at : PeerStages, prev : PeerStates]
  OBVIOUS
<1>2. [thread[p] EXCEPT !.at = where] \in [at : PeerStages, prev : PeerStates]
  BY <1>1
<1> QED BY <1>2

LEMMA TestStep == ASSUME TesterInv, TestSteps PROVE TesterInv'
<1> DEFINE Ts == [TestPeers -> [at : PeerStages, prev : PeerStates]]
<1>1. CASE CreateThread
  <2>1. Now("create")
    BY <1>1 DEF CreateThread
  <2>2. Tail(test) \in Seq(TestCalls) /\ Of \in TestPeers /\ ~sleeps
    BY <2>1, HeadCall
  <2>3. thread' \in [TestPeers -> [at : PeerStages, prev : PeerStates]]
    BY <1>1, <2>2, StageWritten DEF CreateThread, TesterInv, PeerStages
  <2> QED BY <1>1, <2>2, <2>3 DEF CreateThread, NextCall, TesterInv
<1>2. CASE WaitForPeer
  <2>1. Now("wait")
    BY <1>2 DEF WaitForPeer
  <2>2. Tail(test) \in Seq(TestCalls) /\ ~sleeps /\ test # <<>>
    BY <2>1, HeadCall DEF Now
  <2> QED BY <1>2, <2>2 DEF WaitForPeer, NextCall, TesterInv
<1>3. CASE PeerEvent
  <2>1. Now("tell")
    BY <1>3 DEF PeerEvent
  <2>2. Tail(test) \in Seq(TestCalls) /\ ~sleeps /\ test # <<>> /\ Of \in TestPeers /\ What \in TesterEvents
    BY <2>1, HeadCall DEF Now
  <2> HIDE DEF Of, What
  <2>3. CASE event[Of] = "NONE"
    <3>1. thread' = [thread EXCEPT ![Of].at = IF thread[Of].at = "asleep" THEN "loop" ELSE thread[Of].at]
      BY <1>3, <2>3 DEF PeerEvent, Woken
    <3>2. (IF thread[Of].at = "asleep" THEN "loop" ELSE thread[Of].at) \in PeerStages
      BY <2>2 DEF TesterInv, PeerStages
    <3>3. thread' \in [TestPeers -> [at : PeerStages, prev : PeerStates]]
      BY <2>2, <3>1, <3>2, StageWritten DEF TesterInv
    <3>4. event' \in [TestPeers -> TesterEvents \cup {"NONE"}]
      BY <1>3, <2>2, <2>3 DEF PeerEvent, TesterInv
    <3> QED BY <1>3, <2>2, <2>3, <3>3, <3>4 DEF PeerEvent, NextCall, TesterInv
  <2>4. CASE event[Of] # "NONE"
    BY <1>3, <2>2, <2>4 DEF PeerEvent, TesterInv
  <2> QED BY <2>3, <2>4
<1>4. CASE LookAtPeer
  <2>1. Now("look")
    BY <1>4 DEF LookAtPeer
  <2>2. Tail(test) \in Seq(TestCalls) /\ ~sleeps /\ Of \in TestPeers
    BY <2>1, HeadCall
  <2>3. AwaitState(Of, Ready(Of)) \in TestCalls
    BY <2>2 DEF AwaitState, Ready, TestCalls, TestObjects, PeerStates
  <2>4. <<AwaitState(Of, Ready(Of))>> \in Seq(TestCalls) /\ <<>> \in Seq(TestCalls)
    BY <2>3
  <2>5. test' \in Seq(TestCalls)
    BY <1>4, <2>2, <2>4, ConcatProperties DEF LookAtPeer
  <2> QED BY <1>4, <2>2, <2>5 DEF LookAtPeer, TesterInv
<1>5. CASE WaitForTcp
  <2>1. Now("tcp")
    BY <1>5 DEF WaitForTcp
  <2>2. Tail(test) \in Seq(TestCalls) /\ ~sleeps
    BY <2>1, HeadCall
  <2> QED BY <1>5, <2>2 DEF WaitForTcp, NextCall, TesterInv
<1>6. CASE JoinThread
  <2>1. Now("join")
    BY <1>6 DEF JoinThread
  <2>2. Tail(test) \in Seq(TestCalls) /\ ~sleeps
    BY <2>1, HeadCall
  <2> QED BY <1>6, <2>2 DEF JoinThread, NextCall, TesterInv
<1> QED BY <1>1, <1>2, <1>3, <1>4, <1>5, <1>6 DEF TestSteps

\* A peer that goes to another state, its thread going on.
LEMMA StateUpdated ==
  ASSUME TesterInv, NEW p \in TestPeers, NEW s \in PeerStates, update_state(p, s),
         thread' \in [TestPeers -> [at : PeerStages, prev : PeerStates]],
         UNCHANGED <<test, event, holds, network>>
  PROVE  TesterInv'
BY DEF update_state, TesterInv

LEMMA PeerStep == ASSUME TesterInv, NEW p \in TestPeers, PeerSteps(p) \/ CloseReturns(p) PROVE TesterInv'
<1>1. /\ thread[p].at \in PeerStages /\ thread[p].prev \in PeerStates /\ state[p] \in PeerStates
      /\ thread \in [TestPeers -> [at : PeerStages, prev : PeerStates]]
  BY DEF TesterInv
<1>2. ASSUME NEW where \in PeerStages, GoOn(p, where)
      PROVE  thread' \in [TestPeers -> [at : PeerStages, prev : PeerStates]]
  BY <1>1, <1>2, StageWritten DEF GoOn
<1>3. /\ "acted" \in PeerStages /\ "listening" \in PeerStages /\ "connecting" \in PeerStages
      /\ "closing" \in PeerStages /\ "closed" \in PeerStages /\ "done" \in PeerStages
      /\ "loop" \in PeerStages /\ "asleep" \in PeerStages /\ "running" \in PeerStages
  BY DEF PeerStages
<1>4. CASE TakeEvent(p)
  <2>1. CASE event[p] = "NONE"
    <3>1. thread' \in [TestPeers -> [at : PeerStages, prev : PeerStates]]
      BY <1>1, <1>3, <1>4, <2>1, StageWritten DEF TakeEvent
    <3> QED BY <1>4, <2>1, <3>1 DEF TakeEvent, TesterInv
  <2>2. CASE event[p] # "NONE"
    <3>1. event[p] \in PeerStages
      BY <2>2 DEF TesterInv, PeerStages
    <3>2. thread' \in [TestPeers -> [at : PeerStages, prev : PeerStates]]
      BY <1>1, <1>4, <2>2, <3>1, StageWritten DEF TakeEvent
    <3> QED BY <1>4, <2>2, <3>2 DEF TakeEvent, TesterInv
  <2> QED BY <2>1, <2>2
<1>5. CASE DoInit(p) \/ Listening(p) \/ DoAccept(p) \/ Connected(p) \/ UpdateClosed(p) \/ FunctionReturns(p)
  <2>1. PICK s \in PeerStates : update_state(p, s)
    BY <1>1, <1>5 DEF DoInit, Listening, DoAccept, Connected, UpdateClosed, FunctionReturns, PeerStates
  <2>2. GoOn(p, "acted") /\ UNCHANGED <<test, event, holds, network>>
    BY <1>5 DEF DoInit, Listening, DoAccept, Connected, UpdateClosed, FunctionReturns
  <2> QED BY <1>2, <1>3, <2>1, <2>2, StateUpdated
<1>6. CASE DoClose(p)
  <2>1. PICK s \in PeerStates : update_state(p, s)
    BY <1>6 DEF DoClose, PeerStates
  <2>2. GoOn(p, "closing") /\ UNCHANGED <<test, event, holds, network>>
    BY <1>6 DEF DoClose
  <2> QED BY <1>2, <1>3, <2>1, <2>2, StateUpdated
<1>7. CASE DoRun(p)
  <2>1. update_state(p, "RUNNING_FUNCTION") /\ "RUNNING_FUNCTION" \in PeerStates
        /\ UNCHANGED <<test, event, holds, network>>
    BY <1>7 DEF DoRun, PeerStates
  <2>2. thread' \in [TestPeers -> [at : PeerStages, prev : PeerStates]]
    BY <1>1, <1>3, <1>7 DEF DoRun
  <2> QED BY <2>1, <2>2, StateUpdated
<1>8. CASE DoListen(p) \/ DoConnect(p) \/ CloseReturns(p)
  <2>1. PICK where \in PeerStages : GoOn(p, where)
    BY <1>3, <1>8 DEF DoListen, DoConnect, CloseReturns
  <2>2. network' \in [listening : BOOLEAN, syn : BOOLEAN, echo : BOOLEAN,
                  sent : SUBSET TestPeers, closed : SUBSET TestPeers]
    <3>1. CASE DoListen(p)
      BY <3>1 DEF DoListen, TesterInv
    <3>2. CASE DoConnect(p)
      BY <3>2 DEF DoConnect, TesterInv
    <3>3. CASE CloseReturns(p)
      BY <3>3 DEF CloseReturns, TesterInv
    <3> QED BY <1>8, <3>1, <3>2, <3>3
  <2>3. UNCHANGED <<test, sleeps, event, holds, state>>
    BY <1>8 DEF DoListen, DoConnect, CloseReturns
  <2> QED BY <1>2, <2>1, <2>2, <2>3 DEF TesterInv
<1>9. CASE FunctionSends(p)
  BY <1>9 DEF FunctionSends, TesterInv
<1>10. CASE EventDone(p)
  <2>1. PICK where \in PeerStages : GoOn(p, where)
    BY <1>3, <1>10 DEF EventDone
  <2> QED BY <1>2, <1>10, <2>1 DEF EventDone, TesterInv
<1> QED BY <1>4, <1>5, <1>6, <1>7, <1>8, <1>9, <1>10 DEF PeerSteps

\* A test sleeps only while it has something left to do, and peers, mailboxes and the calls
\* still to make keep their types (tester.c, tester_peer.c).
THEOREM TesterTypes == TesterInit /\ [][TesterNext]_testerVars => []TesterTypeOK
<1>1. TesterInv /\ [TesterNext]_testerVars => TesterInv'
  <2>1. CASE UNCHANGED testerVars
    BY <2>1 DEF testerVars, TesterInv
  <2> QED BY <2>1, TestStep, PeerStep DEF TesterNext
<1>2. TesterInv => TesterTypeOK
  BY DEF TesterInv, TesterTypeOK, TesterEvents
<1> QED BY <1>1, <1>2, TesterStart, PTL

-----------------------------------------------------------------------------
(* The parts together *)

\* In every state of every part its variables have their types, the buffer's when one thread
\* writes into it and none peeks, as in chitcpd without a debugger.
THEOREM PartsTypes ==
  ASSUME SingleWriter, NoPeekers
  PROVE  PartsSpec => []PartsTypeOK
<1>1. PartsSpec => PartsInit /\ [][PartsNext]_partsVars
  BY DEF PartsSpec
<1>2. PartsInit => Init /\ ListInit /\ TesterInit /\ RouterInit
  BY DEF PartsInit
<1>3. [PartsNext]_partsVars => [Next]_vars
  BY DEF PartsNext, partsVars
<1>4. [PartsNext]_partsVars => [ListNext]_listVars
  BY DEF PartsNext, partsVars
<1>5. [PartsNext]_partsVars => [TesterNext]_testerVars
  BY DEF PartsNext, partsVars
<1>6. [PartsNext]_partsVars => [RouterNext]_routerVars
  BY DEF PartsNext, partsVars
<1>7. TypeOK /\ ListTypeOK /\ TesterTypeOK /\ RouterTypeOK => PartsTypeOK
  BY DEF PartsTypeOK
<1> QED BY <1>1, <1>2, <1>3, <1>4, <1>5, <1>6, <1>7, TypesHold, ListTypesHold, TesterTypes,
           SessionTypesHold, PTL DEF Spec, ListSpec, RouterSpec

=============================================================================
