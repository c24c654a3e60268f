--------------------------- MODULE Ec2InventoryProofs ---------------------------
(* Proofs about the runs of ops/ansible/ec2.py: what is computed of the    *)
(* resources, what a run carries from call to call and leaves in the files *)
(* (InventoryInv), that the files are written as InventoryCache says, and  *)
(* what --host answers (AbsenceInv, NamedInv).                             *)
EXTENDS Ec2Inventory, SequenceTheorems, WellFoundedInduction, TLAPS

-----------------------------------------------------------------------------
(* Lists.                                                                  *)
(* Induction over the numbers, in the form of a set that is all of them:   *)
(* from the least number outside it.                                       *)
LEMMA NatSetInduction ==
    ASSUME NEW S \in SUBSET Nat, 0 \in S, \A n \in S : n + 1 \in S
    PROVE  S = Nat
<1> SUFFICES ASSUME Nat \ S # {} PROVE FALSE
  OBVIOUS
<1>1. IsWellFoundedOn(OpToRel(<, Nat), Nat)
  BY NatLessThanWellFounded
<1>2. PICK x \in Nat \ S : \A y \in Nat \ S : ~ (<<y, x>> \in OpToRel(<, Nat))
  BY <1>1, WFMin
<1>3. x # 0 /\ x - 1 \in Nat /\ x - 1 < x /\ (x - 1) + 1 = x
  <2>1. x \in Nat /\ x # 0
    OBVIOUS
  <2>2. \A i \in Nat : i # 0 => i - 1 \in Nat /\ i - 1 < i /\ (i - 1) + 1 = i
    OBVIOUS
  <2>3. QED
    BY <2>1, <2>2
<1>4. x - 1 \notin S
  BY <1>2, <1>3
<1>5. <<x - 1, x>> \in OpToRel(<, Nat)
  BY <1>2, <1>3 DEF OpToRel
<1>6. QED
  BY <1>2, <1>3, <1>4, <1>5

LEMMA SequenceOver ==
    ASSUME NEW S, NEW q \in Seq(S)
    PROVE  IsSequence(q) /\ Len(q) \in Nat /\ DOMAIN q = 1..Len(q) /\ ToSet(q) \subseteq S
<1>1. Len(q) \in Nat /\ DOMAIN q = 1..Len(q) /\ q \in [1..Len(q) -> S]
  BY LenProperties
<1>2. ToSet(q) = {q[i] : i \in 1..Len(q)}
  BY <1>1 DEF ToSet
<1>3. q \in [1..Len(q) -> ToSet(q)]
  BY <1>1, <1>2
<1>4. QED
  BY <1>1, <1>2, <1>3, IsASeq DEF IsSequence

LEMMA SequenceHas ==
    ASSUME NEW q, IsSequence(q)
    PROVE  /\ Len(q) \in Nat /\ DOMAIN q = 1..Len(q)
           /\ ToSet(q) = {q[i] : i \in 1..Len(q)}
BY SequenceOver DEF IsSequence, ToSet

\* A function over the indices of a list is one too.
LEMMA SequenceMap ==
    ASSUME NEW q, NEW n \in Nat, q = [i \in 1..n |-> q[i]]
    PROVE  IsSequence(q) /\ Len(q) = n /\ DOMAIN q = 1..n
<1>1. DOMAIN q = 1..n
  OBVIOUS
<1>2. q \in [1..n -> ToSet(q)]
  BY <1>1 DEF ToSet
<1>3. QED
  BY <1>1, <1>2, IsASeq, LenProperties DEF IsSequence

\* A sequence over a set is one over any larger set.
LEMMA SequenceWider ==
    ASSUME NEW S, NEW T, S \subseteq T, NEW q \in Seq(S)
    PROVE  q \in Seq(T)
<1>1. Len(q) \in Nat /\ q \in [1..Len(q) -> S]
  BY LenProperties
<1>2. q \in [1..Len(q) -> T]
  BY <1>1
<1>3. QED
  BY <1>1, <1>2

\* g is "chosen" of Chosen(list, S), up to the n-th element.
ChosenUpTo(list, S, n, g) ==
    g = [i \in 0..n |->
            IF i = 0 THEN <<>>
            ELSE IF list[i] \in S THEN Append(g[i - 1], list[i]) ELSE g[i - 1]]

LEMMA ChosenExists ==
    ASSUME NEW list, NEW S, NEW n \in Nat
    PROVE  \E g : ChosenUpTo(list, S, n, g)
<1> DEFINE T == {k \in Nat : \E g : ChosenUpTo(list, S, k, g)}
<1>1. 0 \in T
  <2> DEFINE g == [i \in 0..0 |-> <<>>]
  <2>1. ChosenUpTo(list, S, 0, g)
    BY DEF ChosenUpTo
  <2>2. QED
    BY <2>1
<1>2. ASSUME NEW k \in T PROVE k + 1 \in T
  <2>1. k \in Nat /\ k + 1 \in Nat
    OBVIOUS
  <2>2. PICK g : ChosenUpTo(list, S, k, g)
    OBVIOUS
  <2> DEFINE next == IF list[k + 1] \in S THEN Append(g[k], list[k + 1]) ELSE g[k]
             h == [i \in 0..(k + 1) |-> IF i = k + 1 THEN next ELSE g[i]]
             body(f, i) == IF i = 0 THEN <<>>
                           ELSE IF list[i] \in S THEN Append(f[i - 1], list[i]) ELSE f[i - 1]
  <2>3. ASSUME NEW i \in 0..(k + 1) PROVE h[i] = body(h, i)
    <3>1. CASE i = k + 1
      <4>1. i # 0 /\ i - 1 = k /\ k \in 0..(k + 1) /\ k # k + 1
        BY <2>1, <3>1
      <4>2. h[i] = next /\ h[i - 1] = g[k]
        BY <3>1, <4>1
      <4>3. QED
        BY <3>1, <4>1, <4>2
    <3>2. CASE i # k + 1
      <4>1. i \in 0..k /\ h[i] = g[i]
        BY <2>1, <3>2
      <4>2. g[i] = body(g, i)
        BY <2>2, <4>1 DEF ChosenUpTo
      <4>3. i # 0 => i - 1 \in 0..(k + 1) /\ i - 1 # k + 1
        BY <2>1, <4>1
      <4>4. i # 0 => h[i - 1] = g[i - 1]
        BY <4>3
      <4>5. QED
        BY <4>1, <4>2, <4>4
    <3>3. QED
      BY <3>1, <3>2
  <2>4. h = [i \in 0..(k + 1) |-> body(h, i)]
    <3> DEFINE H == h
    <3>1. H = [i \in 0..(k + 1) |-> H[i]]
      OBVIOUS
    <3>2. \A i \in 0..(k + 1) : H[i] = body(H, i)
      BY <2>3
    <3> HIDE DEF H
    <3>3. H = [i \in 0..(k + 1) |-> body(H, i)]
      BY <3>1, <3>2
    <3>4. QED
      BY <3>3 DEF H
  <2> HIDE DEF h
  <2>5. ChosenUpTo(list, S, k + 1, h)
    BY <2>4 DEF ChosenUpTo
  <2>6. QED
    BY <2>1, <2>5
<1> HIDE DEF T
<1>3. T = Nat
  BY <1>1, <1>2, NatSetInduction DEF T
<1>4. QED
  BY <1>3 DEF T

(* What is chosen of a list is in the list and in the set.                 *)
LEMMA ChosenOf ==
    ASSUME NEW list, IsSequence(list), NEW S
    PROVE  Chosen(list, S) \in Seq(ToSet(list) \cap S)
<1> DEFINE g == CHOOSE f : ChosenUpTo(list, S, Len(list), f)
           T == {k \in Nat : k <= Len(list) => g[k] \in Seq(ToSet(list) \cap S)}
<1>0. Len(list) \in Nat /\ ToSet(list) = {list[i] : i \in 1..Len(list)}
  BY SequenceHas
<1>1. ChosenUpTo(list, S, Len(list), g)
  BY <1>0, ChosenExists
<1>2. Chosen(list, S) = g[Len(list)]
  BY DEF Chosen, ChosenUpTo
<1> HIDE DEF g
<1>3. \A i \in 0..Len(list) :
          g[i] = IF i = 0 THEN <<>>
                 ELSE IF list[i] \in S THEN Append(g[i - 1], list[i]) ELSE g[i - 1]
  BY <1>1 DEF ChosenUpTo
<1>4. 0 \in T
  <2>1. g[0] = <<>>
    BY <1>0, <1>3
  <2>2. QED
    BY <2>1, EmptySeq
<1>5. ASSUME NEW k \in T PROVE k + 1 \in T
  <2> SUFFICES ASSUME k + 1 <= Len(list) PROVE g[k + 1] \in Seq(ToSet(list) \cap S)
    OBVIOUS
  <2>1. k + 1 \in 0..Len(list) /\ k + 1 \in 1..Len(list) /\ k + 1 # 0 /\ (k + 1) - 1 = k /\ k <= Len(list)
    BY <1>0
  <2>2. g[k] \in Seq(ToSet(list) \cap S)
    BY <2>1
  <2>3. g[k + 1] = IF list[k + 1] \in S THEN Append(g[k], list[k + 1]) ELSE g[k]
    BY <1>3, <2>1
  <2>4. list[k + 1] \in ToSet(list)
    BY <1>0, <2>1
  <2>5. QED
    BY <2>2, <2>3, <2>4, AppendProperties
<1> HIDE DEF T
<1>6. T = Nat
  BY <1>4, <1>5, NatSetInduction DEF T
<1>7. QED
  BY <1>0, <1>2, <1>6 DEF T

\* g is "flatten" of FlattenSeq(lists), up to the n-th list.
FlattenUpTo(lists, n, g) ==
    g = [i \in 1..n |-> IF i = 1 THEN lists[i] ELSE g[i - 1] \o lists[i]]

LEMMA FlattenExists ==
    ASSUME NEW lists, NEW n \in Nat
    PROVE  \E g : FlattenUpTo(lists, n, g)
<1> DEFINE T == {k \in Nat : \E g : FlattenUpTo(lists, k, g)}
<1>1. 0 \in T
  <2> DEFINE g == [i \in 1..0 |-> <<>>]
  <2>1. FlattenUpTo(lists, 0, g)
    BY DEF FlattenUpTo
  <2>2. QED
    BY <2>1
<1>2. ASSUME NEW k \in T PROVE k + 1 \in T
  <2>1. k \in Nat /\ k + 1 \in Nat
    OBVIOUS
  <2>2. PICK g : FlattenUpTo(lists, k, g)
    OBVIOUS
  <2> DEFINE next == IF k + 1 = 1 THEN lists[k + 1] ELSE g[k] \o lists[k + 1]
             h == [i \in 1..(k + 1) |-> IF i = k + 1 THEN next ELSE g[i]]
             body(f, i) == IF i = 1 THEN lists[i] ELSE f[i - 1] \o lists[i]
  <2>3. ASSUME NEW i \in 1..(k + 1) PROVE h[i] = body(h, i)
    <3>1. CASE i = k + 1
      <4>1. i # 1 => i - 1 = k /\ k \in 1..(k + 1) /\ k # k + 1
        BY <2>1, <3>1
      <4>2. h[i] = next /\ (i # 1 => h[i - 1] = g[k])
        BY <3>1, <4>1
      <4>3. QED
        BY <3>1, <4>1, <4>2
    <3>2. CASE i # k + 1
      <4>1. i \in 1..k /\ h[i] = g[i]
        BY <2>1, <3>2
      <4>2. g[i] = body(g, i)
        BY <2>2, <4>1 DEF FlattenUpTo
      <4>3. i # 1 => i - 1 \in 1..(k + 1) /\ i - 1 # k + 1
        BY <2>1, <4>1
      <4>4. i # 1 => h[i - 1] = g[i - 1]
        BY <4>3
      <4>5. QED
        BY <4>1, <4>2, <4>4
    <3>3. QED
      BY <3>1, <3>2
  <2>4. h = [i \in 1..(k + 1) |-> body(h, i)]
    <3> DEFINE H == h
    <3>1. H = [i \in 1..(k + 1) |-> H[i]]
      OBVIOUS
    <3>2. \A i \in 1..(k + 1) : H[i] = body(H, i)
      BY <2>3
    <3> HIDE DEF H
    <3>3. H = [i \in 1..(k + 1) |-> body(H, i)]
      BY <3>1, <3>2
    <3>4. QED
      BY <3>3 DEF H
  <2> HIDE DEF h
  <2>5. FlattenUpTo(lists, k + 1, h)
    BY <2>4 DEF FlattenUpTo
  <2>6. QED
    BY <2>1, <2>5
<1> HIDE DEF T
<1>3. T = Nat
  BY <1>1, <1>2, NatSetInduction DEF T
<1>4. QED
  BY <1>3 DEF T

(* Joined lists are in every set that the lists are in and that joining    *)
(* two of its elements does not leave.                                     *)
LEMMA FlattenIn ==
    ASSUME NEW lists, IsSequence(lists), NEW Good,
           \A i \in DOMAIN lists : lists[i] \in Good,
           \A a, b \in Good : a \o b \in Good
    PROVE  FlattenSeq(lists) \in Good \/ FlattenSeq(lists) = <<>>
<1>0. Len(lists) \in Nat /\ DOMAIN lists = 1..Len(lists)
  BY SequenceHas
<1>1. CASE Len(lists) = 0
  <2>1. lists = <<>>
    BY <1>0, <1>1, EmptySeq DEF IsSequence
  <2>2. QED
    BY <1>1, <2>1 DEF FlattenSeq
<1>2. CASE Len(lists) # 0
  <2> DEFINE g == CHOOSE f : FlattenUpTo(lists, Len(lists), f)
             T == {k \in Nat : k + 1 <= Len(lists) => g[k + 1] \in Good}
  <2>1. FlattenUpTo(lists, Len(lists), g)
    BY <1>0, FlattenExists
  <2>2. FlattenSeq(lists) = g[Len(lists)]
    BY <1>2 DEF FlattenSeq, FlattenUpTo
  <2> HIDE DEF g
  <2>3. \A i \in 1..Len(lists) : g[i] = IF i = 1 THEN lists[i] ELSE g[i - 1] \o lists[i]
    BY <2>1 DEF FlattenUpTo
  <2>4. 0 \in T
    <3>1. 1 \in 1..Len(lists)
      BY <1>0, <1>2
    <3>2. g[1] = lists[1] /\ lists[1] \in Good
      BY <1>0, <2>3, <3>1
    <3>3. QED
      BY <3>2
  <2>5. ASSUME NEW k \in T PROVE k + 1 \in T
    <3> SUFFICES ASSUME (k + 1) + 1 <= Len(lists) PROVE g[(k + 1) + 1] \in Good
      OBVIOUS
    <3>1. /\ (k + 1) + 1 \in 1..Len(lists) /\ (k + 1) + 1 # 1 /\ ((k + 1) + 1) - 1 = k + 1
          /\ k + 1 <= Len(lists)
      BY <1>0
    <3>2. g[k + 1] \in Good
      BY <3>1
    <3>3. g[(k + 1) + 1] = g[k + 1] \o lists[(k + 1) + 1]
      BY <2>3, <3>1
    <3>4. lists[(k + 1) + 1] \in Good
      BY <1>0, <3>1
    <3>5. QED
      BY <3>2, <3>3, <3>4
  <2> HIDE DEF T
  <2>6. T = Nat
    BY <2>4, <2>5, NatSetInduction DEF T
  <2>7. Len(lists) - 1 \in Nat /\ (Len(lists) - 1) + 1 = Len(lists)
    BY <1>0, <1>2
  <2>8. PICK k \in Nat : k + 1 = Len(lists)
    BY <2>7
  <2>9. g[k + 1] \in Good
    <3>1. k \in T
      BY <2>6
    <3>2. k + 1 <= Len(lists)
      BY <1>0, <2>8
    <3>3. QED
      BY <3>1, <3>2 DEF T
  <2>10. QED
    BY <2>2, <2>8, <2>9
<1>3. QED
  BY <1>1, <1>2

\* g is "books" of AddedAll(s, records, book, found), up to the n-th resource.
BooksUpTo(s, records, book, found, n, g) ==
    g = [i \in 0..n |->
            IF i = 0 THEN {book} ELSE UNION {Added(s, records, b, found[i]) : b \in g[i - 1]}]

LEMMA BooksExist ==
    ASSUME NEW s, NEW records, NEW book, NEW found, NEW n \in Nat
    PROVE  \E g : BooksUpTo(s, records, book, found, n, g)
<1> DEFINE T == {k \in Nat : \E g : BooksUpTo(s, records, book, found, k, g)}
<1>1. 0 \in T
  <2> DEFINE g == [i \in 0..0 |-> {book}]
  <2>1. BooksUpTo(s, records, book, found, 0, g)
    BY DEF BooksUpTo
  <2>2. QED
    BY <2>1
<1>2. ASSUME NEW k \in T PROVE k + 1 \in T
  <2>1. k \in Nat /\ k + 1 \in Nat
    OBVIOUS
  <2>2. PICK g : BooksUpTo(s, records, book, found, k, g)
    OBVIOUS
  <2> DEFINE entered(books, i) == UNION {Added(s, records, b, found[i]) : b \in books}
             h == [i \in 0..(k + 1) |-> IF i = k + 1 THEN entered(g[k], k + 1) ELSE g[i]]
             body(f, i) == IF i = 0 THEN {book} ELSE entered(f[i - 1], i)
  <2>3. ASSUME NEW i \in 0..(k + 1) PROVE h[i] = body(h, i)
    <3>1. CASE i = k + 1
      <4>1. i # 0 /\ i - 1 = k /\ k \in 0..(k + 1) /\ k # k + 1
        BY <2>1, <3>1
      <4>2. h[i] = entered(g[k], k + 1) /\ h[i - 1] = g[k]
        BY <3>1, <4>1
      <4>3. QED
        BY <3>1, <4>1, <4>2
    <3>2. CASE i # k + 1
      <4>1. i \in 0..k /\ h[i] = g[i]
        BY <2>1, <3>2
      <4>2. g[i] = body(g, i)
        BY <2>2, <4>1 DEF BooksUpTo
      <4>3. i # 0 => i - 1 \in 0..(k + 1) /\ i - 1 # k + 1
        BY <2>1, <4>1
      <4>4. i # 0 => h[i - 1] = g[i - 1]
        BY <4>3
      <4>5. QED
        BY <4>1, <4>2, <4>4
    <3>3. QED
      BY <3>1, <3>2
  <2>4. h = [i \in 0..(k + 1) |-> body(h, i)]
    <3> DEFINE H == h
    <3>1. H = [i \in 0..(k + 1) |-> H[i]]
      OBVIOUS
    <3>2. \A i \in 0..(k + 1) : H[i] = body(H, i)
      BY <2>3
    <3> HIDE DEF H
    <3>3. H = [i \in 0..(k + 1) |-> body(H, i)]
      BY <3>1, <3>2
    <3>4. QED
      BY <3>3 DEF H
  <2> HIDE DEF h
  <2>5. BooksUpTo(s, records, book, found, k + 1, h)
    BY <2>4 DEF BooksUpTo
  <2>6. QED
    BY <2>1, <2>5
<1> HIDE DEF T
<1>3. T = Nat
  BY <1>1, <1>2, NatSetInduction DEF T
<1>4. QED
  BY <1>3 DEF T

(* One resource after the other is entered.                                *)
LEMMA AddedAllUnfolds ==
    ASSUME NEW s, NEW records, NEW book, NEW found, IsSequence(found)
    PROVE  \E g : /\ g[0] = {book} /\ AddedAll(s, records, book, found) = g[Len(found)]
                  /\ \A i \in 1..Len(found) : \A c \in g[i] :
                         \E b \in g[i - 1] : c \in Added(s, records, b, found[i])
<1> DEFINE g == CHOOSE f : BooksUpTo(s, records, book, found, Len(found), f)
<1>0. Len(found) \in Nat
  BY SequenceHas
<1>1. BooksUpTo(s, records, book, found, Len(found), g)
  BY <1>0, BooksExist
<1>2. AddedAll(s, records, book, found) = g[Len(found)]
  BY DEF AddedAll, BooksUpTo
<1> HIDE DEF g
<1>3. g[0] = {book}
  BY <1>0, <1>1 DEF BooksUpTo
<1>4. ASSUME NEW i \in 1..Len(found)
      PROVE  g[i] = UNION {Added(s, records, b, found[i]) : b \in g[i - 1]}
  <2>1. i \in 0..Len(found) /\ i # 0
    BY <1>0
  <2> DEFINE entered(f, j) == UNION {Added(s, records, b, found[j]) : b \in f[j - 1]}
  <2>2. g = [j \in 0..Len(found) |-> IF j = 0 THEN {book} ELSE entered(g, j)]
    BY <1>1 DEF BooksUpTo
  <2> HIDE DEF entered
  <2>3. g[i] = entered(g, i)
    BY <2>1, <2>2
  <2>4. QED
    BY <2>3 DEF entered
<1>5. ASSUME NEW i \in 1..Len(found), NEW c \in g[i]
      PROVE  \E b \in g[i - 1] : c \in Added(s, records, b, found[i])
  BY <1>4
<1>6. QED
  BY <1>2, <1>3, <1>5

-----------------------------------------------------------------------------
(* A pair of a filter set is one of TagFilters, and the other way round.   *)
LEMMA TagFilterOf ==
    ASSUME NEW s, NEW i \in DOMAIN Filters(s), NEW k \in DOMAIN Filters(s)[i], k[1] = "tag"
    PROVE  <<i, k[2], Filters(s)[i][k]>> \in TagFilters(s)
<1> DEFINE ofSet(j) == {<<j, x[2], Filters(s)[j][x]>> :
                          x \in {y \in DOMAIN Filters(s)[j] : y[1] = "tag"}}
<1>1. TagFilters(s) = UNION {ofSet(j) : j \in DOMAIN Filters(s)}
  BY Zenon DEF TagFilters
<1>2. <<i, k[2], Filters(s)[i][k]>> \in ofSet(i)
  OBVIOUS
<1>3. QED
  BY <1>1, <1>2


(* Without stack_filters, whatever EC2 selects by the tags of one filter   *)
(* set, a database with the same tags is selected too; so is a database     *)
(* cluster, if the sets before that one are on tags too and its tags can   *)
(* be read.  A key like "instance-type" in an earlier set hides all of the *)
(* clusters that the sets after it would select.                           *)
THEOREM TagFiltersNeverHideMore ==
    ASSUME NEW s, ~s.stack, NEW r,
           NEW i \in DOMAIN Filters(s), DOMAIN Filters(s)[i] # {}, OnTags(Filters(s)[i]),
           ServerMatches(Filters(s)[i], r)
    PROVE  /\ TagsMatchFilters(s, r.tags)
           /\ (\A j \in 1..(i - 1) : OnTags(Filters(s)[j])) => DbClusterMatches(s, r, {})
<1>1. PICK k \in DOMAIN Filters(s)[i] : k[1] = "tag"
  BY DEF OnTags
<1> DEFINE f == <<i, k[2], Filters(s)[i][k]>>
<1>2. f \in TagFilters(s)
  BY <1>1, TagFilterOf
<1>3. HasTag(r.tags, f[2], f[3])
  BY <1>1 DEF ServerMatches
<1>4. TagsMatchFilters(s, r.tags)
  BY <1>2, <1>3 DEF TagsMatchFilters
<1>5. ASSUME \A j \in 1..(i - 1) : OnTags(Filters(s)[j])
      PROVE  DbClusterMatches(s, r, {})
  BY <1>2, <1>3, <1>5 DEF DbClusterMatches, HasTag
<1>6. QED
  BY <1>4, <1>5

(* With stack_filters it is the other way round: what tags_match_filters   *)
(* lets pass satisfies every filter set on tags, so that EC2, which gets   *)
(* the last filter of each tag, selects it too.                            *)
THEOREM StackedTagsMatchEverySet ==
    ASSUME NEW s, s.stack, NEW r, TagsMatchFilters(s, r.tags), Filters(s) # <<>>,
           NEW i \in DOMAIN Filters(s), OnTags(Filters(s)[i])
    PROVE  ServerMatches(Filters(s)[i], r)
<1> SUFFICES ASSUME NEW k \in DOMAIN Filters(s)[i]
             PROVE  HasTag(r.tags, k[2], Filters(s)[i][k])
  BY DEF ServerMatches, OnTags
<1> DEFINE f == <<i, k[2], Filters(s)[i][k]>>
<1>1. f \in TagFilters(s)
  BY TagFilterOf DEF OnTags
<1>2. HasTag(r.tags, f[2], f[3])
  BY <1>1 DEF TagsMatchFilters
<1>3. QED
  BY <1>2

-----------------------------------------------------------------------------
\* Where a writer that is alone has got to.
Progress(p) ==
    /\ WritingOf[p] = "cache" => cache = Files!Begun
    /\ WritingOf[p] = "between" => cache = BookOf[p]
    /\ WritingOf[p] = "index" => cache = BookOf[p] /\ index = Files!Begun

(* Without an accident there is at most one writer, and it finds the files *)
(* as it left them.                                                        *)
OneWriter ==
    ~accident =>
        /\ \A p \in Process : WritingOf[p] # "no" => Files!Alone(p) /\ Progress(p)
        /\ (\A p \in Process : WritingOf[p] = "no") => cache = index /\ cache \notin {Files!Begun, Files!Torn}

FilesInv == Files!TypeOK /\ OneWriter

(* The first run finds no files.                                           *)
LEMMA InitOneWriter == Files!Init => FilesInv
<1> SUFFICES ASSUME Files!Init PROVE FilesInv
  OBVIOUS
<1>1. Files!TypeOK
  BY DEF Files!Init, Files!TypeOK
<1>2. OneWriter
  BY DEF Files!Absent, Files!Begun, Files!Torn, Files!Init, OneWriter
<1>3. QED
  BY <1>1, <1>2 DEF FilesInv

(* Every step keeps the writers' places, and what they write, in range.    *)
LEMMA StepTypeOK == Files!TypeOK /\ [Files!Next]_Files!vars => Files!TypeOK'
<1> SUFFICES ASSUME Files!TypeOK, [Files!Next]_Files!vars PROVE Files!TypeOK'
  OBVIOUS
<1>1. CASE UNCHANGED Files!vars
  BY <1>1 DEF Files!TypeOK, Files!vars, Files!Readable
<1>2. ASSUME NEW p \in Process, Files!OpenCache(p) PROVE Files!TypeOK'
  BY <1>2 DEF Files!OpenCache, Files!TypeOK, Files!Alone, Files!Readable
<1>3. ASSUME NEW p \in Process, Files!FillCache(p) PROVE Files!TypeOK'
  BY <1>3 DEF Files!FillCache, Files!TypeOK, Files!Readable
<1>4. ASSUME NEW p \in Process, Files!OpenIndex(p) PROVE Files!TypeOK'
  BY <1>4 DEF Files!OpenIndex, Files!TypeOK, Files!Readable
<1>5. ASSUME NEW p \in Process, Files!FillIndex(p) PROVE Files!TypeOK'
  BY <1>5 DEF Files!FillIndex, Files!TypeOK, Files!Readable
<1>6. ASSUME NEW p \in Process, Files!StopHalfway(p) PROVE Files!TypeOK'
  BY <1>6 DEF Files!StopHalfway, Files!TypeOK, Files!Readable
<1>7. QED
  BY <1>1, <1>2, <1>3, <1>4, <1>5, <1>6 DEF Files!Next

(* Every step keeps it: to begin beside another writer is an accident, and *)
(* a writer that is alone fills what it emptied itself.                    *)
LEMMA StepOneWriter == FilesInv /\ [Files!Next]_Files!vars => OneWriter'
<1> SUFFICES ASSUME FilesInv, [Files!Next]_Files!vars PROVE OneWriter'
  OBVIOUS
<1> USE DEF FilesInv
<1>1. CASE UNCHANGED Files!vars
  BY <1>1 DEF OneWriter, Files!Alone, Progress, Files!vars
<1>2. ASSUME NEW p \in Process, Files!OpenCache(p) PROVE OneWriter'
  BY <1>2 DEF Files!OpenCache, Files!TypeOK, OneWriter, Files!Alone, Progress
<1>3. ASSUME NEW p \in Process, Files!FillCache(p) PROVE OneWriter'
  <2> SUFFICES ASSUME ~accident PROVE OneWriter'
    BY <1>3 DEF Files!FillCache, OneWriter
  <2>1. Files!Alone(p) /\ cache = Files!Begun
    BY <1>3 DEF Files!FillCache, OneWriter, Progress
  <2>2. cache' = BookOf[p]
    BY <1>3, <2>1 DEF Files!FillCache, Files!Filled
  <2>3. QED
    BY <1>3, <2>1, <2>2 DEF Files!FillCache, Files!TypeOK, OneWriter, Files!Alone, Progress
<1>4. ASSUME NEW p \in Process, Files!OpenIndex(p) PROVE OneWriter'
  BY <1>4 DEF Files!OpenIndex, Files!TypeOK, OneWriter, Files!Alone, Progress
<1>5. ASSUME NEW p \in Process, Files!FillIndex(p) PROVE OneWriter'
  <2> SUFFICES ASSUME ~accident PROVE OneWriter'
    BY <1>5 DEF Files!FillIndex, OneWriter
  <2>1. Files!Alone(p) /\ cache = BookOf[p] /\ index = Files!Begun
    BY <1>5 DEF Files!FillIndex, OneWriter, Progress
  <2>2. index' = BookOf[p] /\ cache' = BookOf[p] /\ Files!Readable(BookOf[p])
    BY <1>5, <2>1 DEF Files!FillIndex, Files!Filled, Files!TypeOK
  <2>3. QED
    BY <1>5, <2>1, <2>2 DEF Files!FillIndex, Files!TypeOK, OneWriter, Files!Alone, Progress, Files!Readable
<1>6. ASSUME NEW p \in Process, Files!StopHalfway(p) PROVE OneWriter'
  BY <1>6 DEF Files!StopHalfway, OneWriter
<1>7. QED
  BY <1>1, <1>2, <1>3, <1>4, <1>5, <1>6 DEF Files!Next

(* The places and contents of the writers stay in range.                   *)
THEOREM InventoryCacheTypeCorrect == Files!Spec => []Files!TypeOK
<1>1. Files!Init => Files!TypeOK
  BY InitOneWriter DEF FilesInv
<1>2. QED
  BY <1>1, StepTypeOK, PTL DEF Files!Spec

(* With any number of processes that refresh the cache of the inventory,   *)
(* a reader that meets no writer finds two whole files of one refresh,     *)
(* unless an accident came after the last writer that began alone.         *)
THEOREM CacheFilesArePaired == Files!Spec => []Files!Paired
<1>1. FilesInv /\ [Files!Next]_Files!vars => FilesInv'
  BY StepTypeOK, StepOneWriter DEF FilesInv
<1>2. FilesInv => Files!Paired
  BY DEF FilesInv, OneWriter, Files!Paired
<1>3. QED
  BY InitOneWriter, <1>1, <1>2, PTL DEF Files!Spec

-----------------------------------------------------------------------------
(* What holds of every book, wherever it is.                               *)
Kinds == {"instance", "database", "cluster", "node", "replication"}

Account(s) == IF s.iamRole THEN "role" ELSE "own"

\* A resource as it is entered: read with the account's credentials.
ReadSound(s, r) ==
    r.read.credentials = Account(s) /\ (r.read.orderly => r.tags = r.read.own)

PushedBy(s, b) == UNION {Pushes(s, e.records, e.resource, e.host) : e \in b.seen}

HostsUsable(s, b) ==
    \A g \in DOMAIN b.groups : \A h \in b.groups[g].hosts :
        ~ListsIdentifiers(g) =>
            /\ h \in DOMAIN b.index /\ h \in DOMAIN b.hostvars
            /\ \E e \in b.seen : /\ e.host = h
                                /\ b.index[h] = <<e.resource.region, e.resource.id>>
                                /\ VarsOf(s, e.resource) \in b.hostvars[h]

GroupsMean(s, b) ==
    \A g \in DOMAIN b.groups :
        \/ "instance_id" \in s.groupBy /\ g \in {<<e.resource.id>> : e \in b.seen}
        \/ b.groups[g].hosts = {x.element : x \in {y \in PushedBy(s, b) : y.group = g}}

PushedAreGroups(s, b) == \A x \in PushedBy(s, b) : x.group \in DOMAIN b.groups

Unprefixed ==
    {All("elasticache_engine"), All("elasticache_parameter_group"),
     All("elasticache_replication_group")}

ChildrenListed(b) ==
    \A g \in DOMAIN b.groups : g \in Unprefixed \/ b.groups[g].children \subseteq DOMAIN b.groups

SeenSound(s, b) ==
    \A e \in b.seen :
        /\ e = [resource |-> e.resource, host |-> e.host, records |-> e.records]
        /\ e.host \in DOMAIN b.index /\ ReadSound(s, e.resource)

IsRecordOfBook(b) ==
    b = [groups |-> b.groups, hostvars |-> b.hostvars, dbClusters |-> b.dbClusters,
         index |-> b.index, seen |-> b.seen]

BookSound(s, b) ==
    /\ IsRecordOfBook(b) /\ SeenSound(s, b)
    /\ HostsUsable(s, b) /\ GroupsMean(s, b) /\ PushedAreGroups(s, b) /\ ChildrenListed(b)

-----------------------------------------------------------------------------
(* What holds of a process.                                                *)
\* Calls that use what the call before them left.
CallsSound(todo) ==
    \A i \in 2..Len(todo) :
        /\ todo[i].call = "tags" => todo[i - 1].call = "instances"
        /\ todo[i].call = "arns" => todo[i - 1].call = "tags"
        /\ todo[i].call = "databases" => todo[i - 1].call = "arns"

\* What a call needs of the one before it.
Needs(s, w, call) ==
    /\ call = "tags" =>
           /\ w.credentials = Account(s) /\ IsSequence(w.heard)
           /\ \A i \in DOMAIN w.heard : DOMAIN w.heard[i] = ResourceFields /\ w.heard[i].kind = "instance"
    /\ call = "arns" => w.credentials = Account(s)
    /\ call = "databases" => \A i \in DOMAIN w.heard : w.heard[i].credentials = Account(s)

HeadSound(s, w) == w.todo # <<>> => Needs(s, w, Head(w.todo).call)

IsRecordOfWork(w) ==
    w = [wanted |-> w.wanted, again |-> w.again, todo |-> w.todo, heard |-> w.heard,
         records |-> w.records, credentials |-> w.credentials, book |-> w.book,
         asked |-> w.asked]

\* Between two listings of a region, their answers are what comes next needs.
AskedSound(s, w) ==
    /\ w.asked \in Nat
    /\ w.asked # 0 => /\ w.asked < Len(Listings(s))
                      /\ w.todo # <<>> /\ Head(w.todo).call = "instances"
                      /\ Needs(s, w, "tags")

WorkSound(s, w) ==
    /\ IsRecordOfWork(w)
    /\ w.wanted \in Wanted \cup {None}
    /\ w.credentials \in {"own", "role"} /\ (~s.iamRole => w.credentials = "own")
    /\ BookSound(s, w.book)
    /\ IsSequence(w.todo) /\ CallsSound(w.todo) /\ HeadSound(s, w) /\ AskedSound(s, w)

OutputSound(s, o) ==
    /\ o.kind \in {"none", "nothing", "host", "inventory"}
    /\ (o.kind = "inventory" /\ Readable(o.text)) => BookSound(s, o.text)

FileSound(s, file) == Readable(file) => BookSound(s, file)

InventoryInv ==
    /\ settings \in {s.settings : s \in Scenario} /\ world \in DOMAIN Clouds
    /\ fresh \in BOOLEAN /\ accident \in BOOLEAN
    /\ phase \in [Process -> Phase]
    /\ work = [p \in Process |-> work[p]] /\ output = [p \in Process |-> output[p]]
    /\ \A p \in Process : WorkSound(settings, work[p]) /\ OutputSound(settings, output[p])
    /\ \A p \in Process : phase[p] # "calling" => work[p].asked = 0
    /\ FileSound(settings, cache) /\ FileSound(settings, index)

-----------------------------------------------------------------------------
(* Entering a resource.                                                    *)
(* Every child is a group pushed, a parent, or nested without a prefix.    *)
NestSound(m) ==
    \A x \in m.nests :
        x[1] \in Unprefixed \/ x[2] = m.group \/ \E y \in m.nests : y[1] = x[2]

LEMMA PlaceNests ==
    ASSUME NEW s, NEW r, NEW m \in ByRegion(s, r) \cup ByZone(s, r)
    PROVE  NestSound(m)
<1>1. CASE m \in ByRegion(s, r)
  <2>1. m = Under(All("region"), <<r.region>>)
    BY <1>1 DEF ByRegion
  <2>2. QED
    BY <2>1 DEF Under, NestSound
<1>2. CASE m \in ByZone(s, r)
  <2>1. m = [group |-> <<r.zone>>,
             nests |-> {<<All("availability_zone"), <<r.zone>>>>} \cup
                       {<<x.group, <<r.zone>>>> : x \in ByRegion(s, r)}]
    BY <1>2 DEF ByZone
  <2>2. \A x \in m.nests : x[2] = <<r.zone>>
    BY <2>1
  <2>3. QED
    BY <2>1, <2>2 DEF NestSound
<1>3. QED
  BY <1>1, <1>2

LEMMA LabelNests ==
    ASSUME NEW s, NEW r, r.kind \in Kinds, NEW m \in ByLabel(s, r)
    PROVE  NestSound(m)
<1> DEFINE labels == {<<l[1], Safe(l[2])>> : l \in {x \in r.labels : x[1] \in LabelsOf(r) \cap s.groupBy}}
<1>1. PICK l \in labels :
          m = [group |-> GroupOf(l),
               nests |-> IF l[1] = "elasticache_cluster" THEN {}
                         ELSE {<<All(l[1]), ChildOf(r, l)>>}]
  BY DEF ByLabel
<1>2. l[1] \in LabelsOf(r)
  OBVIOUS
<1>3. ChildOf(r, l) # GroupOf(l) => All(l[1]) \in Unprefixed
  <2> SUFFICES ASSUME r.kind \in {"cluster", "replication"},
                      l[1] \notin {"instance_type", "security_group"}
               PROVE  All(l[1]) \in Unprefixed
    BY DEF ChildOf
  <2>1. l[1] \in {"elasticache_engine", "elasticache_parameter_group", "elasticache_replication_group"}
    BY <1>2 DEF LabelsOf
  <2>2. QED
    BY <2>1 DEF Unprefixed
<1>4. \A x \in m.nests : x[1] = All(l[1]) /\ x[2] = ChildOf(r, l)
  BY <1>1
<1>5. QED
  BY <1>1, <1>3, <1>4 DEF NestSound

LEMMA OneTagNests ==
    ASSUME NEW k, NEW v
    PROVE  NestSound(OneTag(k, v))
<1> DEFINE key == <<"tag", Safe(k)>>
           value == <<"tag", Safe(k), Safe(v)>>
           m == OneTag(k, v)
<1>1. CASE v = None
  <2>1. m.group = key /\ m.nests = {<<All("tag_keys"), key>>}
    BY <1>1 DEF OneTag
  <2>2. QED
    BY <2>1 DEF NestSound
<1>2. CASE v # None
  <2>1. m.group = value /\ m.nests = {<<All("tag_keys"), key>>, <<key, value>>}
    BY <1>2 DEF OneTag
  <2>2. QED
    BY <2>1 DEF NestSound
<1>3. QED
  BY <1>1, <1>2

LEMMA TagNests ==
    ASSUME NEW s, NEW r, NEW m \in ByTag(s, r)
    PROVE  NestSound(m)
<1>1. NestSound(Under(All("tag_keys"), <<"tag_none">>))
  BY DEF NestSound, Under
<1>2. m = Under(All("tag_keys"), <<"tag_none">>) \/ \E k, v : m = OneTag(k, v)
  BY DEF ByTag
<1>3. QED
  BY <1>1, <1>2, OneTagNests

LEMMA Route53Nests ==
    ASSUME NEW s, NEW r, NEW records, NEW m \in ByRoute53Name(s, r, records)
    PROVE  NestSound(m)
<1>1. PICK name : m = Under(All("route53_names"), <<name>>)
  BY DEF ByRoute53Name
<1>2. QED
  BY <1>1 DEF Under, NestSound

LEMMA PushSound ==
    ASSUME NEW s, NEW records, NEW r, r.kind \in Kinds, NEW host,
           NEW x \in Pushes(s, records, r, host)
    PROVE  NestSound(x) /\ (x.element = host \/ ListsIdentifiers(x.group))
<1> DEFINE ways == ByRegion(s, r) \cup ByZone(s, r) \cup ByLabel(s, r) \cup ByTag(s, r)
                   \cup ByRoute53Name(s, r, records)
           whole == [group |-> GlobalTag(r), nests |-> {},
                     element |-> IF ListsIdentifiers(GlobalTag(r)) THEN r.id ELSE host]
<1>1. x = whole \/ \E m \in ways : x = [group |-> m.group, element |-> host, nests |-> m.nests]
  BY DEF Pushes
<1>2. ASSUME NEW m \in ways PROVE NestSound(m)
  BY PlaceNests, LabelNests, TagNests, Route53Nests
<1> HIDE DEF ways
<1>3. QED
  BY <1>1, <1>2 DEF NestSound

LEMMA PushAllIs ==
    ASSUME NEW groups, NEW pushes, NEW nests, NEW new, new = PushAll(groups, pushes, nests)
    PROVE  /\ \A g : g \in DOMAIN new <=>
                  \/ g \in DOMAIN groups
                  \/ \E p \in pushes : p.group = g
                  \/ \E x \in nests : x[1] = g
           /\ \A g \in DOMAIN new :
                 /\ \A h : h \in new[g].hosts <=>
                        \/ h \in GroupIn(groups, g).hosts
                        \/ \E p \in pushes : p.group = g /\ p.element = h
                 /\ \A h : h \in new[g].children <=>
                        \/ h \in GroupIn(groups, g).children
                        \/ \E x \in nests : x[1] = g /\ x[2] = h
BY DEF PushAll

LEMMA NestsIs ==
    ASSUME NEW s, NEW r, NEW pushes, NEW nests, nests = Nests(s, r, pushes)
    PROVE  /\ \A x \in nests : /\ s.nested
                               /\ \/ \E p \in pushes : x \in p.nests
                                  \/ "instance_id" \in s.groupBy /\ x[2] = <<r.id>>
           /\ s.nested => \A p \in pushes : p.nests \subseteq nests
BY DEF Nests

LEMMA AssignedIs ==
    ASSUME NEW s, NEW groups, NEW r, NEW host,
           NEW new, new = AssignIdentifier(s, groups, r, host)
    PROVE  LET single(g) == "instance_id" \in s.groupBy /\ g = <<r.id>>
           IN  /\ \A g : g \in DOMAIN new <=> g \in DOMAIN groups \/ single(g)
               /\ \A g \in DOMAIN new :
                      IF single(g) THEN new[g].hosts = {host} /\ new[g].children = {}
                      ELSE new[g] = groups[g]
<1>1. CASE "instance_id" \in s.groupBy
  <2> DEFINE own == [hosts |-> {host}, children |-> {}]
             id == <<r.id>>
  <2>1. new = With(groups, id, own)
    BY <1>1 DEF AssignIdentifier
  <2> HIDE DEF own, id
  <2>2. /\ \A g : g \in DOMAIN new <=> g \in DOMAIN groups \/ g = id
        /\ \A g \in DOMAIN new : IF g = id THEN new[g] = own ELSE new[g] = groups[g]
    BY <2>1 DEF With
  <2>3. own.hosts = {host} /\ own.children = {}
    BY DEF own
  <2>4. QED
    BY <1>1, <2>2, <2>3 DEF id
<1>2. CASE "instance_id" \notin s.groupBy
  BY <1>2 DEF AssignIdentifier
<1>3. QED
  BY <1>1, <1>2

\* What "seen" keeps of an entry.
Entry(r, host, records) == [resource |-> r, host |-> host, records |-> records]

(* What entering a resource changes of a book.                             *)
LEMMA EnterIs ==
    ASSUME NEW s, NEW records, NEW b, NEW r, NEW host, NEW c,
           IsRecordOfBook(b), c = Enter(s, records, b, r, host)
    PROVE  /\ IsRecordOfBook(c)
           /\ c.groups = PushAll(AssignIdentifier(s, b.groups, r, host), Pushes(s, records, r, host),
                                 Nests(s, r, Pushes(s, records, r, host)))
           /\ c.index = With(b.index, host, <<r.region, r.id>>)
           /\ c.seen = b.seen \cup {Entry(r, host, records)}
<1> DEFINE pushes == Pushes(s, records, r, host)
           groups == PushAll(AssignIdentifier(s, b.groups, r, host), pushes, Nests(s, r, pushes))
           new == With(b.index, host, <<r.region, r.id>>)
           seen == b.seen \cup {Entry(r, host, records)}
<1>1. PICK v : c = [b EXCEPT !.groups = groups, !.hostvars = v, !.index = new, !.seen = seen]
  BY DEF Enter, Entry
<1> HIDE DEF groups, new, seen
<1>2. c = [groups |-> groups, hostvars |-> v, dbClusters |-> b.dbClusters, index |-> new, seen |-> seen]
  BY <1>1 DEF IsRecordOfBook
<1>3. QED
  BY <1>2 DEF IsRecordOfBook, groups, new, seen

LEMMA EnterVars ==
    ASSUME NEW s, NEW records, NEW b, NEW r, NEW host, NEW c,
           IsRecordOfBook(b), c = Enter(s, records, b, r, host)
    PROVE  /\ DOMAIN c.hostvars = DOMAIN b.hostvars \cup {host}
           /\ VarsOf(s, r) \in c.hostvars[host]
           /\ \A h \in DOMAIN b.hostvars : h # host => c.hostvars[h] = b.hostvars[h]
<1> DEFINE own == IF r.kind = "node" /\ host \in DOMAIN b.hostvars
                  THEN b.hostvars[host] \cup {VarsOf(s, r)} ELSE {VarsOf(s, r)}
<1>1. VarsOf(s, r) \in own
  OBVIOUS
<1>2. PICK groups, new, seen :
          c = [b EXCEPT !.groups = groups, !.hostvars = With(b.hostvars, host, own),
                        !.index = new, !.seen = seen]
  BY DEF Enter
<1> HIDE DEF own
<1>3. c.hostvars = With(b.hostvars, host, own)
  BY <1>2 DEF IsRecordOfBook
<1>4. QED
  BY <1>1, <1>3 DEF With

(* Entering a resource keeps what holds of a book: a host that is listed   *)
(* gets an entry with it, a group lists no one it did not list before but  *)
(* that host, and a child is a group by the time its parent lists it.      *)
LEMMA EnterKeepsBook ==
    ASSUME NEW s, NEW records, NEW b, BookSound(s, b),
           NEW r, r.kind \in Kinds, ReadSound(s, r), NEW host
    PROVE  BookSound(s, Enter(s, records, b, r, host))
<1> DEFINE c == Enter(s, records, b, r, host)
           pushes == Pushes(s, records, r, host)
           nests == Nests(s, r, pushes)
           old == AssignIdentifier(s, b.groups, r, host)
           new == PushAll(old, pushes, nests)
           e == Entry(r, host, records)
           single(g) == "instance_id" \in s.groupBy /\ g = <<r.id>>
<1>1. /\ pushes = Pushes(s, records, r, host) /\ nests = Nests(s, r, pushes)
      /\ old = AssignIdentifier(s, b.groups, r, host) /\ new = PushAll(old, pushes, nests)
      /\ c = Enter(s, records, b, r, host)
      /\ e = Entry(r, host, records)
  OBVIOUS
<1>2. e.resource = r /\ e.host = host /\ e.records = records
  BY DEF Entry
<1>3. e = [resource |-> e.resource, host |-> e.host, records |-> e.records]
  BY DEF Entry
<1> HIDE DEF c, pushes, nests, old, new, e
<1>4. IsRecordOfBook(b) /\ c = Enter(s, records, b, r, host)
  BY <1>1 DEF BookSound
<1>5. /\ IsRecordOfBook(c) /\ c.groups = new
      /\ DOMAIN c.hostvars = DOMAIN b.hostvars \cup {host}
      /\ VarsOf(s, r) \in c.hostvars[host]
      /\ \A h \in DOMAIN b.hostvars : h # host => c.hostvars[h] = b.hostvars[h]
      /\ c.index = With(b.index, host, <<r.region, r.id>>)
      /\ c.seen = b.seen \cup {e}
  <2>1. /\ IsRecordOfBook(c)
        /\ c.groups = PushAll(AssignIdentifier(s, b.groups, r, host), Pushes(s, records, r, host),
                              Nests(s, r, Pushes(s, records, r, host)))
        /\ c.index = With(b.index, host, <<r.region, r.id>>)
        /\ c.seen = b.seen \cup {Entry(r, host, records)}
    BY <1>4, EnterIs
  <2>2. /\ DOMAIN c.hostvars = DOMAIN b.hostvars \cup {host}
        /\ VarsOf(s, r) \in c.hostvars[host]
        /\ \A h \in DOMAIN b.hostvars : h # host => c.hostvars[h] = b.hostvars[h]
    BY <1>4, EnterVars
  <2>3. c.groups = new /\ c.seen = b.seen \cup {e}
    BY <1>1, <2>1
  <2>4. QED
    BY <2>1, <2>2, <2>3
<1>6. /\ DOMAIN c.index = DOMAIN b.index \cup {host} /\ c.index[host] = <<r.region, r.id>>
      /\ \A h \in DOMAIN b.index : h # host => c.index[h] = b.index[h]
  BY <1>5 DEF With
<1>7. \A x \in pushes : NestSound(x) /\ (x.element = host \/ ListsIdentifiers(x.group))
  BY <1>1, PushSound
<1>8. /\ \A g : g \in DOMAIN new <=>
             \/ g \in DOMAIN old
             \/ \E p \in pushes : p.group = g
             \/ \E x \in nests : x[1] = g
      /\ \A g \in DOMAIN new :
            /\ \A h : h \in new[g].hosts <=>
                   \/ h \in GroupIn(old, g).hosts
                   \/ \E p \in pushes : p.group = g /\ p.element = h
            /\ \A h : h \in new[g].children <=>
                   \/ h \in GroupIn(old, g).children
                   \/ \E x \in nests : x[1] = g /\ x[2] = h
  BY <1>1, PushAllIs
<1>9. /\ \A g : g \in DOMAIN old <=> g \in DOMAIN b.groups \/ single(g)
      /\ \A g \in DOMAIN old :
             IF single(g) THEN old[g].hosts = {host} /\ old[g].children = {}
             ELSE old[g] = b.groups[g]
  BY <1>1, AssignedIs
<1>10. PushedBy(s, c) = PushedBy(s, b) \cup pushes
  <2>1. Pushes(s, e.records, e.resource, e.host) = pushes
    BY <1>1, <1>2
  <2>2. QED
    BY <1>5, <2>1 DEF PushedBy
<1>11. SeenSound(s, c)
  BY <1>5, <1>6, <1>2, <1>3 DEF SeenSound, BookSound
<1>12. HostsUsable(s, c)
  <2> SUFFICES ASSUME NEW g \in DOMAIN new, NEW h \in new[g].hosts, ~ListsIdentifiers(g)
               PROVE  /\ h \in DOMAIN c.index /\ h \in DOMAIN c.hostvars
                      /\ \E f \in c.seen : /\ f.host = h
                                           /\ c.index[h] = <<f.resource.region, f.resource.id>>
                                           /\ VarsOf(s, f.resource) \in c.hostvars[h]
    BY <1>5 DEF HostsUsable
  <2>1. CASE h = host
    BY <1>5, <1>6, <1>2, <2>1
  <2>2. CASE h # host
    <3>1. h \in GroupIn(old, g).hosts
      BY <1>7, <1>8, <2>2
    <3>2. g \in DOMAIN old /\ h \in old[g].hosts
      BY <3>1 DEF GroupIn, NoGroup
    <3>3. g \in DOMAIN b.groups /\ h \in b.groups[g].hosts
      BY <1>9, <2>2, <3>2
    <3>4. /\ h \in DOMAIN b.index /\ h \in DOMAIN b.hostvars
          /\ \E f \in b.seen : /\ f.host = h
                               /\ b.index[h] = <<f.resource.region, f.resource.id>>
                               /\ VarsOf(s, f.resource) \in b.hostvars[h]
      BY <3>3 DEF BookSound, HostsUsable
    <3>5. QED
      BY <1>5, <1>6, <2>2, <3>4
  <2>3. QED
    BY <2>1, <2>2
<1>13. GroupsMean(s, c)
  <2> SUFFICES ASSUME NEW g \in DOMAIN new,
                      ~("instance_id" \in s.groupBy /\ g \in {<<x.resource.id>> : x \in c.seen})
               PROVE  new[g].hosts = {x.element : x \in {y \in PushedBy(s, c) : y.group = g}}
    BY <1>5 DEF GroupsMean
  <2>1. ~single(g)
    BY <1>5, <1>2
  <2>2. ~("instance_id" \in s.groupBy /\ g \in {<<x.resource.id>> : x \in b.seen})
    BY <1>5
  <2>3. GroupIn(old, g).hosts = {x.element : x \in {y \in PushedBy(s, b) : y.group = g}}
    <3>1. CASE g \in DOMAIN b.groups
      <4>1. GroupIn(old, g).hosts = b.groups[g].hosts
        BY <1>9, <2>1, <3>1 DEF GroupIn
      <4>2. b.groups[g].hosts = {x.element : x \in {y \in PushedBy(s, b) : y.group = g}}
        BY <2>2, <3>1 DEF BookSound, GroupsMean
      <4>3. QED
        BY <4>1, <4>2
    <3>2. CASE g \notin DOMAIN b.groups
      <4>1. GroupIn(old, g).hosts = {}
        BY <1>9, <2>1, <3>2 DEF GroupIn, NoGroup
      <4>2. {y \in PushedBy(s, b) : y.group = g} = {}
        BY <3>2 DEF BookSound, PushedAreGroups
      <4>3. QED
        BY <4>1, <4>2
    <3>3. QED
      BY <3>1, <3>2
  <2>4. \A h : h \in new[g].hosts <=>
            \/ h \in GroupIn(old, g).hosts
            \/ \E p \in pushes : p.group = g /\ p.element = h
    BY <1>8
  <2>5. QED
    BY <1>10, <2>3, <2>4
<1>14. PushedAreGroups(s, c)
  <2>1. ASSUME NEW x \in PushedBy(s, b) PROVE x.group \in DOMAIN new
    BY <1>8, <1>9 DEF BookSound, PushedAreGroups
  <2>2. ASSUME NEW x \in pushes PROVE x.group \in DOMAIN new
    BY <1>8
  <2>3. QED
    BY <1>5, <1>10, <2>1, <2>2 DEF PushedAreGroups
<1>15. ChildrenListed(c)
  <2> SUFFICES ASSUME NEW g \in DOMAIN new, g \notin Unprefixed, NEW child \in new[g].children
               PROVE  child \in DOMAIN new
    BY <1>5 DEF ChildrenListed
  <2>1. CASE child \in GroupIn(old, g).children
    <3>1. g \in DOMAIN old /\ child \in old[g].children
      BY <2>1 DEF GroupIn, NoGroup
    <3>2. g \in DOMAIN b.groups /\ child \in b.groups[g].children
      BY <1>9, <3>1
    <3>3. child \in DOMAIN b.groups
      BY <3>2 DEF BookSound, ChildrenListed
    <3>4. QED
      BY <1>8, <1>9, <3>3
  <2>2. CASE child \notin GroupIn(old, g).children
    <3>1. PICK x \in nests : x[1] = g /\ x[2] = child
      BY <1>8, <2>2
    <3>2. CASE single(x[2])
      BY <1>8, <1>9, <3>1, <3>2
    <3>3. CASE ~single(x[2])
      <4>1. s.nested /\ \E p \in pushes : x \in p.nests
        BY <1>1, <3>3, NestsIs
      <4>2. PICK p \in pushes : x \in p.nests
        BY <4>1
      <4>3. x[2] = p.group \/ \E y \in p.nests : y[1] = x[2]
        BY <1>7, <3>1, <4>2 DEF NestSound
      <4>4. \A y \in p.nests : y \in nests
        BY <1>1, <4>1, <4>2, NestsIs
      <4>5. QED
        BY <1>8, <3>1, <4>3, <4>4
    <3>4. QED
      BY <3>2, <3>3
  <2>3. QED
    BY <2>1, <2>2
<1>16. QED
  BY <1>5, <1>11, <1>12, <1>13, <1>14, <1>15 DEF BookSound, c

LEMMA EmptyBookSound ==
    ASSUME NEW s
    PROVE  BookSound(s, EmptyBook)
<1>1. /\ EmptyBook.groups = <<>> /\ EmptyBook.seen = {} /\ IsRecordOfBook(EmptyBook)
  BY DEF EmptyBook, IsRecordOfBook
<1>2. DOMAIN EmptyBook.groups = {} /\ PushedBy(s, EmptyBook) = {}
  BY <1>1 DEF PushedBy
<1>3. QED
  BY <1>1, <1>2 DEF BookSound, SeenSound, HostsUsable, GroupsMean, PushedAreGroups, ChildrenListed

(* db_clusters stands beside the groups.                                   *)
LEMMA ClustersKeepBook ==
    ASSUME NEW s, NEW b, NEW clusters, BookSound(s, b)
    PROVE  BookSound(s, [b EXCEPT !.dbClusters = clusters])
<1> DEFINE c == [b EXCEPT !.dbClusters = clusters]
<1>1. b = [groups |-> b.groups, hostvars |-> b.hostvars, dbClusters |-> b.dbClusters,
           index |-> b.index, seen |-> b.seen]
  BY DEF BookSound, IsRecordOfBook
<1>2. c = [groups |-> b.groups, hostvars |-> b.hostvars, dbClusters |-> clusters,
           index |-> b.index, seen |-> b.seen]
  BY <1>1
<1> HIDE DEF c
<1>3. /\ IsRecordOfBook(c) /\ c.groups = b.groups /\ c.hostvars = b.hostvars
      /\ c.index = b.index /\ c.seen = b.seen
  BY <1>2 DEF IsRecordOfBook
<1>4. BookSound(s, c)
  BY <1>3 DEF BookSound, SeenSound, HostsUsable, GroupsMean, PushedAreGroups, ChildrenListed, PushedBy
<1>5. QED
  BY <1>4 DEF c

(* The index of the file goes with a book only if nothing was entered.     *)
LEMMA LoadedBookSound ==
    ASSUME NEW s, NEW b, NEW known, BookSound(s, b), known = b.index \/ b.index = <<>>
    PROVE  BookSound(s, [b EXCEPT !.index = known])
<1> DEFINE c == [b EXCEPT !.index = known]
<1>1. b = [groups |-> b.groups, hostvars |-> b.hostvars, dbClusters |-> b.dbClusters,
           index |-> b.index, seen |-> b.seen]
  BY DEF BookSound, IsRecordOfBook
<1>2. c = [groups |-> b.groups, hostvars |-> b.hostvars, dbClusters |-> b.dbClusters,
           index |-> known, seen |-> b.seen]
  BY <1>1
<1> SUFFICES BookSound(s, c)
  OBVIOUS
<1> HIDE DEF c
<1>3. /\ IsRecordOfBook(c) /\ c.groups = b.groups /\ c.hostvars = b.hostvars
      /\ c.index = known /\ c.seen = b.seen
  BY <1>2 DEF IsRecordOfBook
<1>4. GroupsMean(s, c) /\ PushedAreGroups(s, c) /\ ChildrenListed(c)
  <2>1. PushedBy(s, c) = PushedBy(s, b)
    BY <1>3 DEF PushedBy
  <2>2. QED
    BY <1>3, <2>1 DEF BookSound, GroupsMean, PushedAreGroups, ChildrenListed
<1>5. CASE known = b.index
  <2>1. SeenSound(s, c)
    BY <1>3, <1>5 DEF BookSound, SeenSound
  <2>2. HostsUsable(s, c)
    BY <1>3, <1>5 DEF BookSound, HostsUsable
  <2>3. QED
    BY <1>3, <1>4, <2>1, <2>2 DEF BookSound
<1>6. CASE b.index = <<>>
  <2>1. DOMAIN b.index = {}
    BY <1>6
  <2>2. b.seen = {}
    BY <2>1 DEF BookSound, SeenSound
  <2>3. \A g \in DOMAIN b.groups : \A h \in b.groups[g].hosts : ListsIdentifiers(g)
    BY <2>1 DEF BookSound, HostsUsable
  <2>4. SeenSound(s, c)
    BY <1>3, <2>2 DEF SeenSound
  <2>5. HostsUsable(s, c)
    BY <1>3, <2>3 DEF HostsUsable
  <2>6. QED
    BY <1>3, <1>4, <2>4, <2>5 DEF BookSound
<1>7. QED
  BY <1>5, <1>6

LEMMA AddedKeepsBook ==
    ASSUME NEW s, NEW records, NEW b, BookSound(s, b),
           NEW r, r.kind \in Kinds, ReadSound(s, r), NEW c \in Added(s, records, b, r)
    PROVE  BookSound(s, c)
<1>1. c = b \/ \E host : c = Enter(s, records, b, r, host)
  BY DEF Added
<1>2. QED
  BY <1>1, EnterKeepsBook

(* So does entering one resource after the other.                          *)
LEMMA AddedAllKeepsBook ==
    ASSUME NEW s, NEW records, NEW b, BookSound(s, b), NEW found, IsSequence(found),
           \A i \in DOMAIN found : found[i].kind \in Kinds /\ ReadSound(s, found[i]),
           NEW c \in AddedAll(s, records, b, found)
    PROVE  BookSound(s, c)
<1>1. Len(found) \in Nat /\ DOMAIN found = 1..Len(found)
  BY SequenceHas
<1>2. PICK g : /\ g[0] = {b} /\ AddedAll(s, records, b, found) = g[Len(found)]
               /\ \A i \in 1..Len(found) : \A x \in g[i] :
                      \E y \in g[i - 1] : x \in Added(s, records, y, found[i])
  BY AddedAllUnfolds
<1> DEFINE T == {k \in Nat : k <= Len(found) => \A x \in g[k] : BookSound(s, x)}
<1>3. 0 \in T
  BY <1>2
<1>4. ASSUME NEW k \in T PROVE k + 1 \in T
  <2> SUFFICES ASSUME k + 1 <= Len(found), NEW x \in g[k + 1] PROVE BookSound(s, x)
    OBVIOUS
  <2>1. k + 1 \in 1..Len(found) /\ (k + 1) - 1 = k /\ k <= Len(found)
    BY <1>1
  <2>2. PICK y \in g[k] : x \in Added(s, records, y, found[k + 1])
    BY <1>2, <2>1
  <2>3. BookSound(s, y)
    BY <2>1
  <2>4. QED
    BY <1>1, <2>1, <2>2, <2>3, AddedKeepsBook
<1> HIDE DEF T
<1>5. T = Nat
  BY <1>3, <1>4, NatSetInduction DEF T
<1>6. Len(found) \in T
  BY <1>1, <1>5
<1>7. QED
  BY <1>1, <1>2, <1>6 DEF T

-----------------------------------------------------------------------------
(* The calls of a run.                                                     *)
\* Calls that begin with one that uses nothing of an earlier one.
PlanSound(q) ==
    CallsSound(q) /\ (Len(q) > 0 => q[1].call \notin {"tags", "arns", "databases"})

LEMMA JoinedPlans ==
    ASSUME NEW S, NEW a \in Seq(S), NEW b \in Seq(S), PlanSound(a), PlanSound(b)
    PROVE  a \o b \in Seq(S) /\ PlanSound(a \o b)
<1>1. /\ a \o b \in Seq(S) /\ Len(a \o b) = Len(a) + Len(b) /\ Len(a) \in Nat /\ Len(b) \in Nat
      /\ \A i \in 1..Len(a \o b) : (a \o b)[i] = IF i <= Len(a) THEN a[i] ELSE b[i - Len(a)]
  BY ConcatProperties, LenProperties
<1> DEFINE q == a \o b
<1> HIDE DEF q
<1>2. ASSUME NEW i \in 2..Len(q)
      PROVE  /\ q[i].call = "tags" => q[i - 1].call = "instances"
             /\ q[i].call = "arns" => q[i - 1].call = "tags"
             /\ q[i].call = "databases" => q[i - 1].call = "arns"
  <2>0. i \in 1..Len(q) /\ i - 1 \in 1..Len(q)
    BY <1>1 DEF q
  <2>1. CASE i <= Len(a)
    <3>1. i \in 2..Len(a) /\ q[i] = a[i] /\ q[i - 1] = a[i - 1]
      BY <1>1, <2>0, <2>1 DEF q
    <3>2. QED
      BY <3>1 DEF PlanSound, CallsSound
  <2>2. CASE i = Len(a) + 1
    <3>1. Len(b) > 0 /\ q[i] = b[1]
      BY <1>1, <2>0, <2>2 DEF q
    <3>2. QED
      BY <3>1 DEF PlanSound
  <2>3. CASE i > Len(a) + 1
    <3>1. /\ i - Len(a) \in 2..Len(b) /\ q[i] = b[i - Len(a)]
          /\ q[i - 1] = b[(i - Len(a)) - 1]
      <4>1. (i - 1) - Len(a) = (i - Len(a)) - 1 /\ ~(i <= Len(a)) /\ ~(i - 1 <= Len(a))
        BY <1>1, <2>0, <2>3
      <4>2. i - Len(a) \in 2..Len(b)
        BY <1>1, <2>0, <2>3 DEF q
      <4>3. QED
        BY <1>1, <2>0, <4>1, <4>2 DEF q
    <3>2. QED
      BY <3>1 DEF PlanSound, CallsSound
  <2>4. QED
    BY <1>1, <2>0, <2>1, <2>2, <2>3 DEF q
<1>3. Len(q) > 0 => q[1].call \notin {"tags", "arns", "databases"}
  <2> SUFFICES ASSUME Len(q) > 0 PROVE q[1].call \notin {"tags", "arns", "databases"}
    OBVIOUS
  <2>1. CASE Len(a) > 0
    <3>1. q[1] = a[1]
      BY <1>1, <2>1 DEF q
    <3>2. QED
      BY <2>1, <3>1 DEF PlanSound
  <2>2. CASE Len(a) = 0
    <3>1. q[1] = b[1] /\ Len(b) > 0
      BY <1>1, <2>2 DEF q
    <3>2. QED
      BY <3>1 DEF PlanSound
  <2>3. QED
    BY <1>1, <2>1, <2>2
<1>4. QED
  BY <1>1, <1>2, <1>3 DEF q, PlanSound, CallsSound

CallName == {"records", "instances", "tags", "arns", "databases", "clusters",
             "replications", "dbClusters"}

Call(R) == [call : CallName, region : R]

Free == CallName \ {"tags", "arns", "databases"}

LEMMA CallsAtSound ==
    ASSUME NEW R, NEW region \in R, NEW n \in Nat, NEW calls \in [1..n -> CallName],
           \A i \in 2..n : /\ calls[i] = "tags" => calls[i - 1] = "instances"
                           /\ calls[i] = "arns" => calls[i - 1] = "tags"
                           /\ calls[i] = "databases" => calls[i - 1] = "arns",
           n > 0 => calls[1] \in Free
    PROVE  At(region, calls) \in Seq(Call(R)) /\ PlanSound(At(region, calls))
<1> DEFINE q == At(region, calls)
<1>1. q \in [1..n -> Call(R)] /\ \A i \in 1..n : q[i].call = calls[i]
  BY DEF At, Call
<1>2. q \in Seq(Call(R)) /\ Len(q) = n
  BY <1>1, LenProperties
<1> HIDE DEF q
<1>3. \A i \in 2..n : i \in 1..n /\ i - 1 \in 1..n
  OBVIOUS
<1>4. CallsSound(q)
  BY <1>1, <1>2, <1>3 DEF CallsSound
<1>5. Len(q) > 0 => q[1].call \notin {"tags", "arns", "databases"}
  BY <1>1, <1>2 DEF Free
<1>6. QED
  BY <1>2, <1>4, <1>5 DEF PlanSound, q

LEMMA FreeCallsAtSound ==
    ASSUME NEW R, NEW region \in R, NEW n \in Nat, NEW calls \in [1..n -> Free]
    PROVE  At(region, calls) \in Seq(Call(R)) /\ PlanSound(At(region, calls))
<1>1. /\ calls \in [1..n -> CallName]
      /\ \A i \in 1..n : calls[i] \in Free /\ calls[i] \notin {"tags", "arns", "databases"}
  BY DEF Free
<1>2. \A i \in 2..n : i \in 1..n
  OBVIOUS
<1>3. n > 0 => 1 \in 1..n
  OBVIOUS
<1>4. QED
  BY <1>1, <1>2, <1>3, CallsAtSound

LEMMA CallsOfSound ==
    ASSUME NEW s, NEW R, NEW region \in R
    PROVE  CallsOf(s, region) \in Seq(Call(R)) /\ PlanSound(CallsOf(s, region))
<1> DEFINE a == IF s.rds THEN <<"instances", "tags", "arns", "databases">>
                ELSE <<"instances", "tags">>
           b == IF s.elasticache THEN <<"clusters", "replications">> ELSE <<>>
           c == IF s.dbClusters THEN <<"dbClusters">> ELSE <<>>
<1>1. At(region, a) \in Seq(Call(R)) /\ PlanSound(At(region, a))
  <2>1. CASE s.rds
    <3>1. a = <<"instances", "tags", "arns", "databases">>
      BY <2>1
    <3>2. a \in [1..4 -> CallName] /\ a[1] \in Free
      BY <3>1 DEF CallName, Free
    <3>3. /\ a[2] = "tags" /\ a[3] = "arns" /\ a[4] = "databases" /\ a[1] = "instances"
          /\ \A i \in 2..4 : i = 2 \/ i = 3 \/ i = 4
      BY <3>1
    <3> HIDE DEF a
    <3>4. \A i \in 2..4 : /\ a[i] = "tags" => a[i - 1] = "instances"
                          /\ a[i] = "arns" => a[i - 1] = "tags"
                          /\ a[i] = "databases" => a[i - 1] = "arns"
      BY <3>3
    <3>5. QED
      BY <3>2, <3>4, CallsAtSound
  <2>2. CASE ~s.rds
    <3>1. a = <<"instances", "tags">>
      BY <2>2
    <3>2. a \in [1..2 -> CallName] /\ a[1] = "instances" /\ a[2] = "tags" /\ a[1] \in Free
      BY <3>1 DEF CallName, Free
    <3> HIDE DEF a
    <3>3. \A i \in 2..2 : /\ a[i] = "tags" => a[i - 1] = "instances"
                          /\ a[i] = "arns" => a[i - 1] = "tags"
                          /\ a[i] = "databases" => a[i - 1] = "arns"
      BY <3>2
    <3>4. QED
      BY <3>2, <3>3, CallsAtSound
  <2>3. QED
    BY <2>1, <2>2
<1>2. At(region, b) \in Seq(Call(R)) /\ PlanSound(At(region, b))
  <2>1. b \in [1..2 -> Free] \/ b \in [1..0 -> Free]
    BY DEF CallName, Free
  <2> HIDE DEF b
  <2>2. QED
    BY <2>1, FreeCallsAtSound
<1>3. At(region, c) \in Seq(Call(R)) /\ PlanSound(At(region, c))
  <2>1. c \in [1..1 -> Free] \/ c \in [1..0 -> Free]
    BY DEF CallName, Free
  <2> HIDE DEF c
  <2>2. QED
    BY <2>1, FreeCallsAtSound
<1> DEFINE ab == At(region, a) \o At(region, b)
<1>4. ab \in Seq(Call(R)) /\ PlanSound(ab)
  BY <1>1, <1>2, JoinedPlans
<1>5. CallsOf(s, region) = ab \o At(region, c)
  BY DEF CallsOf
<1> HIDE DEF a, b, c, ab
<1>6. QED
  BY <1>3, <1>4, <1>5, JoinedPlans

LEMMA RegionsAreSequence ==
    ASSUME NEW s, IsSequence(s.regions)
    PROVE  IsSequence(Regions(s))
<1>1. IsSequence(Chosen(AwsRegions, ToSet(AwsRegions) \ s.excluded))
  <2>1. IsSequence(AwsRegions)
    BY InventoryAssumption
  <2> DEFINE all == ToSet(AwsRegions)
  <2>2. Chosen(AwsRegions, all \ s.excluded) \in Seq(all \cap (all \ s.excluded))
    BY <2>1, ChosenOf
  <2>3. QED
    BY <2>2, SequenceOver
<1>2. IsSequence(<<s.envRegion>>)
  <2>1. <<s.envRegion>> \in Seq({s.envRegion})
    OBVIOUS
  <2>2. QED
    BY <2>1, SequenceOver
<1>3. QED
  BY <1>1, <1>2 DEF Regions

(* A refresh begins with a call that uses nothing of another, and every    *)
(* call that does comes right after the one it needs.                      *)
LEMMA PlanIsSound ==
    ASSUME NEW s, IsSequence(s.regions)
    PROVE  IsSequence(Plan(s)) /\ PlanSound(Plan(s))
<1> DEFINE q == Regions(s)
           R == ToSet(q) \cup {None}
           Good == {x \in Seq(Call(R)) : PlanSound(x)}
           lists == [i \in DOMAIN q |-> CallsOf(s, q[i])]
           first == At(None, IF s.route53 THEN <<"records">> ELSE <<>>)
<1>1. IsSequence(q) /\ Len(q) \in Nat /\ DOMAIN q = 1..Len(q) /\ \A i \in DOMAIN q : q[i] \in R
  <2>1. IsSequence(q)
    BY RegionsAreSequence
  <2> HIDE DEF q
  <2>2. QED
    BY <2>1, SequenceHas
<1>2. <<>> \in Good
  <2>1. <<>> \in Seq(Call(R)) /\ Len(<<>>) = 0
    BY EmptySeq
  <2>2. QED
    BY <2>1 DEF PlanSound, CallsSound
<1>3. \A a, b \in Good : a \o b \in Good
  BY JoinedPlans
<1>4. first \in Good
  <2> DEFINE calls == IF s.route53 THEN <<"records">> ELSE <<>>
  <2>1. calls \in [1..1 -> Free] \/ calls \in [1..0 -> Free]
    BY DEF CallName, Free
  <2> HIDE DEF calls
  <2>2. At(None, calls) \in Seq(Call(R)) /\ PlanSound(At(None, calls))
    BY <2>1, FreeCallsAtSound
  <2>3. QED
    BY <2>2 DEF calls
<1>5. IsSequence(lists) /\ \A i \in DOMAIN lists : lists[i] \in Good
  <2>1. \A i \in DOMAIN q : CallsOf(s, q[i]) \in Good
    BY <1>1, CallsOfSound
  <2> HIDE DEF q, Good
  <2>2. lists = [i \in 1..Len(q) |-> lists[i]]
    BY <1>1
  <2>3. \A i \in DOMAIN lists : lists[i] \in Good
    BY <2>1
  <2> HIDE DEF lists
  <2>4. QED
    BY <1>1, <2>2, <2>3, SequenceMap
<1>6. Plan(s) = first \o FlattenSeq(lists)
  BY DEF Plan
<1> HIDE DEF first, lists, q
<1>7. FlattenSeq(lists) \in Good
  <2> HIDE DEF Good
  <2>1. QED
    BY <1>2, <1>3, <1>5, FlattenIn
<1>8. Plan(s) \in Good
  BY <1>3, <1>4, <1>6, <1>7
<1>9. QED
  BY <1>8, SequenceOver

-----------------------------------------------------------------------------
(* What the cloud answers.                                                 *)
IsResource(r) == DOMAIN r = ResourceFields /\ IsSequence(r.nodes)

\* The list of this kind and region, as the cloud is now.
There(kind, region) ==
    {r \in ToSet(Clouds[world].resources) : r.kind = kind /\ r.region = region}

LEMMA ResourcesAre ==
    ASSUME NEW kind, NEW region, world \in DOMAIN Clouds
    PROVE  /\ Resources(kind, region) \in Seq(There(kind, region))
           /\ \A r \in There(kind, region) : IsResource(r) /\ r.kind = kind
           /\ \A q, r \in There(kind, region) : q.id = r.id => q = r
<1> DEFINE all == Clouds[world].resources
<1>1. Clouds[world] \in ToSet(Clouds)
  <2>1. ToSet(Clouds) = {Clouds[i] : i \in DOMAIN Clouds}
    BY DEF ToSet
  <2>2. QED
    BY <2>1
<1>2. /\ IsSequence(all) /\ \A r \in ToSet(all) : IsResource(r)
      /\ \A q, r \in ToSet(all) : q.kind = r.kind /\ q.region = r.region /\ q.id = r.id => q = r
  BY <1>1, InventoryAssumption DEF IsResource
<1> DEFINE S == {r \in ToSet(all) : r.kind = kind /\ r.region = region}
<1>3. Chosen(all, S) \in Seq(ToSet(all) \cap S)
  BY <1>2, ChosenOf
<1>4. ToSet(all) \cap S = There(kind, region)
  BY DEF There
<1>5. Resources(kind, region) \in Seq(There(kind, region))
  BY <1>3, <1>4 DEF Resources, ResourcesOf
<1>6. QED
  BY <1>2, <1>5 DEF There

(* While nothing changes, the tags asked for are those of the resource.    *)
LEMMA TagsNowAre ==
    ASSUME NEW kind, NEW region, world \in DOMAIN Clouds,
           NEW i \in DOMAIN Resources(kind, region)
    PROVE  TagsNow(kind, region, Resources(kind, region)[i].id) = Resources(kind, region)[i].tags
<1> DEFINE q == Resources(kind, region)
           now == {r \in ToSet(q) : r.id = q[i].id}
<1>1. /\ q \in Seq(There(kind, region))
      /\ \A x, y \in There(kind, region) : x.id = y.id => x = y
  BY ResourcesAre
<1>2. TagsNow(kind, region, q[i].id) = IF now = {} THEN <<>> ELSE (CHOOSE r \in now : TRUE).tags
  BY DEF TagsNow
<1> HIDE DEF q
<1>3. ToSet(q) \subseteq There(kind, region) /\ q[i] \in ToSet(q)
  BY <1>1, SequenceOver, SequenceHas DEF q
<1>4. now = {q[i]}
  BY <1>1, <1>3
<1>5. QED
  BY <1>2, <1>4 DEF q

(* There is at least one listing of a region.                              *)
LEMMA ListingsAre ==
    ASSUME NEW s, IsSequence(s.filterSets)
    PROVE  /\ Len(Listings(s)) \in Nat \ {0} /\ DOMAIN Listings(s) = 1..Len(Listings(s))
           /\ Listings(s) # <<>>
<1> DEFINE one == <<Merged(Filters(s))>>
           filters == [i \in 1..Len(s.filterSets) |-> FilterOf(s.filterSets[i])]
<1>1. Listings(s) = IF Filters(s) = <<>> \/ s.stack THEN one ELSE Filters(s)
  BY DEF Listings
<1>2. DOMAIN s.filterSets = 1..Len(s.filterSets) /\ Len(s.filterSets) \in Nat
  BY SequenceHas
<1>3. Filters(s) = filters
  BY <1>2 DEF Filters
<1>4. IsSequence(filters) /\ Len(filters) = Len(s.filterSets)
  BY <1>2, SequenceMap
<1>5. Len(one) = 1 /\ DOMAIN one = 1..1
  OBVIOUS
<1>6. CASE Filters(s) = <<>> \/ s.stack
  BY <1>1, <1>5, <1>6
<1>7. CASE ~(Filters(s) = <<>> \/ s.stack)
  <2>1. filters # <<>> /\ Listings(s) = filters
    BY <1>1, <1>3, <1>7
  <2> DEFINE S == ToSet(filters)
  <2>2. filters \in Seq(S)
    BY <1>4 DEF IsSequence
  <2> HIDE DEF filters, S
  <2>3. Len(filters) \in Nat \ {0} /\ DOMAIN filters = 1..Len(filters)
    BY <2>1, <2>2, EmptySeq
  <2>4. QED
    BY <2>1, <2>3
<1>8. QED
  BY <1>6, <1>7

LEMMA ListedAre ==
    ASSUME NEW filter, NEW instances, IsSequence(instances)
    PROVE  ListedBy(filter, instances) \in Seq(ToSet(instances))
<1> DEFINE S == {r \in ToSet(instances) : ServerMatches(filter, r)}
<1>1. Chosen(instances, S) \in Seq(ToSet(instances) \cap S)
  BY ChosenOf
<1>2. ToSet(instances) \cap S \subseteq ToSet(instances)
  OBVIOUS
<1>3. ListedBy(filter, instances) = Chosen(instances, S)
  BY DEF ListedBy
<1> HIDE DEF S
<1>4. QED
  BY <1>1, <1>2, <1>3, LenProperties

LEMMA ReadAsIs ==
    ASSUME NEW r, NEW own, NEW orderly, NEW credentials, NEW x,
           x = ReadAs(r, own, orderly, credentials), DOMAIN r = ResourceFields
    PROVE  /\ DOMAIN x = ResourceFields \cup {"read"}
           /\ x.kind = r.kind /\ x.tags = r.tags /\ x.nodes = r.nodes
           /\ x.read.own = own /\ x.read.orderly = orderly /\ x.read.credentials = credentials
<1> DEFINE read == [own |-> own, orderly |-> orderly, credentials |-> credentials]
<1>1. x = With(r, "read", read)
  BY DEF ReadAs
<1>2. read.own = own /\ read.orderly = orderly /\ read.credentials = credentials
  OBVIOUS
<1> HIDE DEF read
<1>3. DOMAIN x = ResourceFields \cup {"read"} /\ x.read = read
  BY <1>1 DEF With
<1>4. x.kind = r.kind /\ x.tags = r.tags /\ x.nodes = r.nodes
  BY <1>1 DEF With, ResourceFields
<1>5. QED
  BY <1>2, <1>3, <1>4

\* What AddedAllKeepsBook asks of a resource.
Enterable(s, r) == r.kind \in Kinds /\ ReadSound(s, r)

LEMMA ReadEnterable ==
    ASSUME NEW s, NEW r, NEW own, NEW orderly,
           DOMAIN r = ResourceFields, r.kind \in Kinds, orderly => r.tags = own
    PROVE  Enterable(s, ReadAs(r, own, orderly, Account(s)))
<1>1. PICK x : x = ReadAs(r, own, orderly, Account(s))
  OBVIOUS
<1>2. /\ x.kind = r.kind /\ x.tags = r.tags
      /\ x.read.own = own /\ x.read.orderly = orderly /\ x.read.credentials = Account(s)
  BY <1>1, ReadAsIs
<1>3. QED
  BY <1>1, <1>2 DEF Enterable, ReadSound

(* The nodes of a cluster are read with it.                                *)
LEMMA WithNodesAre ==
    ASSUME NEW s, NEW found, IsSequence(found),
           \A i \in DOMAIN found : /\ DOMAIN found[i] = ResourceFields \cup {"read"}
                                   /\ IsSequence(found[i].nodes) /\ Enterable(s, found[i])
    PROVE  /\ IsSequence(WithNodes(s, found))
           /\ \A i \in DOMAIN WithNodes(s, found) : Enterable(s, WithNodes(s, found)[i])
<1> DEFINE nodes == UNION {ToSet(NodesOf(found[i])) : i \in DOMAIN found}
           X == {r \in ToSet(found) \cup nodes : Enterable(s, r)}
           list(i) == IF Gathered(s, found[i]) THEN <<found[i]>> \o NodesOf(found[i]) ELSE <<>>
           lists == [i \in DOMAIN found |-> list(i)]
<1>1. Len(found) \in Nat /\ DOMAIN found = 1..Len(found) /\ ToSet(found) = {found[i] : i \in 1..Len(found)}
  BY SequenceHas
<1>2. ASSUME NEW i \in DOMAIN found PROVE NodesOf(found[i]) \in Seq(X)
  <2> DEFINE c == found[i]
             q == NodesOf(c)
  <2>1. Len(c.nodes) \in Nat /\ DOMAIN c.nodes = 1..Len(c.nodes)
    BY SequenceHas
  <2>2. ASSUME NEW j \in 1..Len(c.nodes) PROVE q[j] \in X
    <3>1. PICK id, state, attrs :
              q[j] = [c EXCEPT !.kind = "node", !.id = id, !.state = state, !.attrs = attrs]
      BY <2>1 DEF NodesOf
    <3>2. q[j].kind = "node" /\ q[j].read = c.read /\ q[j].tags = c.tags
      BY <3>1 DEF ResourceFields
    <3>3. Enterable(s, q[j])
      BY <3>2 DEF Enterable, ReadSound, Kinds
    <3>4. q[j] \in ToSet(q)
      BY <2>1 DEF ToSet, NodesOf
    <3> HIDE DEF q
    <3>5. ToSet(NodesOf(found[i])) \subseteq nodes
      OBVIOUS
    <3>6. QED
      BY <3>3, <3>4, <3>5 DEF q
  <2>3. q = [j \in 1..Len(c.nodes) |-> q[j]]
    BY <2>1 DEF NodesOf
  <2> HIDE DEF q, X
  <2>4. q \in Seq(X)
    BY <2>1, <2>2, <2>3
  <2>5. QED
    BY <2>4 DEF q
<1>3. \A i \in DOMAIN found : found[i] \in X
  BY <1>1
<1> HIDE DEF X
<1>4. <<>> \in Seq(X) /\ \A a, b \in Seq(X) : a \o b \in Seq(X)
  BY EmptySeq, ConcatProperties
<1>5. ASSUME NEW i \in DOMAIN found PROVE list(i) \in Seq(X)
  <2>1. <<found[i]>> \in Seq(X)
    BY <1>3
  <2>2. NodesOf(found[i]) \in Seq(X)
    BY <1>2
  <2>3. <<found[i]>> \o NodesOf(found[i]) \in Seq(X)
    BY <1>4, <2>1, <2>2
  <2>4. QED
    BY <1>4, <2>3
<1> HIDE DEF list
<1>6. IsSequence(lists) /\ \A i \in DOMAIN lists : lists[i] \in Seq(X)
  <2>1. \A i \in DOMAIN lists : lists[i] \in Seq(X)
    BY <1>5
  <2>2. lists = [i \in 1..Len(found) |-> lists[i]]
    BY <1>1
  <2> HIDE DEF lists
  <2>3. QED
    BY <1>1, <2>1, <2>2, SequenceMap
<1>7. WithNodes(s, found) = FlattenSeq(lists)
  BY DEF WithNodes, list
<1> HIDE DEF lists
<1>8. WithNodes(s, found) \in Seq(X)
  <2> DEFINE Good == Seq(X)
  <2>1. IsSequence(lists) /\ \A i \in DOMAIN lists : lists[i] \in Good
    BY <1>6
  <2>2. <<>> \in Good /\ \A a, b \in Good : a \o b \in Good
    BY <1>4
  <2> HIDE DEF Good
  <2>3. FlattenSeq(lists) \in Good
    BY <2>1, <2>2, FlattenIn
  <2>4. QED
    BY <1>7, <2>3 DEF Good
<1>9. \A i \in DOMAIN WithNodes(s, found) : WithNodes(s, found)[i] \in X
  BY <1>8, LenProperties
<1>10. QED
  BY <1>8, <1>9, SequenceOver DEF X

-----------------------------------------------------------------------------
(* The steps of a process.                                                 *)
LEMMA TailSound ==
    ASSUME NEW todo, IsSequence(todo), CallsSound(todo), todo # <<>>
    PROVE  /\ IsSequence(Tail(todo)) /\ CallsSound(Tail(todo))
           /\ Tail(todo) # <<>> =>
                  /\ Head(Tail(todo)).call = "tags" => Head(todo).call = "instances"
                  /\ Head(Tail(todo)).call = "arns" => Head(todo).call = "tags"
                  /\ Head(Tail(todo)).call = "databases" => Head(todo).call = "arns"
<1> DEFINE S == ToSet(todo)
           q == Tail(todo)
<1>1. todo \in Seq(S)
  BY DEF IsSequence
<1> HIDE DEF S
<1>2. /\ Len(todo) \in Nat \ {0} /\ q \in Seq(S) /\ Len(q) = Len(todo) - 1
      /\ \A i \in 1..Len(q) : q[i] = todo[i + 1]
  BY <1>1, EmptySeq, HeadTailProperties
<1>3. IsSequence(q)
  BY <1>2, SequenceOver
<1>4. Head(todo) = todo[1] /\ (q # <<>> => Head(q) = q[1] /\ Len(q) \in Nat \ {0})
  BY <1>1, <1>2, EmptySeq
<1> HIDE DEF q
<1>5. ASSUME NEW i \in 2..Len(q)
      PROVE  i + 1 \in 2..Len(todo) /\ (i + 1) - 1 = i /\ q[i] = todo[i + 1] /\ q[i - 1] = todo[i]
  BY <1>2
<1>6. CallsSound(q)
  BY <1>5 DEF CallsSound
<1>7. ASSUME q # <<>>
      PROVE  /\ Head(q).call = "tags" => Head(todo).call = "instances"
             /\ Head(q).call = "arns" => Head(todo).call = "tags"
             /\ Head(q).call = "databases" => Head(todo).call = "arns"
  <2>1. 2 \in 2..Len(todo) /\ 2 - 1 = 1 /\ Head(q) = todo[2]
    BY <1>2, <1>4, <1>7
  <2>2. QED
    BY <1>4, <2>1 DEF CallsSound
<1>8. QED
  BY <1>3, <1>6, <1>7 DEF q

\* What an answer has to be, for the next call to go on from.
AnswerSound(s, w) ==
    /\ IsRecordOfWork(w)
    /\ w.wanted \in Wanted \cup {None}
    /\ w.credentials \in {"own", "role"} /\ (~s.iamRole => w.credentials = "own")
    /\ BookSound(s, w.book)
    /\ IsSequence(w.todo) /\ CallsSound(w.todo) /\ w.todo # <<>>
    /\ w.asked \in Nat
    /\ w.asked # 0 => w.asked < Len(Listings(s)) /\ Head(w.todo).call = "instances"
    /\ Head(w.todo).call = "instances" => Needs(s, w, "tags")
    /\ Head(w.todo).call = "tags" => Needs(s, w, "arns")
    /\ Head(w.todo).call = "arns" => Needs(s, w, "databases")

LEMMA AnsweredSound ==
    ASSUME NEW s, NEW w, AnswerSound(s, w),
           NEW v, v = [w EXCEPT !.todo = IF w.asked = 0 THEN Tail(@) ELSE @]
    PROVE  WorkSound(s, v) /\ v.asked = w.asked
<1>1. PICK todo : todo = IF w.asked = 0 THEN Tail(w.todo) ELSE w.todo
  OBVIOUS
<1>2. v = [wanted |-> w.wanted, again |-> w.again, todo |-> todo, heard |-> w.heard,
           records |-> w.records, credentials |-> w.credentials, book |-> w.book, asked |-> w.asked]
  BY <1>1 DEF AnswerSound, IsRecordOfWork
<1>3. /\ IsRecordOfWork(v) /\ v.wanted = w.wanted /\ v.todo = todo /\ v.heard = w.heard
      /\ v.credentials = w.credentials /\ v.book = w.book /\ v.asked = w.asked
  <2>1. /\ v.wanted = w.wanted /\ v.again = w.again /\ v.todo = todo /\ v.heard = w.heard
        /\ v.records = w.records /\ v.credentials = w.credentials /\ v.book = w.book
        /\ v.asked = w.asked
    BY <1>2
  <2>2. QED
    BY <1>2, <2>1, Zenon DEF IsRecordOfWork
<1>4. CASE w.asked = 0
  <2>1. HeadSound(s, v)
    <3> SUFFICES ASSUME v.todo # <<>> PROVE Needs(s, v, Head(v.todo).call)
      BY DEF HeadSound
    <3>1. /\ Head(v.todo).call = "tags" => Head(w.todo).call = "instances"
          /\ Head(v.todo).call = "arns" => Head(w.todo).call = "tags"
          /\ Head(v.todo).call = "databases" => Head(w.todo).call = "arns"
      BY <1>1, <1>3, <1>4, TailSound DEF AnswerSound
    <3>2. QED
      BY <1>3, <3>1 DEF AnswerSound, Needs
  <2>2. IsSequence(v.todo) /\ CallsSound(v.todo)
    BY <1>1, <1>3, <1>4, TailSound DEF AnswerSound
  <2>3. QED
    BY <1>3, <1>4, <2>1, <2>2 DEF WorkSound, AnswerSound, AskedSound
<1>5. CASE w.asked # 0
  <2>1. v.todo = w.todo /\ Head(v.todo).call = "instances" /\ Needs(s, v, "tags")
    BY <1>1, <1>3, <1>5 DEF AnswerSound, Needs
  <2>2. QED
    BY <1>3, <1>5, <2>1 DEF WorkSound, AnswerSound, AskedSound, HeadSound, Needs
<1>6. QED
  BY <1>3, <1>4, <1>5

LEMMA IdleSound ==
    ASSUME NEW s
    PROVE  WorkSound(s, Idle) /\ Idle.asked = 0 /\ OutputSound(s, NoOutput)
<1>1. /\ IsRecordOfWork(Idle) /\ Idle.wanted = None /\ Idle.credentials = "own"
      /\ Idle.book = EmptyBook /\ Idle.todo = <<>> /\ Idle.asked = 0
  BY DEF IsRecordOfWork, Idle
<1>2. IsSequence(<<>>) /\ Len(<<>>) = 0
  BY EmptySeq DEF IsSequence
<1>3. WorkSound(s, Idle)
  BY <1>1, <1>2, EmptyBookSound DEF WorkSound, CallsSound, HeadSound, AskedSound
<1>4. NoOutput.kind = "none"
  BY DEF NoOutput
<1>5. QED
  BY <1>1, <1>3, <1>4 DEF OutputSound

(* A step of p is sound if what it leaves of p and of the files is.        *)
LEMMA StepSound ==
    ASSUME InventoryInv, NEW p \in Process,
           settings' = settings, world' = world, fresh' \in BOOLEAN, accident' \in BOOLEAN,
           phase' = [phase EXCEPT ![p] = phase'[p]], phase'[p] \in Phase,
           work' = [work EXCEPT ![p] = work'[p]], WorkSound(settings, work'[p]),
           phase'[p] # "calling" => work'[p].asked = 0,
           output' = [output EXCEPT ![p] = output'[p]], OutputSound(settings, output'[p]),
           FileSound(settings, cache'), FileSound(settings, index')
    PROVE  InventoryInv'
<1>1. settings' \in {s.settings : s \in Scenario} /\ world' \in DOMAIN Clouds
  BY DEF InventoryInv
<1>2. work' = [q \in Process |-> work'[q]] /\ output' = [q \in Process |-> output'[q]]
  BY DEF InventoryInv
<1>3. \A q \in Process : WorkSound(settings, work'[q]) /\ OutputSound(settings, output'[q])
  BY DEF InventoryInv
<1>4. phase' \in [Process -> Phase]
  BY DEF InventoryInv
<1>5. \A q \in Process : phase'[q] # "calling" => work'[q].asked = 0
  BY DEF InventoryInv
<1>6. QED
  BY <1>1, <1>2, <1>3, <1>4, <1>5 DEF InventoryInv

LEMMA AnsweredKeeps ==
    ASSUME InventoryInv, NEW p \in Process, phase[p] = "calling",
           NEW w, Answered(p, w), AnswerSound(settings, w)
    PROVE  InventoryInv'
<1>1. PICK v : v = [w EXCEPT !.todo = IF w.asked = 0 THEN Tail(@) ELSE @]
  OBVIOUS
<1>2. work' = [work EXCEPT ![p] = v] /\ work'[p] = v
  BY <1>1 DEF Answered, InventoryInv
<1>3. WorkSound(settings, work'[p])
  BY <1>1, <1>2, AnsweredSound
<1>4. /\ settings' = settings /\ world' = world /\ fresh' = fresh /\ accident' = accident
      /\ phase' = phase /\ output' = output /\ cache' = cache /\ index' = index
  BY DEF Answered, files
<1>5. output' = [output EXCEPT ![p] = output'[p]] /\ phase' = [phase EXCEPT ![p] = phase'[p]]
  BY <1>4 DEF InventoryInv
<1>6. QED
  BY <1>2, <1>3, <1>4, <1>5, StepSound DEF InventoryInv

LEMMA EndKeeps ==
    ASSUME InventoryInv, NEW p \in Process, NEW printed, End(p, printed),
           OutputSound(settings, printed),
           UNCHANGED <<settings, world, cache, index, fresh>>, accident' \in BOOLEAN
    PROVE  InventoryInv'
<1>1. /\ work' = [work EXCEPT ![p] = Idle] /\ work'[p] = Idle
      /\ output' = [output EXCEPT ![p] = printed] /\ output'[p] = printed
      /\ phase' = [phase EXCEPT ![p] = phase'[p]] /\ phase'[p] \in Phase
  BY DEF End, InventoryInv, Phase
<1>2. QED
  BY <1>1, IdleSound, StepSound DEF InventoryInv

LEMMA FailureKeeps ==
    ASSUME InventoryInv, NEW p \in Process, OtherwiseFails(p)
    PROVE  InventoryInv'
<1>1. OutputSound(settings, NoOutput)
  BY IdleSound
<1>2. QED
  BY <1>1, EndKeeps DEF OtherwiseFails, files, InventoryInv

\* The work of a process before one of its calls is answered.
LEMMA CallingSound ==
    ASSUME InventoryInv, NEW p \in Process, NEW call, Calls(p, call)
    PROVE  /\ WorkSound(settings, work[p]) /\ work[p].todo # <<>>
           /\ Head(work[p].todo).call = call /\ Needs(settings, work[p], call)
           /\ phase[p] = "calling" /\ work[p].asked \in Nat
           /\ call # "instances" => work[p].asked = 0
           /\ world \in DOMAIN Clouds /\ \E s \in Scenario : settings = s.settings
<1>1. WorkSound(settings, work[p]) /\ work[p].todo # <<>> /\ Head(work[p].todo).call = call
  BY DEF InventoryInv, Calls
<1>2. QED
  BY <1>1 DEF InventoryInv, WorkSound, HeadSound, AskedSound, Calls

\* Every connection is made with the same credentials.
LEMMA ConnectedIs ==
    ASSUME NEW p, WorkSound(settings, work[p])
    PROVE  Connected(p) = Account(settings)
BY DEF Connected, Account, WorkSound

LEMMA GetRoute53RecordsKeeps ==
    ASSUME InventoryInv, NEW p \in Process, GetRoute53Records(p)
    PROVE  InventoryInv'
<1>1. /\ WorkSound(settings, work[p]) /\ work[p].todo # <<>>
      /\ Head(work[p].todo).call = "records" /\ phase[p] = "calling" /\ work[p].asked = 0
  BY CallingSound DEF GetRoute53Records
<1>2. PICK w : w = [work[p] EXCEPT !.records = Records(settings, Clouds[world])]
  OBVIOUS
<1>3. Answered(p, w)
  BY <1>2 DEF GetRoute53Records
<1>4. /\ IsRecordOfWork(w) /\ w.wanted = work[p].wanted /\ w.todo = work[p].todo
      /\ w.credentials = work[p].credentials /\ w.book = work[p].book /\ w.asked = work[p].asked
  BY <1>1, <1>2 DEF WorkSound, IsRecordOfWork
<1>5. AnswerSound(settings, w)
  BY <1>1, <1>4 DEF AnswerSound, WorkSound
<1>6. QED
  BY <1>1, <1>3, <1>5, AnsweredKeeps

\* The work of a process that has the answer to a listing.
LEMMA HeardIs ==
    ASSUME NEW p \in Process, ListInstances(p), IsRecordOfWork(work[p])
    PROVE  \E answer, w :
              /\ answer = ListedBy(Listings(settings)[work[p].asked + 1], Resources("instance", CallRegion(p)))
              /\ IsRecordOfWork(w) /\ w.wanted = work[p].wanted /\ w.again = work[p].again
              /\ w.todo = work[p].todo /\ w.records = work[p].records /\ w.book = work[p].book
              /\ w.heard = IF work[p].asked = 0 THEN answer ELSE work[p].heard \o answer
              /\ w.asked = IF work[p].asked + 1 = Len(Listings(settings)) THEN 0 ELSE work[p].asked + 1
              /\ \/ OtherwiseFails(p)
                 \/ Answered(p, w) /\ w.credentials = IF work[p].asked = 0 THEN Connected(p)
                                                       ELSE work[p].credentials
<1>1. PICK answer : answer = ListedBy(Listings(settings)[work[p].asked + 1], Resources("instance", CallRegion(p)))
  OBVIOUS
<1>2. PICK heard : heard = IF work[p].asked = 0 THEN answer ELSE work[p].heard \o answer
  OBVIOUS
<1>3. PICK asked : asked = IF work[p].asked + 1 = Len(Listings(settings)) THEN 0 ELSE work[p].asked + 1
  OBVIOUS
<1>4. PICK v : v = [work[p] EXCEPT !.heard = heard, !.asked = asked]
  OBVIOUS
<1>5. v = [wanted |-> work[p].wanted, again |-> work[p].again, todo |-> work[p].todo, heard |-> heard,
           records |-> work[p].records, credentials |-> work[p].credentials, book |-> work[p].book,
           asked |-> asked]
  BY <1>4 DEF IsRecordOfWork
<1>6. IF work[p].asked = 0 THEN OnConnection(p, v) ELSE Answered(p, v)
  <2>1. v = [work[p] EXCEPT !.heard = IF work[p].asked = 0 THEN answer ELSE @ \o answer,
                            !.asked = IF @ + 1 = Len(Listings(settings)) THEN 0 ELSE @ + 1]
    BY <1>2, <1>3, <1>4
  <2>2. QED
    BY <1>1, <2>1, Zenon DEF ListInstances
<1>7. PICK w : w = IF work[p].asked = 0 THEN [v EXCEPT !.credentials = Connected(p)] ELSE v
  OBVIOUS
<1>8. /\ IsRecordOfWork(w) /\ w.wanted = work[p].wanted /\ w.again = work[p].again
      /\ w.todo = work[p].todo /\ w.records = work[p].records /\ w.book = work[p].book
      /\ w.heard = heard /\ w.asked = asked
      /\ w.credentials = IF work[p].asked = 0 THEN Connected(p) ELSE work[p].credentials
  BY <1>5, <1>7 DEF IsRecordOfWork
<1>9. OtherwiseFails(p) \/ Answered(p, w)
  BY <1>6, <1>7 DEF OnConnection
<1>10. QED
  BY <1>1, <1>2, <1>3, <1>8, <1>9

LEMMA ListInstancesKeeps ==
    ASSUME InventoryInv, NEW p \in Process, ListInstances(p)
    PROVE  InventoryInv'
<1>1. /\ WorkSound(settings, work[p]) /\ work[p].todo # <<>>
      /\ Head(work[p].todo).call = "instances" /\ phase[p] = "calling" /\ work[p].asked \in Nat
      /\ world \in DOMAIN Clouds /\ \E s \in Scenario : settings = s.settings
  BY CallingSound DEF ListInstances
<1>2. PICK answer, w :
          /\ answer = ListedBy(Listings(settings)[work[p].asked + 1], Resources("instance", CallRegion(p)))
          /\ IsRecordOfWork(w) /\ w.wanted = work[p].wanted /\ w.todo = work[p].todo /\ w.book = work[p].book
          /\ w.heard = IF work[p].asked = 0 THEN answer ELSE work[p].heard \o answer
          /\ w.asked = IF work[p].asked + 1 = Len(Listings(settings)) THEN 0 ELSE work[p].asked + 1
          /\ \/ OtherwiseFails(p)
             \/ Answered(p, w) /\ w.credentials = IF work[p].asked = 0 THEN Connected(p)
                                                   ELSE work[p].credentials
  BY <1>1, HeardIs DEF WorkSound
<1>3. CASE OtherwiseFails(p)
  BY <1>3, FailureKeeps
<1>4. CASE Answered(p, w) /\ w.credentials = IF work[p].asked = 0 THEN Connected(p)
                                             ELSE work[p].credentials
  <2> DEFINE Fine(q) == IsSequence(q) /\ \A i \in DOMAIN q : DOMAIN q[i] = ResourceFields
                                                         /\ q[i].kind = "instance"
  <2>1. Fine(answer)
    <3> DEFINE all == Resources("instance", CallRegion(p))
               S == There("instance", CallRegion(p))
    <3>1. all \in Seq(S) /\ \A r \in S : IsResource(r) /\ r.kind = "instance"
      BY <1>1, ResourcesAre
    <3>2. IsSequence(all) /\ ToSet(all) \subseteq S
      BY <3>1, SequenceOver
    <3>3. answer \in Seq(ToSet(all))
      BY <1>2, <3>2, ListedAre
    <3> HIDE DEF all, S
    <3>4. IsSequence(answer) /\ \A i \in DOMAIN answer : answer[i] \in ToSet(all)
      BY <3>3, SequenceOver, LenProperties
    <3>5. QED
      BY <3>1, <3>2, <3>4 DEF IsResource
  <2>2. work[p].asked # 0 => Fine(work[p].heard) /\ work[p].credentials = Account(settings)
    BY <1>1 DEF WorkSound, AskedSound, Needs
  <2>3. Fine(w.heard)
    <3>1. CASE work[p].asked = 0
      BY <1>2, <2>1, <3>1
    <3>2. CASE work[p].asked # 0
      <4> DEFINE a == work[p].heard
                 S == ToSet(a) \cup ToSet(answer)
      <4>1. a \in Seq(ToSet(a)) /\ answer \in Seq(ToSet(answer))
        BY <2>1, <2>2, <3>2 DEF IsSequence
      <4>2. \A r \in S : DOMAIN r = ResourceFields /\ r.kind = "instance"
        BY <2>1, <2>2, <3>2, SequenceHas
      <4>3. ToSet(a) \subseteq S /\ ToSet(answer) \subseteq S
        OBVIOUS
      <4> HIDE DEF a, S
      <4>4. a \in Seq(S) /\ answer \in Seq(S)
        BY <4>1, <4>3, SequenceWider
      <4>5. a \o answer \in Seq(S)
        BY <4>4, ConcatProperties
      <4>6. PICK both \in Seq(S) : both = a \o answer
        BY <4>5
      <4>7. IsSequence(both) /\ \A i \in DOMAIN both : both[i] \in S
        <5>1. IsSequence(both)
          BY Zenon, SequenceOver
        <5>2. \A i \in DOMAIN both : both[i] \in S
          BY LenProperties
        <5>3. QED
          BY <5>1, <5>2
      <4>8. QED
        BY <1>2, <3>2, <4>2, <4>6, <4>7 DEF a
    <3>3. QED
      BY <3>1, <3>2
  <2>4. w.credentials = Account(settings)
    BY <1>1, <1>4, <2>2, ConnectedIs
  <2>5. w.asked \in Nat /\ (w.asked # 0 => w.asked < Len(Listings(settings)))
    <3>1. Len(Listings(settings)) \in Nat \ {0}
      BY <1>1, ListingsAre, InventoryAssumption
    <3>2. work[p].asked < Len(Listings(settings))
      BY <1>1, <3>1 DEF WorkSound, AskedSound
    <3>3. QED
      BY <1>1, <1>2, <3>1, <3>2
  <2>6. AnswerSound(settings, w)
    BY <1>1, <1>2, <2>3, <2>4, <2>5 DEF AnswerSound, WorkSound, Needs, Account
  <2>7. QED
    BY <1>1, <1>4, <2>6, AnsweredKeeps
<1>5. QED
  BY <1>2, <1>3, <1>4

LEMMA AddInstancesKeeps ==
    ASSUME InventoryInv, NEW p \in Process, AddInstances(p)
    PROVE  InventoryInv'
<1>1. /\ WorkSound(settings, work[p]) /\ work[p].todo # <<>> /\ Head(work[p].todo).call = "tags"
      /\ phase[p] = "calling" /\ work[p].asked = 0
      /\ work[p].credentials = Account(settings) /\ IsSequence(work[p].heard)
      /\ \A i \in DOMAIN work[p].heard :
             DOMAIN work[p].heard[i] = ResourceFields /\ work[p].heard[i].kind = "instance"
  BY CallingSound DEF AddInstances, Needs
<1> DEFINE tags(r) == TagsNow("instance", CallRegion(p), r.id)
           tagged(r) == ReadAs([r EXCEPT !.tags = tags(r)], tags(r), TRUE, work[p].credentials)
           all == [i \in DOMAIN work[p].heard |-> tagged(work[p].heard[i])]
<1>2. PICK found : found = all
  OBVIOUS
<1>3. PICK book \in AddedAll(settings, work[p].records, work[p].book, found) :
          Answered(p, [work[p] EXCEPT !.book = book, !.heard = <<>>])
  BY <1>2, Zenon DEF AddInstances
<1>4. Len(work[p].heard) \in Nat /\ DOMAIN work[p].heard = 1..Len(work[p].heard)
  BY <1>1, SequenceHas
<1>5. ASSUME NEW i \in DOMAIN work[p].heard
      PROVE  Enterable(settings, tagged(work[p].heard[i]))
  <2>1. PICK now : now = TagsNow("instance", CallRegion(p), work[p].heard[i].id)
    OBVIOUS
  <2>2. PICK x : x = [work[p].heard[i] EXCEPT !.tags = now]
    OBVIOUS
  <2>3. DOMAIN x = ResourceFields /\ x.kind = "instance" /\ x.tags = now
    BY <1>1, <2>2 DEF ResourceFields
  <2>4. Enterable(settings, ReadAs(x, now, TRUE, work[p].credentials))
    BY <1>1, <2>3, ReadEnterable DEF Kinds
  <2>5. QED
    BY <2>1, <2>2, <2>4
<1> HIDE DEF tagged
<1>6. IsSequence(found) /\ \A i \in DOMAIN found : Enterable(settings, found[i])
  <2>1. \A i \in DOMAIN found : Enterable(settings, found[i])
    BY <1>2, <1>5
  <2>2. found = [i \in 1..Len(work[p].heard) |-> found[i]]
    BY <1>2, <1>4
  <2>3. QED
    BY <1>4, <2>1, <2>2, SequenceMap
<1>7. BookSound(settings, work[p].book)
  BY <1>1 DEF WorkSound
<1>8. BookSound(settings, book)
  BY <1>3, <1>6, <1>7, AddedAllKeepsBook DEF Enterable
<1>9. PICK w : w = [work[p] EXCEPT !.book = book, !.heard = <<>>]
  OBVIOUS
<1>10. /\ IsRecordOfWork(w) /\ w.wanted = work[p].wanted /\ w.todo = work[p].todo
       /\ w.credentials = work[p].credentials /\ w.book = book /\ w.asked = work[p].asked
  BY <1>1, <1>9 DEF WorkSound, IsRecordOfWork
<1>11. AnswerSound(settings, w)
  BY <1>1, <1>8, <1>10 DEF AnswerSound, WorkSound, Needs
<1>12. QED
  BY <1>1, <1>3, <1>9, <1>11, AnsweredKeeps

LEMMA DescribeDatabasesKeeps ==
    ASSUME InventoryInv, NEW p \in Process, DescribeDatabases(p)
    PROVE  InventoryInv'
<1>1. /\ WorkSound(settings, work[p]) /\ work[p].todo # <<>> /\ Head(work[p].todo).call = "arns"
      /\ work[p].credentials = Account(settings) /\ phase[p] = "calling" /\ work[p].asked = 0
  BY CallingSound DEF DescribeDatabases, Needs
<1>2. PICK page : Answered(p, [work[p] EXCEPT !.heard =
          [i \in DOMAIN page |-> [id |-> page[i].id, credentials |-> work[p].credentials]]])
  BY DEF DescribeDatabases
<1>3. PICK heard : heard = [i \in DOMAIN page |-> [id |-> page[i].id, credentials |-> work[p].credentials]]
  OBVIOUS
<1>4. PICK w : w = [work[p] EXCEPT !.heard = heard]
  OBVIOUS
<1>5. /\ IsRecordOfWork(w) /\ w.wanted = work[p].wanted /\ w.todo = work[p].todo
      /\ w.credentials = work[p].credentials /\ w.book = work[p].book /\ w.heard = heard
      /\ w.asked = work[p].asked
  BY <1>1, <1>4 DEF WorkSound, IsRecordOfWork
<1>6. \A i \in DOMAIN heard : heard[i].credentials = Account(settings)
  BY <1>1, <1>3
<1>7. AnswerSound(settings, w)
  BY <1>1, <1>5, <1>6 DEF AnswerSound, WorkSound, Needs
<1>8. Answered(p, w)
  BY <1>2, <1>3, <1>4
<1>9. QED
  BY <1>1, <1>7, <1>8, AnsweredKeeps

LEMMA IncludeDbClustersKeeps ==
    ASSUME InventoryInv, NEW p \in Process, IncludeDbClusters(p)
    PROVE  InventoryInv'
<1>1. /\ WorkSound(settings, work[p]) /\ work[p].todo # <<>>
      /\ Head(work[p].todo).call = "dbClusters" /\ phase[p] = "calling" /\ work[p].asked = 0
  BY CallingSound DEF IncludeDbClusters
<1>2. PICK clusters : Answered(p, [work[p] EXCEPT !.book.dbClusters = clusters])
  BY DEF IncludeDbClusters
<1>3. PICK book : book = [work[p].book EXCEPT !.dbClusters = clusters]
  OBVIOUS
<1>4. BookSound(settings, book)
  BY <1>1, <1>3, ClustersKeepBook DEF WorkSound
<1>5. PICK w : w = [work[p] EXCEPT !.book = book]
  OBVIOUS
<1>6. /\ IsRecordOfWork(w) /\ w.wanted = work[p].wanted /\ w.todo = work[p].todo
      /\ w.credentials = work[p].credentials /\ w.book = book /\ w.asked = work[p].asked
  BY <1>1, <1>5 DEF WorkSound, IsRecordOfWork
<1>7. AnswerSound(settings, w)
  BY <1>1, <1>4, <1>6 DEF AnswerSound, WorkSound
<1>8. Answered(p, w)
  BY <1>2, <1>3, <1>5
<1>9. QED
  BY <1>1, <1>7, <1>8, AnsweredKeeps

LEMMA ArnIndexOfOnePage ==
    ASSUME NEW i \in Nat, 1 <= i, i <= PageSize
    PROVE  ArnIndex(i) = i
<1>1. PageSize \in Nat \ {0}
  BY InventoryAssumption
<1>2. (i - 1) % PageSize = i - 1
  BY <1>1
<1>3. QED
  BY <1>2 DEF ArnIndex

\* A step on a connection, of which only the book and what was heard are new.
LEMMA OnConnectionKeeps ==
    ASSUME InventoryInv, NEW p \in Process, NEW book, NEW heard,
           OnConnection(p, [work[p] EXCEPT !.book = book, !.heard = heard]),
           NEW call \in {"databases", "clusters", "replications"}, Calls(p, call),
           BookSound(settings, book)
    PROVE  InventoryInv'
<1>1. /\ WorkSound(settings, work[p]) /\ work[p].todo # <<>>
      /\ Head(work[p].todo).call = call /\ phase[p] = "calling" /\ work[p].asked = 0
  BY CallingSound
<1>2. CASE ~CanConnect(p, CallRegion(p))
  BY <1>2, FailureKeeps DEF OnConnection
<1>3. CASE CanConnect(p, CallRegion(p))
  <2>1. PICK v : v = [work[p] EXCEPT !.book = book, !.heard = heard]
    OBVIOUS
  <2>2. PICK w : w = [v EXCEPT !.credentials = Connected(p)]
    OBVIOUS
  <2>3. Answered(p, w)
    BY <1>3, <2>1, <2>2 DEF OnConnection
  <2>4. v = [wanted |-> work[p].wanted, again |-> work[p].again, todo |-> work[p].todo,
             heard |-> heard, records |-> work[p].records, credentials |-> work[p].credentials,
             book |-> book, asked |-> work[p].asked]
    BY <1>1, <2>1 DEF WorkSound, IsRecordOfWork
  <2>5. /\ IsRecordOfWork(w) /\ w.wanted = work[p].wanted /\ w.todo = work[p].todo
        /\ w.credentials = Account(settings) /\ w.book = book /\ w.asked = work[p].asked
    BY <1>1, <2>2, <2>4, ConnectedIs DEF IsRecordOfWork
  <2>6. AnswerSound(settings, w)
    BY <1>1, <2>5 DEF AnswerSound, WorkSound, Account
  <2>7. QED
    BY <1>1, <2>3, <2>6, AnsweredKeeps
<1>4. QED
  BY <1>2, <1>3

\* When the two listings agree, the tags are those of the database itself.
LEMMA OnePageOfDatabases ==
    ASSUME NEW region, NEW arns, NEW databases, NEW i \in DOMAIN databases,
           world \in DOMAIN Clouds, databases = Resources("database", region),
           Len(databases) <= PageSize, arns[i].id = databases[i].id
    PROVE  TagsNow("database", region, arns[ArnIndex(i)].id) = databases[i].tags
<1>1. databases \in Seq(There("database", region))
  BY ResourcesAre
<1>2. Len(databases) \in Nat /\ DOMAIN databases = 1..Len(databases)
  BY <1>1
<1>3. ArnIndex(i) = i
  BY <1>2, ArnIndexOfOnePage, InventoryAssumption
<1>4. TagsNow("database", region, databases[i].id) = databases[i].tags
  BY TagsNowAre
<1>5. QED
  BY <1>3, <1>4

LEMMA AddDatabasesKeeps ==
    ASSUME InventoryInv, NEW p \in Process, AddDatabases(p)
    PROVE  InventoryInv'
<1>1. /\ WorkSound(settings, work[p]) /\ world \in DOMAIN Clouds
      /\ \A i \in DOMAIN work[p].heard : work[p].heard[i].credentials = Account(settings)
  BY CallingSound DEF AddDatabases, Needs
<1>2. PICK databases : databases = Resources("database", CallRegion(p))
  OBVIOUS
<1>3. PICK arns : arns = work[p].heard
  OBVIOUS
<1>4. PICK orderly : orderly = (/\ Len(databases) <= PageSize
                                /\ [j \in DOMAIN arns |-> arns[j].id] = [j \in DOMAIN databases |-> databases[j].id])
  OBVIOUS
<1>5. ASSUME orderly, NEW i \in DOMAIN databases
      PROVE  TagsNow("database", CallRegion(p), arns[ArnIndex(i)].id) = databases[i].tags
  <2>1. PICK ids : /\ ids = [k \in DOMAIN arns |-> arns[k].id]
                   /\ ids = [k \in DOMAIN databases |-> databases[k].id]
    BY <1>4, <1>5, Zenon
  <2>2. arns[i].id = databases[i].id
    BY <2>1
  <2>3. Len(databases) <= PageSize
    BY <1>4, <1>5, Zenon
  <2>4. world \in DOMAIN Clouds
    BY <1>1
  <2>5. QED
    BY <1>2, <2>2, <2>3, <2>4, OnePageOfDatabases
<1> DEFINE x(i) == [databases[i] EXCEPT !.tags = TagsNow("database", CallRegion(p), arns[ArnIndex(i)].id)]
           tagged(i) == ReadAs(x(i), databases[i].tags, orderly, arns[ArnIndex(i)].credentials)
<1>6. PICK found : found = [i \in DOMAIN databases |-> tagged(i)]
  OBVIOUS
<1>7. PICK S : S = {r \in ToSet(found) : TagsMatchFilters(settings, r.tags)}
  OBVIOUS
<1>8. CASE \A i \in DOMAIN databases : ArnIndex(i) \in DOMAIN arns
  <2>1. ASSUME NEW i \in DOMAIN databases
        PROVE  Enterable(settings, found[i])
    <3>1. PICK now : now = TagsNow("database", CallRegion(p), arns[ArnIndex(i)].id)
      OBVIOUS
    <3>2. PICK y : y = [databases[i] EXCEPT !.tags = now]
      OBVIOUS
    <3>5. DOMAIN databases[i] = ResourceFields /\ databases[i].kind = "database"
      BY <1>1, <1>2, ResourcesAre DEF IsResource
    <3>6. orderly => now = databases[i].tags
      BY <1>5, <3>1
    <3>7. DOMAIN y = ResourceFields /\ y.kind = "database" /\ y.tags = now
      BY <3>2, <3>5 DEF ResourceFields
    <3>8. Enterable(settings, ReadAs(y, databases[i].tags, orderly, Account(settings)))
      BY <3>6, <3>7, ReadEnterable DEF Kinds
    <3>9. arns[ArnIndex(i)].credentials = Account(settings)
      BY <1>1, <1>3, <1>8
    <3>10. QED
      BY <1>6, <3>1, <3>2, <3>8, <3>9
  <2> HIDE DEF tagged
  <2>2. databases \in Seq(There("database", CallRegion(p)))
    BY <1>1, <1>2, ResourcesAre
  <2>3. Len(databases) \in Nat /\ found = [i \in 1..Len(databases) |-> tagged(i)]
    BY <1>6, <2>2
  <2>4. IsSequence(found) /\ \A i \in DOMAIN found : Enterable(settings, found[i])
    BY <1>6, <2>1, <2>3, SequenceMap
  <2>5. PICK matching : matching = Chosen(found, S)
    OBVIOUS
  <2>6. IsSequence(matching) /\ \A i \in DOMAIN matching : Enterable(settings, matching[i])
    <3>1. matching \in Seq(ToSet(found) \cap S)
      BY <2>4, <2>5, ChosenOf
    <3>2. \A r \in ToSet(found) : Enterable(settings, r)
      BY <2>4 DEF ToSet
    <3>3. IsSequence(matching) /\ \A i \in DOMAIN matching : matching[i] \in ToSet(found)
      BY <3>1, SequenceOver, LenProperties
    <3>4. QED
      BY <3>2, <3>3
  <2>7. CASE OtherwiseFails(p)
    BY <2>7, FailureKeeps
  <2>8. CASE \E book \in AddedAll(settings, work[p].records, work[p].book, matching) :
                 OnConnection(p, [work[p] EXCEPT !.book = book, !.heard = <<>>])
    <3>1. PICK book \in AddedAll(settings, work[p].records, work[p].book, matching) :
              OnConnection(p, [work[p] EXCEPT !.book = book, !.heard = <<>>])
      BY <2>8
    <3>2. BookSound(settings, book)
      BY <1>1, <2>6, <3>1, AddedAllKeepsBook DEF Enterable, WorkSound
    <3>3. Calls(p, "databases")
      BY DEF AddDatabases
    <3>4. QED
      BY <3>1, <3>2, <3>3, OnConnectionKeeps
  <2>9. QED
    BY <1>2, <1>3, <1>4, <1>6, <1>7, <2>5, <2>7, <2>8, ZenonT(60) DEF AddDatabases, tagged
<1>9. CASE ~\A i \in DOMAIN databases : ArnIndex(i) \in DOMAIN arns
  <2>1. OtherwiseFails(p)
    BY <1>2, <1>3, <1>9, Zenon DEF AddDatabases
  <2>2. QED
    BY <2>1, FailureKeeps
<1>10. QED
  BY <1>8, <1>9

LEMMA AddElasticacheKeeps ==
    ASSUME InventoryInv, NEW p \in Process, NEW call \in {"clusters", "replications"},
           NEW kind \in {"cluster", "replication"}, AddElasticache(p, call, kind)
    PROVE  InventoryInv'
<1>1. WorkSound(settings, work[p]) /\ world \in DOMAIN Clouds
  BY CallingSound DEF AddElasticache
<1>2. PICK listed : listed = Resources(kind, CallRegion(p))
  OBVIOUS
<1> DEFINE read(i) == ReadAs(listed[i], listed[i].tags, TRUE, Connected(p))
<1>3. PICK found : found = [i \in DOMAIN listed |-> read(i)]
  OBVIOUS
<1>4. listed \in Seq(There(kind, CallRegion(p)))
  BY <1>1, <1>2, ResourcesAre
<1>5. ASSUME NEW i \in DOMAIN listed
      PROVE  /\ DOMAIN found[i] = ResourceFields \cup {"read"}
             /\ IsSequence(found[i].nodes) /\ Enterable(settings, found[i])
  <2>1. IsResource(listed[i]) /\ listed[i].kind = kind
    BY <1>1, <1>4, ResourcesAre
  <2>2. found[i] = ReadAs(listed[i], listed[i].tags, TRUE, Account(settings))
    BY <1>1, <1>3, ConnectedIs
  <2>3. Enterable(settings, found[i])
    BY <2>1, <2>2, ReadEnterable DEF Kinds, IsResource
  <2>4. PICK x, t : x = found[i] /\ t = TRUE
    OBVIOUS
  <2>5. DOMAIN x = ResourceFields \cup {"read"} /\ x.nodes = listed[i].nodes
    <3>1. DOMAIN listed[i] = ResourceFields /\ x = ReadAs(listed[i], listed[i].tags, t, Account(settings))
      BY <2>1, <2>2, <2>4 DEF IsResource
    <3>2. QED
      BY <3>1, ReadAsIs
  <2>6. QED
    BY <2>1, <2>3, <2>4, <2>5 DEF IsResource
<1> HIDE DEF read
<1>6. Len(listed) \in Nat /\ found = [i \in 1..Len(listed) |-> read(i)] /\ DOMAIN found = DOMAIN listed
  BY <1>3, <1>4
<1>7. IsSequence(found)
  BY <1>6, SequenceMap
<1>8. PICK all : all = IF kind = "cluster" THEN WithNodes(settings, found) ELSE found
  OBVIOUS
<1>9. IsSequence(all) /\ \A i \in DOMAIN all : Enterable(settings, all[i])
  BY <1>5, <1>6, <1>7, <1>8, WithNodesAre
<1>10. PICK book \in AddedAll(settings, {}, work[p].book, all) :
           OnConnection(p, [work[p] EXCEPT !.book = book])
  BY <1>2, <1>3, <1>8, Zenon DEF AddElasticache, read
<1>11. BookSound(settings, book)
  BY <1>1, <1>9, <1>10, AddedAllKeepsBook DEF Enterable, WorkSound
<1>12. [work[p] EXCEPT !.book = book] = [work[p] EXCEPT !.book = book, !.heard = work[p].heard]
  BY <1>1 DEF WorkSound, IsRecordOfWork
<1>13. OnConnection(p, [work[p] EXCEPT !.book = book, !.heard = work[p].heard])
  BY <1>10, <1>12
<1>14. Calls(p, call)
  BY DEF AddElasticache
<1>15. QED
  BY <1>11, <1>13, <1>14, OnConnectionKeeps

LEMMA CallFailsKeeps ==
    ASSUME InventoryInv, NEW p \in Process, CallFails(p)
    PROVE  InventoryInv'
BY FailureKeeps DEF CallFails

(* A process that has its calls before it, or none.                        *)
LEMMA PlannedSound ==
    ASSUME NEW s, NEW w, IsSequence(s.regions),
           IsRecordOfWork(w), w.wanted \in Wanted \cup {None},
           w.credentials \in {"own", "role"}, ~s.iamRole => w.credentials = "own",
           BookSound(s, w.book), w.todo = Plan(s) \/ w.todo = <<>>,
           w.asked = 0
    PROVE  WorkSound(s, w)
<1>1. CASE w.todo = <<>>
  <2>1. IsSequence(<<>>) /\ Len(<<>>) = 0
    BY EmptySeq DEF IsSequence
  <2>2. QED
    BY <1>1, <2>1 DEF WorkSound, CallsSound, HeadSound, AskedSound
<1>2. CASE w.todo = Plan(s)
  <2>1. IsSequence(w.todo) /\ PlanSound(w.todo)
    BY <1>2, PlanIsSound
  <2>2. w.todo # <<>> => Len(w.todo) \in Nat /\ Len(w.todo) > 0 /\ Head(w.todo) = w.todo[1]
    <3> DEFINE S == ToSet(w.todo)
    <3>1. w.todo \in Seq(S)
      BY <2>1 DEF IsSequence
    <3> HIDE DEF S
    <3>2. QED
      BY <3>1, EmptySeq
  <2>3. HeadSound(s, w)
    BY <2>1, <2>2 DEF HeadSound, Needs, PlanSound
  <2>4. QED
    BY <2>1, <2>3 DEF WorkSound, PlanSound, AskedSound
<1>3. QED
  BY <1>1, <1>2

LEMMA SettingsAre ==
    ASSUME InventoryInv
    PROVE  IsSequence(settings.regions) /\ IsSequence(settings.filterSets)
BY InventoryAssumption DEF InventoryInv

LEMMA StartKeeps ==
    ASSUME InventoryInv, NEW p \in Process, Start(p)
    PROVE  InventoryInv'
<1>1. /\ settings' = settings /\ world' = world /\ cache' = cache /\ index' = index
      /\ fresh' = fresh /\ accident' = accident
  BY DEF Start, files
<1>2. CASE End(p, NoOutput)
  BY <1>1, <1>2, IdleSound, EndKeeps DEF InventoryInv
<1>3. CASE ~End(p, NoOutput)
  <2>1. PICK host \in Wanted \cup {None}, call \in BOOLEAN :
            /\ output' = [output EXCEPT ![p] = NoOutput]
            /\ phase' = [phase EXCEPT ![p] = IF call THEN "calling" ELSE "answering"]
            /\ work' = [work EXCEPT ![p].wanted = host,
                                    ![p].todo = IF call THEN Plan(settings) ELSE <<>>]
    <3>1. PICK host \in Wanted \cup {None}, refresh \in BOOLEAN :
              /\ output' = [output EXCEPT ![p] = NoOutput]
              /\ LET call == refresh \/ ~IsCacheValid
                 IN  /\ phase' = [phase EXCEPT ![p] = IF call THEN "calling" ELSE "answering"]
                     /\ work' = [work EXCEPT ![p].wanted = host,
                                             ![p].todo = IF call THEN Plan(settings) ELSE <<>>]
      BY <1>3, Zenon DEF Start
    <3>2. CASE refresh \/ ~IsCacheValid
      BY <3>1, <3>2
    <3>3. CASE ~(refresh \/ ~IsCacheValid)
      BY <3>1, <3>3
    <3>4. QED
      BY <3>2, <3>3
  <2>2. PICK todo : todo = IF call THEN Plan(settings) ELSE <<>>
    OBVIOUS
  <2>3. PICK v : v = [work[p] EXCEPT !.wanted = host]
    OBVIOUS
  <2>4. PICK w : w = [v EXCEPT !.todo = todo]
    OBVIOUS
  <2>5. work' = [work EXCEPT ![p] = w] /\ work'[p] = w
    BY <2>1, <2>2, <2>3, <2>4 DEF InventoryInv
  <2>6. WorkSound(settings, work[p]) /\ work[p].asked = 0
    BY DEF InventoryInv, Start
  <2>7. /\ IsRecordOfWork(w) /\ w.wanted = host /\ w.todo = todo
        /\ w.credentials = work[p].credentials /\ w.book = work[p].book
        /\ w.asked = 0
    BY <2>3, <2>4, <2>6 DEF WorkSound, IsRecordOfWork
  <2>8. WorkSound(settings, w)
    BY <2>1, <2>2, <2>6, <2>7, PlannedSound, SettingsAre DEF WorkSound
  <2>9. output'[p] = NoOutput /\ phase' = [phase EXCEPT ![p] = phase'[p]] /\ phase'[p] \in Phase
    BY <2>1 DEF InventoryInv, Phase
  <2>10. QED
    BY <1>1, <2>1, <2>5, <2>7, <2>8, <2>9, IdleSound, StepSound DEF InventoryInv
<1>4. QED
  BY <1>2, <1>3

-----------------------------------------------------------------------------
(* The files and the answers.                                              *)
\* A step that changes of the processes only where p is.
LEMMA FileStepKeeps ==
    ASSUME InventoryInv, NEW p \in Process, NEW here \in Phase, work[p].asked = 0,
           phase' = [phase EXCEPT ![p] = here],
           UNCHANGED <<settings, world, work, output>>,
           fresh' \in BOOLEAN, accident' \in BOOLEAN,
           FileSound(settings, cache'), FileSound(settings, index')
    PROVE  InventoryInv'
BY DEF InventoryInv

LEMMA FilledSound ==
    ASSUME NEW s, NEW file, NEW book, BookSound(s, book)
    PROVE  /\ \A text \in Filled(file, book) : FileSound(s, text)
           /\ FileSound(s, Begun)
BY DEF Filled, FileSound, Readable

LEMMA WritingKeeps ==
    ASSUME InventoryInv, NEW p \in Process,
           OpenCache(p) \/ FillCache(p) \/ OpenIndex(p) \/ FillIndex(p)
    PROVE  InventoryInv'
<1>1. /\ BookSound(settings, work[p].book)
      /\ FileSound(settings, cache) /\ FileSound(settings, index)
      /\ fresh \in BOOLEAN /\ accident \in BOOLEAN
      /\ work[p].asked = 0
  BY DEF InventoryInv, WorkSound, AskedSound, OpenCache, FillCache, OpenIndex, FillIndex
<1>2. CASE OpenCache(p)
  <2>1. accident' \in BOOLEAN
    BY <1>2, Zenon DEF OpenCache
  <2>2. QED
    BY <1>1, <1>2, <2>1, FilledSound, FileStepKeeps DEF OpenCache, Phase, Writing
<1>3. CASE FillCache(p)
  BY <1>1, <1>3, FilledSound, FileStepKeeps DEF FillCache, Phase, Writing
<1>4. CASE OpenIndex(p)
  BY <1>1, <1>4, FilledSound, FileStepKeeps DEF OpenIndex, Phase, Writing
<1>5. CASE FillIndex(p)
  BY <1>1, <1>5, FilledSound, FileStepKeeps DEF FillIndex, Phase
<1>6. QED
  BY <1>2, <1>3, <1>4, <1>5

LEMMA PrintInventoryKeeps ==
    ASSUME InventoryInv, NEW p \in Process, PrintInventory(p)
    PROVE  InventoryInv'
<1>1. PICK text : text = IF IsEmptyInventory(work[p].book) THEN cache ELSE work[p].book
  OBVIOUS
<1>2. End(p, [kind |-> "inventory", text |-> text])
  BY <1>1 DEF PrintInventory
<1>3. FileSound(settings, text)
  BY <1>1 DEF InventoryInv, WorkSound, FileSound
<1>4. OutputSound(settings, [kind |-> "inventory", text |-> text])
  BY <1>3 DEF OutputSound, FileSound
<1>5. QED
  BY <1>2, <1>4, EndKeeps DEF PrintInventory, files, InventoryInv

LEMMA FetchInstanceKeeps ==
    ASSUME InventoryInv, NEW p \in Process, FetchInstance(p)
    PROVE  InventoryInv'
<1>1. PICK printed : End(p, printed) /\ (printed = NoOutput \/ printed.kind = "host")
  <2> DEFINE entry == work[p].book.index[work[p].wanted]
             found == InstanceIn(Clouds[world], entry[1], entry[2])
  <2>1. PICK answer : answer = [kind |-> "host", host |-> work[p].wanted,
                                info |-> InfoOf(CHOOSE r \in found : TRUE)]
    OBVIOUS
  <2>2. End(p, answer) \/ End(p, NoOutput)
    BY <2>1, Zenon DEF FetchInstance
  <2>3. answer.kind = "host"
    BY <2>1
  <2>4. QED
    BY <2>2, <2>3
<1>2. OutputSound(settings, printed)
  BY <1>1, IdleSound DEF OutputSound
<1>3. QED
  BY <1>1, <1>2, EndKeeps DEF FetchInstance, files, InventoryInv

LEMMA CrashKeeps ==
    ASSUME InventoryInv, NEW p \in Process, Crash(p)
    PROVE  InventoryInv'
<1>1. accident' \in BOOLEAN
  BY Zenon DEF Crash
<1>2. QED
  BY <1>1, IdleSound, EndKeeps DEF Crash

(* A host is looked up in the index of the refresh, of the file, or of a   *)
(* second refresh on top of it.                                            *)
LEMMA LookUpHostKeeps ==
    ASSUME InventoryInv, NEW p \in Process, LookUpHost(p)
    PROVE  InventoryInv'
<1>1. /\ WorkSound(settings, work[p]) /\ output = [q \in Process |-> output[q]]
      /\ work[p].asked = 0
  BY DEF InventoryInv, LookUpHost
<1>2. PICK load : load = (work[p].book.index = <<>> /\ ~work[p].again)
  OBVIOUS
<1>3. PICK known : known = IF load THEN index.index ELSE work[p].book.index
  OBVIOUS
<1>4. PICK book : book = [work[p].book EXCEPT !.index = known]
  OBVIOUS
<1>5. BookSound(settings, book)
  <2>1. known = work[p].book.index \/ work[p].book.index = <<>>
    BY <1>2, <1>3
  <2>2. QED
    BY <1>1, <1>4, <2>1, LoadedBookSound DEF WorkSound
<1>6. /\ settings' = settings /\ world' = world /\ cache' = cache /\ index' = index
      /\ fresh' = fresh /\ accident' = accident
  BY DEF LookUpHost, files
<1>7. CASE \E printed : End(p, printed) /\ printed \in {NoOutput, [kind |-> "nothing", host |-> work[p].wanted]}
  <2>1. PICK printed : End(p, printed) /\ printed \in {NoOutput, [kind |-> "nothing", host |-> work[p].wanted]}
    BY <1>7
  <2>2. OutputSound(settings, printed)
    BY <2>1, IdleSound DEF OutputSound
  <2>3. QED
    BY <1>6, <2>1, <2>2, EndKeeps DEF InventoryInv
<1>8. CASE /\ phase' = [phase EXCEPT ![p] = "fetching"]
           /\ work' = [work EXCEPT ![p].book = book]
           /\ UNCHANGED <<output, since>>
  <2>1. PICK w : w = [work[p] EXCEPT !.book = book]
    OBVIOUS
  <2>2. work' = [work EXCEPT ![p] = w] /\ work'[p] = w
    BY <1>8, <2>1 DEF InventoryInv
  <2>3. /\ IsRecordOfWork(w) /\ w.wanted = work[p].wanted /\ w.todo = work[p].todo
        /\ w.credentials = work[p].credentials /\ w.book = book /\ w.heard = work[p].heard
        /\ w.asked = 0
    BY <1>1, <2>1 DEF WorkSound, IsRecordOfWork
  <2>4. WorkSound(settings, w)
    BY <1>1, <1>5, <2>3 DEF WorkSound, HeadSound, Needs, AskedSound
  <2>5. phase' = [phase EXCEPT ![p] = phase'[p]] /\ phase'[p] \in Phase /\ output' = [output EXCEPT ![p] = output'[p]]
    BY <1>1, <1>8 DEF InventoryInv, Phase
  <2>6. QED
    BY <1>6, <1>8, <2>2, <2>3, <2>4, <2>5, StepSound DEF InventoryInv
<1>9. CASE /\ phase' = [phase EXCEPT ![p] = "calling"]
           /\ work' = [work EXCEPT ![p] = [work[p] EXCEPT !.book = book, !.again = TRUE, !.todo = Plan(settings)]]
           /\ UNCHANGED <<output, since>>
  <2>1. PICK w : w = [work[p] EXCEPT !.book = book, !.again = TRUE, !.todo = Plan(settings)]
    OBVIOUS
  <2>2. work' = [work EXCEPT ![p] = w] /\ work'[p] = w
    BY <1>9, <2>1 DEF InventoryInv
  <2>3. /\ IsRecordOfWork(w) /\ w.wanted = work[p].wanted /\ w.todo = Plan(settings)
        /\ w.credentials = work[p].credentials /\ w.book = book /\ w.asked = 0
    BY <1>1, <2>1 DEF WorkSound, IsRecordOfWork
  <2>4. WorkSound(settings, w)
    BY <1>1, <1>5, <2>3, PlannedSound, SettingsAre DEF WorkSound
  <2>5. phase' = [phase EXCEPT ![p] = phase'[p]] /\ phase'[p] \in Phase /\ output' = [output EXCEPT ![p] = output'[p]]
    BY <1>1, <1>9 DEF InventoryInv, Phase
  <2>6. QED
    BY <1>6, <1>9, <2>2, <2>3, <2>4, <2>5, StepSound DEF InventoryInv
<1>10. QED
  BY <1>2, <1>3, <1>4, <1>7, <1>8, <1>9, Zenon DEF LookUpHost

(* The states of the cloud are in order.                                   *)
LEMMA WorldsAre == DOMAIN Clouds = 1..Len(Clouds) /\ Len(Clouds) \in Nat \ {0}
<1> DEFINE S == ToSet(Clouds)
<1>1. Clouds \in Seq(S) /\ Len(Clouds) > 0
  BY InventoryAssumption DEF IsSequence
<1> HIDE DEF S
<1>2. QED
  BY <1>1

(* What does not belong to one process.                                    *)
LEMMA OthersKeep ==
    ASSUME InventoryInv, CloudChanges \/ CacheExpires \/ UNCHANGED vars
    PROVE  InventoryInv'
<1>1. /\ settings' = settings /\ cache' = cache /\ index' = index /\ accident' = accident
      /\ phase' = phase /\ work' = work /\ output' = output
      /\ world' = world \/ world' \in (world + 1)..Len(Clouds)
      /\ fresh' \in BOOLEAN
  BY DEF InventoryInv, CloudChanges, CacheExpires, vars, files
<1>2. world' \in DOMAIN Clouds
  BY <1>1, WorldsAre DEF InventoryInv
<1>3. QED
  BY <1>1, <1>2 DEF InventoryInv

LEMMA InitKeeps == Init => InventoryInv
<1> SUFFICES ASSUME Init PROVE InventoryInv
  OBVIOUS
<1>1. settings \in {s.settings : s \in Scenario}
  BY DEF Init
<1>2. world \in DOMAIN Clouds
  <2> DEFINE S == ToSet(Clouds)
  <2>1. Clouds \in Seq(S) /\ Len(Clouds) > 0
    BY InventoryAssumption DEF IsSequence
  <2> HIDE DEF S
  <2>2. QED
    BY <2>1 DEF Init
<1>3. FileSound(settings, Absent)
  BY DEF FileSound, Readable
<1>4. QED
  BY <1>1, <1>2, <1>3, IdleSound DEF Init, InventoryInv, Phase

LEMMA NextKeeps == InventoryInv /\ [Next]_vars => InventoryInv'
<1> SUFFICES ASSUME InventoryInv, [Next]_vars PROVE InventoryInv'
  OBVIOUS
<1>1. ASSUME NEW p \in Process, Step(p) PROVE InventoryInv'
  <2>1. CASE GetRoute53Records(p)
    BY <2>1, GetRoute53RecordsKeeps
  <2>2. CASE ListInstances(p)
    BY <2>2, ListInstancesKeeps
  <2>3. CASE AddInstances(p)
    BY <2>3, AddInstancesKeeps
  <2>4. CASE DescribeDatabases(p)
    BY <2>4, DescribeDatabasesKeeps
  <2>5. CASE AddDatabases(p)
    BY <2>5, AddDatabasesKeeps
  <2>6. CASE AddElasticache(p, "clusters", "cluster")
    BY <2>6, AddElasticacheKeeps
  <2>7. CASE AddElasticache(p, "replications", "replication")
    BY <2>7, AddElasticacheKeeps
  <2>8. CASE IncludeDbClusters(p)
    BY <2>8, IncludeDbClustersKeeps
  <2>9. CASE CallFails(p)
    BY <2>9, CallFailsKeeps
  <2>10. CASE OpenCache(p) \/ FillCache(p) \/ OpenIndex(p) \/ FillIndex(p)
    BY <2>10, WritingKeeps
  <2>11. CASE PrintInventory(p)
    BY <2>11, PrintInventoryKeeps
  <2>12. CASE LookUpHost(p)
    BY <2>12, LookUpHostKeeps
  <2>13. CASE FetchInstance(p)
    BY <2>13, FetchInstanceKeeps
  <2>14. QED
    BY <1>1, <2>1, <2>2, <2>3, <2>4, <2>5, <2>6, <2>7, <2>8, <2>9, <2>10, <2>11, <2>12, <2>13
       DEF Step
<1>2. CASE CloudChanges \/ CacheExpires \/ UNCHANGED vars
  BY <1>2, OthersKeep
<1>3. QED
  BY <1>1, <1>2, StartKeeps, CrashKeeps DEF Next

-----------------------------------------------------------------------------
(* The inductive invariant of the inventory: every book, in the memory of a *)
(* process, in a file or printed, is sound, and each call finds what the   *)
(* one before it left.                                                     *)
THEOREM InventoryInvariant == Spec => []InventoryInv
<1>1. Init => InventoryInv
  BY InitKeeps
<1>2. InventoryInv /\ [Next]_vars => InventoryInv'
  BY NextKeeps
<1>3. QED
  BY <1>1, <1>2, PTL DEF Spec

LEMMA BooksAreSound ==
    ASSUME InventoryInv
    PROVE  \A b \in Books : BookSound(settings, b)
<1>1. \A p \in Process : WorkSound(settings, work[p]) /\ OutputSound(settings, output[p])
  BY DEF InventoryInv
<1>2. FileSound(settings, cache) /\ FileSound(settings, index)
  BY DEF InventoryInv
<1>3. QED
  BY <1>1, <1>2 DEF Books, WorkSound, OutputSound, FileSound

LEMMA SoundIsBook ==
    ASSUME NEW s, NEW b, BookSound(s, b)
    PROVE  IsBook(b)
<1>1. SeenSound(s, b)
  BY DEF BookSound
<1>2. ASSUME NEW e \in b.seen
      PROVE  e \in [resource : {x.resource : x \in b.seen}, host : DOMAIN b.index,
                    records : {x.records : x \in b.seen}]
  <2>1. PICK r, h, c : r = e.resource /\ h = e.host /\ c = e.records
    OBVIOUS
  <2>2. e = [resource |-> r, host |-> h, records |-> c]
    BY <1>1, <2>1 DEF SeenSound
  <2>3. /\ r \in {x.resource : x \in b.seen} /\ c \in {x.records : x \in b.seen}
        /\ h \in DOMAIN b.index
    BY <1>1, <2>1 DEF SeenSound
  <2>4. QED
    BY <2>2, <2>3
<1>3. QED
  BY <1>2 DEF IsBook

(* The settings are those of ec2.ini all along, and every book is one.     *)
THEOREM InventoryTypeCorrect == Spec => []TypeOK
<1>1. InventoryInv => TypeOK
  <2> SUFFICES ASSUME InventoryInv PROVE TypeOK
    OBVIOUS
  <2>1. \A p \in Process : /\ work[p].wanted \in Wanted \cup {None}
                           /\ work[p].credentials \in {"own", "role"}
                           /\ IsBook(work[p].book)
    BY SoundIsBook DEF InventoryInv, WorkSound
  <2>2. \A p \in Process : output[p].kind \in {"none", "nothing", "host", "inventory"}
    BY DEF InventoryInv, OutputSound
  <2>3. (Readable(cache) => IsBook(cache)) /\ (Readable(index) => IsBook(index))
    BY SoundIsBook DEF InventoryInv, FileSound
  <2>4. QED
    BY <2>1, <2>2, <2>3 DEF InventoryInv, TypeOK
<1>2. QED
  BY <1>1, InventoryInvariant, PTL

(* Every host that a group lists can be used: it is in the index and has   *)
(* variables, those of a resource that bore the name, whatever names        *)
(* collide and whatever refresh was put on top of which index (add_instance *)
(* and its siblings, get_host_info).                                       *)
THEOREM ListedHostsCanBeUsed == Spec => []HostsIndexed
<1>1. InventoryInv => HostsIndexed
  BY BooksAreSound DEF BookSound, HostsUsable, HostsIndexed
<1>2. QED
  BY <1>1, InventoryInvariant, PTL

(* A group means what its name says: it lists exactly the hosts of the     *)
(* resources that were pushed into it, unless it has the name of an        *)
(* identifier (push, and the assignments to inventory[instance.id]).        *)
THEOREM GroupsListWhatWasPushed == Spec => []GroupsMeanResources
<1>1. InventoryInv => GroupsMeanResources
  BY BooksAreSound DEF BookSound, GroupsMean, PushedBy, GroupsMeanResources
<1>2. QED
  BY <1>1, InventoryInvariant, PTL

(* Nested groups lead somewhere: a child is a group of the inventory,       *)
(* unless ElastiCache nested it without its prefix (push_group).            *)
THEOREM NestedGroupsExist == Spec => []ChildrenAreGroups
<1>1. InventoryInv => ChildrenAreGroups
  BY BooksAreSound DEF BookSound, ChildrenListed, Unprefixed, ChildrenAreGroups
<1>2. QED
  BY <1>1, InventoryInvariant, PTL

(* All resources of a book were listed with one account, the role's if      *)
(* there is one, although connect_args is overwritten on the way and half   *)
(* of the calls for databases are made without a connection of their own.   *)
THEOREM BooksAreOfOneAccount == Spec => []OneAccount
<1>1. InventoryInv => OneAccount
  BY BooksAreSound DEF BookSound, SeenSound, ReadSound, Account, OneAccount
<1>2. QED
  BY <1>1, InventoryInvariant, PTL

(* A database entered in a book has its own tags, as long as there is one   *)
(* page of databases and nothing came or went between the two listings that *)
(* are joined by position (get_rds_instances_by_region).                    *)
THEOREM OnePageOfDatabasesHasOwnTags == Spec => []OwnTags
<1>1. InventoryInv => OwnTags
  BY BooksAreSound DEF BookSound, SeenSound, ReadSound, OwnTags
<1>2. QED
  BY <1>1, InventoryInvariant, PTL

-----------------------------------------------------------------------------
(* The files of the inventory are those of InventoryCache.                 *)
\* A step of p that is not one of writing.
Elsewhere(p) ==
    /\ phase[p] \notin Writing
    /\ \E here \in Phase \ Writing : phase' = [phase EXCEPT ![p] = here]
    /\ work' = [work EXCEPT ![p] = work'[p]]
    /\ UNCHANGED <<cache, index, accident>>

LEMMA WritingMoves ==
    ASSUME InventoryInv, NEW p \in Process, NEW here, phase' = [phase EXCEPT ![p] = here],
           work' = [work EXCEPT ![p] = work'[p]]
    PROVE  /\ WritingOf' = [WritingOf EXCEPT ![p] = IF here \in Writing THEN here ELSE "no"]
           /\ BookOf' = [BookOf EXCEPT ![p] = IF here \in Writing THEN work'[p].book ELSE Absent]
<1>1. phase \in [Process -> Phase] /\ work = [q \in Process |-> work[q]]
  BY DEF InventoryInv
<1>2. WritingOf' = [WritingOf EXCEPT ![p] = IF here \in Writing THEN here ELSE "no"]
  BY <1>1 DEF WritingOf
<1>3. BookOf' = [BookOf EXCEPT ![p] = IF here \in Writing THEN work'[p].book ELSE Absent]
  BY <1>1 DEF BookOf
<1>4. QED
  BY <1>2, <1>3

LEMMA ElsewhereStutters ==
    ASSUME InventoryInv, NEW p \in Process, Elsewhere(p)
    PROVE  UNCHANGED Files!vars
<1>1. PICK here \in Phase \ Writing : phase' = [phase EXCEPT ![p] = here]
  BY DEF Elsewhere
<1>2. /\ WritingOf' = [WritingOf EXCEPT ![p] = "no"]
      /\ BookOf' = [BookOf EXCEPT ![p] = Absent]
  BY <1>1, WritingMoves DEF Elsewhere
<1>3. /\ WritingOf[p] = "no" /\ WritingOf = [q \in Process |-> WritingOf[q]]
      /\ BookOf[p] = Absent /\ BookOf = [q \in Process |-> BookOf[q]]
  BY DEF Elsewhere, WritingOf, BookOf
<1>4. WritingOf' = WritingOf /\ BookOf' = BookOf
  BY <1>2, <1>3
<1>5. QED
  BY <1>4 DEF Elsewhere, Files!vars

LEMMA AnsweredElsewhere ==
    ASSUME InventoryInv, NEW p \in Process, phase[p] = "calling", NEW w, Answered(p, w)
    PROVE  Elsewhere(p)
<1>1. /\ phase' = [phase EXCEPT ![p] = "calling"] /\ work' = [work EXCEPT ![p] = work'[p]]
      /\ UNCHANGED <<cache, index, accident>>
  BY DEF Answered, InventoryInv, files
<1>2. QED
  BY <1>1 DEF Elsewhere, Phase, Writing

LEMMA EndElsewhere ==
    ASSUME InventoryInv, NEW p \in Process, phase[p] \notin Writing, NEW printed, End(p, printed),
           UNCHANGED files
    PROVE  Elsewhere(p)
<1>1. /\ phase' = [phase EXCEPT ![p] = "idle"] /\ work' = [work EXCEPT ![p] = work'[p]]
      /\ UNCHANGED <<cache, index, accident>>
  BY DEF End, InventoryInv, files
<1>2. QED
  BY <1>1 DEF Elsewhere, Phase, Writing

LEMMA FailureElsewhere ==
    ASSUME InventoryInv, NEW p \in Process, phase[p] \notin Writing, OtherwiseFails(p)
    PROVE  Elsewhere(p)
BY EndElsewhere DEF OtherwiseFails

LEMMA ConnectionElsewhere ==
    ASSUME InventoryInv, NEW p \in Process, phase[p] = "calling", NEW w, OnConnection(p, w)
    PROVE  Elsewhere(p)
BY AnsweredElsewhere, FailureElsewhere DEF OnConnection, Writing

LEMMA CallElsewhere ==
    ASSUME InventoryInv, NEW p \in Process,
           \/ GetRoute53Records(p) \/ ListInstances(p) \/ AddInstances(p)
           \/ DescribeDatabases(p) \/ AddDatabases(p)
           \/ AddElasticache(p, "clusters", "cluster")
           \/ AddElasticache(p, "replications", "replication")
           \/ IncludeDbClusters(p) \/ CallFails(p)
    PROVE  Elsewhere(p)
<1>1. CASE GetRoute53Records(p) \/ DescribeDatabases(p) \/ IncludeDbClusters(p)
  BY <1>1, AnsweredElsewhere, Zenon DEF GetRoute53Records, DescribeDatabases, IncludeDbClusters, Calls
<1>2. CASE ListInstances(p)
  <2>1. phase[p] = "calling" /\ \E w : OnConnection(p, w) \/ Answered(p, w)
    BY <1>2, Zenon DEF ListInstances, Calls
  <2>2. QED
    BY <2>1, ConnectionElsewhere, AnsweredElsewhere
<1>3. CASE AddInstances(p)
  BY <1>3, AnsweredElsewhere, Zenon DEF AddInstances, Calls
<1>4. CASE AddDatabases(p)
  <2>1. phase[p] = "calling" /\ phase[p] \notin Writing
    BY <1>4 DEF AddDatabases, Calls, Writing
  <2>2. QED
    BY <1>4, <2>1, ConnectionElsewhere, FailureElsewhere, Zenon DEF AddDatabases
<1>5. ASSUME NEW call, NEW kind, AddElasticache(p, call, kind)
      PROVE  Elsewhere(p)
  BY <1>5, ConnectionElsewhere, Zenon DEF AddElasticache, Calls
<1>6. CASE CallFails(p)
  BY <1>6, FailureElsewhere DEF CallFails, Writing
<1>7. QED
  BY <1>1, <1>2, <1>3, <1>4, <1>5, <1>6

LEMMA RunElsewhere ==
    ASSUME InventoryInv, NEW p \in Process,
           Start(p) \/ PrintInventory(p) \/ LookUpHost(p) \/ FetchInstance(p)
    PROVE  Elsewhere(p)
<1>1. ASSUME NEW printed, phase[p] \in {"idle", "answering", "fetching"}, End(p, printed), UNCHANGED files
      PROVE  Elsewhere(p)
  BY <1>1, EndElsewhere DEF Writing
<1>2. ASSUME phase[p] \in {"idle", "answering"},
             \E here \in {"calling", "answering", "fetching"} : phase' = [phase EXCEPT ![p] = here],
             \E w : work' = [work EXCEPT ![p] = w], UNCHANGED files
      PROVE  Elsewhere(p)
  <2>1. work' = [work EXCEPT ![p] = work'[p]]
    BY <1>2 DEF InventoryInv
  <2>2. QED
    BY <1>2, <2>1 DEF Elsewhere, Phase, Writing, files
<1>3. CASE Start(p)
  <2>1. phase[p] = "idle" /\ UNCHANGED files
    BY <1>3 DEF Start
  <2>2. CASE End(p, NoOutput)
    BY <1>1, <2>1, <2>2
  <2>3. CASE ~End(p, NoOutput)
    <3>1. PICK host \in Wanted \cup {None}, refresh \in BOOLEAN :
              LET call == refresh \/ ~IsCacheValid
              IN  /\ phase' = [phase EXCEPT ![p] = IF call THEN "calling" ELSE "answering"]
                  /\ work' = [work EXCEPT ![p].wanted = host,
                                          ![p].todo = IF call THEN Plan(settings) ELSE <<>>]
      BY <1>3, <2>3, Zenon DEF Start
    <3>2. \E here \in {"calling", "answering", "fetching"} : phase' = [phase EXCEPT ![p] = here]
      BY <3>1
    <3>3. \E w : work' = [work EXCEPT ![p] = w]
      BY <3>1
    <3>4. QED
      BY <1>2, <2>1, <3>2, <3>3
  <2>4. QED
    BY <2>2, <2>3
<1>4. CASE PrintInventory(p)
  <2>1. phase[p] = "answering" /\ UNCHANGED files /\ \E printed : End(p, printed)
    BY <1>4, Zenon DEF PrintInventory
  <2>2. QED
    BY <1>1, <2>1
<1>5. CASE LookUpHost(p)
  <2>1. phase[p] = "answering" /\ UNCHANGED files
    BY <1>5 DEF LookUpHost
  <2>2. \/ \E printed : End(p, printed)
        \/ \E book : phase' = [phase EXCEPT ![p] = "fetching"] /\ work' = [work EXCEPT ![p].book = book]
        \/ \E w : phase' = [phase EXCEPT ![p] = "calling"] /\ work' = [work EXCEPT ![p] = w]
    BY <1>5, Zenon DEF LookUpHost
  <2>3. QED
    BY <1>1, <1>2, <2>1, <2>2
<1>6. CASE FetchInstance(p)
  <2>1. phase[p] = "fetching" /\ UNCHANGED files /\ \E printed : End(p, printed)
    BY <1>6, Zenon DEF FetchInstance
  <2>2. QED
    BY <1>1, <2>1
<1>7. QED
  BY <1>3, <1>4, <1>5, <1>6

LEMMA SoundIsReadable ==
    ASSUME NEW s, NEW b, BookSound(s, b)
    PROVE  Files!Readable(b)
<1>1. b.groups = b.groups /\ DOMAIN b = {"groups", "hostvars", "dbClusters", "index", "seen"}
  BY DEF BookSound, IsRecordOfBook
<1>2. \A text : DOMAIN [file |-> text] = {"file"}
  OBVIOUS
<1>3. QED
  BY <1>1, <1>2 DEF Files!Readable, Files!Absent, Files!Begun, Files!Torn

LEMMA OpenCacheMaps ==
    ASSUME InventoryInv, NEW p \in Process, OpenCache(p)
    PROVE  Files!OpenCache(p)
<1>1. phase' = [phase EXCEPT ![p] = "cache"] /\ work' = [work EXCEPT ![p] = work'[p]]
  BY DEF OpenCache, InventoryInv
<1>2. WritingOf' = [WritingOf EXCEPT ![p] = "cache"] /\ BookOf' = [BookOf EXCEPT ![p] = work'[p].book]
  BY <1>1, WritingMoves DEF Writing
<1>3. BookOf = [q \in Process |-> BookOf[q]] /\ WritingOf[p] = "no"
  BY DEF BookOf, WritingOf, OpenCache, Writing
<1>4. BookOf'[p] = work[p].book /\ Files!Readable(work[p].book)
  BY <1>2, <1>3, SoundIsReadable DEF OpenCache, InventoryInv, WorkSound
<1>5. accident' = ~Files!Alone(p)
  <2>1. \A q \in Process : phase[q] \in Writing <=> WritingOf[q] # "no"
    BY DEF WritingOf, Writing
  <2>2. accident' = \E q \in Process \ {p} : phase[q] \in Writing
    BY DEF OpenCache
  <2>3. (\E q \in Process \ {p} : phase[q] \in Writing) <=> ~Files!Alone(p)
    BY <2>1 DEF Files!Alone
  <2>4. QED
    BY <2>2, <2>3, Zenon
<1>6. QED
  BY <1>2, <1>3, <1>4, <1>5 DEF Files!OpenCache, OpenCache, Begun, Files!Begun

LEMMA FillCacheMaps ==
    ASSUME InventoryInv, NEW p \in Process, FillCache(p)
    PROVE  Files!FillCache(p)
<1>1. phase' = [phase EXCEPT ![p] = "between"] /\ work' = [work EXCEPT ![p] = work'[p]]
  BY DEF FillCache, InventoryInv
<1>2. WritingOf' = [WritingOf EXCEPT ![p] = "between"] /\ BookOf' = [BookOf EXCEPT ![p] = work'[p].book]
  BY <1>1, WritingMoves DEF Writing
<1>3. /\ BookOf = [q \in Process |-> BookOf[q]] /\ WritingOf[p] = "cache"
      /\ BookOf[p] = work[p].book /\ work' = work
  BY DEF BookOf, WritingOf, FillCache, Writing
<1>4. BookOf' = BookOf
  BY <1>2, <1>3
<1>5. QED
  BY <1>2, <1>3, <1>4 DEF Files!FillCache, FillCache, Filled, Files!Filled, Begun, Files!Begun, Torn, Files!Torn

LEMMA OpenIndexMaps ==
    ASSUME InventoryInv, NEW p \in Process, OpenIndex(p)
    PROVE  Files!OpenIndex(p)
<1>1. phase' = [phase EXCEPT ![p] = "index"] /\ work' = [work EXCEPT ![p] = work'[p]]
  BY DEF OpenIndex, InventoryInv
<1>2. WritingOf' = [WritingOf EXCEPT ![p] = "index"] /\ BookOf' = [BookOf EXCEPT ![p] = work'[p].book]
  BY <1>1, WritingMoves DEF Writing
<1>3. /\ BookOf = [q \in Process |-> BookOf[q]] /\ WritingOf[p] = "between"
      /\ BookOf[p] = work[p].book /\ work' = work
  BY DEF BookOf, WritingOf, OpenIndex, Writing
<1>4. BookOf' = BookOf
  BY <1>2, <1>3
<1>5. QED
  BY <1>2, <1>3, <1>4 DEF Files!OpenIndex, OpenIndex, Begun, Files!Begun

LEMMA FillIndexMaps ==
    ASSUME InventoryInv, NEW p \in Process, FillIndex(p)
    PROVE  Files!FillIndex(p)
<1>1. phase' = [phase EXCEPT ![p] = "answering"] /\ work' = [work EXCEPT ![p] = work'[p]]
  BY DEF FillIndex, InventoryInv
<1>2. WritingOf' = [WritingOf EXCEPT ![p] = "no"] /\ BookOf' = [BookOf EXCEPT ![p] = Absent]
  BY <1>1, WritingMoves DEF Writing
<1>3. WritingOf[p] = "index" /\ BookOf[p] = work[p].book
  BY DEF BookOf, WritingOf, FillIndex, Writing
<1>4. QED
  BY <1>2, <1>3
     DEF Files!FillIndex, FillIndex, Filled, Files!Filled, Begun, Files!Begun, Torn, Files!Torn, Absent, Files!Absent

LEMMA CrashMaps ==
    ASSUME InventoryInv, NEW p \in Process, Crash(p)
    PROVE  Files!StopHalfway(p) \/ UNCHANGED Files!vars
<1>1. /\ phase' = [phase EXCEPT ![p] = "idle"] /\ work' = [work EXCEPT ![p] = work'[p]]
      /\ UNCHANGED <<cache, index>>
  BY DEF Crash, End, InventoryInv
<1>2. CASE phase[p] \in Writing
  <2>1. WritingOf' = [WritingOf EXCEPT ![p] = "no"] /\ BookOf' = [BookOf EXCEPT ![p] = Absent]
    BY <1>1, WritingMoves DEF Writing
  <2>2. WritingOf[p] # "no"
    BY <1>2 DEF WritingOf, Writing
  <2>3. accident' = TRUE
    BY <1>2, Zenon DEF Crash
  <2>4. QED
    BY <1>1, <2>1, <2>2, <2>3 DEF Files!StopHalfway, Absent, Files!Absent
<1>3. CASE phase[p] \notin Writing
  <2>1. accident \in BOOLEAN
    BY DEF InventoryInv
  <2>2. accident' = accident
    <3>1. accident' = (accident \/ phase[p] \in Writing)
      BY Zenon DEF Crash
    <3>2. QED
      BY <1>3, <2>1, <3>1, Zenon
  <2>3. Elsewhere(p)
    BY <1>1, <1>3, <2>2 DEF Elsewhere, Phase, Writing
  <2>4. QED
    BY <2>3, ElsewhereStutters
<1>4. QED
  BY <1>2, <1>3

LEMMA NextMaps == InventoryInv /\ [Next]_vars => [Files!Next]_Files!vars
<1> SUFFICES ASSUME InventoryInv, [Next]_vars PROVE [Files!Next]_Files!vars
  OBVIOUS
<1>1. ASSUME NEW p \in Process, Start(p) \/ Step(p) \/ Crash(p)
      PROVE  [Files!Next]_Files!vars
  <2>1. CASE Elsewhere(p)
    BY <2>1, ElsewhereStutters
  <2>2. CASE Crash(p)
    BY <2>2, CrashMaps DEF Files!Next
  <2>3. CASE OpenCache(p) \/ FillCache(p) \/ OpenIndex(p) \/ FillIndex(p)
    BY <2>3, OpenCacheMaps, FillCacheMaps, OpenIndexMaps, FillIndexMaps DEF Files!Next
  <2>4. QED
    BY <1>1, <2>1, <2>2, <2>3, CallElsewhere, RunElsewhere DEF Step
<1>2. CASE CloudChanges \/ CacheExpires \/ UNCHANGED vars
  <2>1. phase' = phase /\ work' = work /\ UNCHANGED <<cache, index, accident>>
    BY <1>2 DEF CloudChanges, CacheExpires, vars, files
  <2>2. WritingOf' = WritingOf /\ BookOf' = BookOf
    BY <2>1 DEF WritingOf, BookOf
  <2>3. QED
    BY <2>1, <2>2 DEF Files!vars
<1>3. QED
  BY <1>1, <1>2 DEF Next

LEMMA InitMaps == Init => Files!Init
BY DEF Init, Files!Init, WritingOf, BookOf, Writing, Absent, Files!Absent

(* The two cache files of ec2.py, whatever its runs do between two writes,  *)
(* are written as InventoryCache says.                                     *)
THEOREM InventoryWritesTheCache == Spec => FilesAreCache
<1>1. Init => Files!Init
  BY InitMaps
<1>2. InventoryInv /\ [Next]_vars => [Files!Next]_Files!vars
  BY NextMaps
<1>3. Spec => Files!Spec
  BY <1>1, <1>2, InventoryInvariant, PTL DEF Spec, Files!Spec
<1>4. QED
  BY <1>3 DEF FilesAreCache

(* And so a reader of them, when nobody writes and no accident came after   *)
(* the last writer that began alone, finds both of one refresh.            *)
THEOREM InventoryFilesArePaired == Spec => []FilesArePaired
<1>1. Spec => Files!Spec
  BY InventoryWritesTheCache DEF FilesAreCache
<1>2. FilesArePaired <=> Files!Paired
  BY DEF FilesArePaired
<1>3. QED
  BY <1>1, <1>2, CacheFilesArePaired, PTL

-----------------------------------------------------------------------------
(* What lists keep.                                                        *)
LEMMA JoinedHas ==
    ASSUME NEW S, NEW a \in Seq(S), NEW b \in Seq(S)
    PROVE  a \o b \in Seq(S) /\ ToSet(a) \subseteq ToSet(a \o b) /\ ToSet(b) \subseteq ToSet(a \o b)
<1>1. /\ a \o b \in Seq(S) /\ Len(a \o b) = Len(a) + Len(b) /\ Len(a) \in Nat /\ Len(b) \in Nat
      /\ \A i \in 1..Len(a \o b) : (a \o b)[i] = IF i <= Len(a) THEN a[i] ELSE b[i - Len(a)]
  BY ConcatProperties, LenProperties
<1> DEFINE q == a \o b
<1>2. /\ ToSet(a) = {a[i] : i \in 1..Len(a)} /\ ToSet(b) = {b[i] : i \in 1..Len(b)}
      /\ ToSet(q) = {q[i] : i \in 1..Len(q)}
  BY <1>1, LenProperties DEF ToSet
<1> HIDE DEF q
<1>3. ASSUME NEW i \in 1..Len(a) PROVE a[i] \in ToSet(q)
  <2>1. i \in 1..Len(q) /\ q[i] = a[i]
    BY <1>1 DEF q
  <2>2. QED
    BY <1>2, <2>1
<1>4. ASSUME NEW i \in 1..Len(b) PROVE b[i] \in ToSet(q)
  <2>1. /\ i + Len(a) \in 1..Len(q) /\ ~(i + Len(a) <= Len(a)) /\ (i + Len(a)) - Len(a) = i
    BY <1>1 DEF q
  <2>2. q[i + Len(a)] = b[i]
    BY <1>1, <2>1 DEF q
  <2>3. QED
    BY <1>2, <2>1, <2>2
<1>5. QED
  BY <1>1, <1>2, <1>3, <1>4 DEF q

LEMMA ChosenHas ==
    ASSUME NEW list, IsSequence(list), NEW S
    PROVE  ToSet(list) \cap S \subseteq ToSet(Chosen(list, S))
<1> DEFINE g == CHOOSE f : ChosenUpTo(list, S, Len(list), f)
           X == ToSet(list) \cap S
<1>0. Len(list) \in Nat /\ DOMAIN list = 1..Len(list) /\ ToSet(list) = {list[i] : i \in 1..Len(list)}
  BY SequenceHas
<1>1. ChosenUpTo(list, S, Len(list), g)
  BY <1>0, ChosenExists
<1>2. Chosen(list, S) = g[Len(list)]
  BY DEF Chosen, ChosenUpTo
<1> HIDE DEF g
<1>3. \A i \in 0..Len(list) :
          g[i] = IF i = 0 THEN <<>>
                 ELSE IF list[i] \in S THEN Append(g[i - 1], list[i]) ELSE g[i - 1]
  BY <1>1 DEF ChosenUpTo
<1> DEFINE T == {k \in Nat : k <= Len(list) =>
                     /\ g[k] \in Seq(X)
                     /\ \A i \in 1..k : list[i] \in S => list[i] \in ToSet(g[k])}
<1>4. 0 \in T
  <2>1. g[0] = <<>> /\ 1..0 = {}
    BY <1>0, <1>3
  <2>2. QED
    BY <2>1, EmptySeq
<1>5. ASSUME NEW k \in T PROVE k + 1 \in T
  <2> SUFFICES ASSUME k + 1 <= Len(list)
               PROVE  /\ g[k + 1] \in Seq(X)
                      /\ \A i \in 1..(k + 1) : list[i] \in S => list[i] \in ToSet(g[k + 1])
    OBVIOUS
  <2>1. k + 1 \in 0..Len(list) /\ k + 1 \in 1..Len(list) /\ k + 1 # 0 /\ (k + 1) - 1 = k /\ k <= Len(list)
        /\ \A i \in 1..(k + 1) : i \in 1..k \/ i = k + 1
    BY <1>0
  <2>2. g[k] \in Seq(X) /\ \A i \in 1..k : list[i] \in S => list[i] \in ToSet(g[k])
    BY <2>1
  <2>3. g[k + 1] = IF list[k + 1] \in S THEN Append(g[k], list[k + 1]) ELSE g[k]
    BY <1>3, <2>1
  <2>4. CASE list[k + 1] \in S
    <3>1. list[k + 1] \in X
      BY <1>0, <2>1, <2>4
    <3>2. <<list[k + 1]>> \in Seq(X) /\ g[k + 1] = g[k] \o <<list[k + 1]>>
      <4>1. <<list[k + 1]>> \in Seq(X)
        BY <3>1
      <4> HIDE DEF X
      <4>2. QED
        BY <2>2, <2>3, <2>4, <3>1, <4>1, AppendIsConcat
    <3>3. list[k + 1] \in ToSet(<<list[k + 1]>>)
      BY DEF ToSet
    <3>4. QED
      BY <2>1, <2>2, <3>2, <3>3, JoinedHas
  <2>5. CASE list[k + 1] \notin S
    BY <2>1, <2>2, <2>3, <2>5
  <2>6. QED
    BY <2>4, <2>5
<1> HIDE DEF T
<1>6. T = Nat
  BY <1>4, <1>5, NatSetInduction DEF T
<1>7. Len(list) \in T
  BY <1>0, <1>6
<1>8. QED
  BY <1>0, <1>2, <1>7 DEF T

LEMMA FlattenHas ==
    ASSUME NEW S, NEW lists, IsSequence(lists), \A i \in DOMAIN lists : lists[i] \in Seq(S),
           NEW k \in DOMAIN lists
    PROVE  ToSet(lists[k]) \subseteq ToSet(FlattenSeq(lists))
<1>0. Len(lists) \in Nat /\ DOMAIN lists = 1..Len(lists) /\ k \in 1..Len(lists)
  BY SequenceHas
<1>1. Len(lists) # 0 /\ lists # <<>>
  <2>1. Len(lists) # 0
    BY <1>0
  <2>2. QED
    BY <2>1, EmptySeq
<1> DEFINE g == CHOOSE f : FlattenUpTo(lists, Len(lists), f)
           T == {n \in Nat : n + 1 <= Len(lists) =>
                     /\ g[n + 1] \in Seq(S)
                     /\ k <= n + 1 => ToSet(lists[k]) \subseteq ToSet(g[n + 1])}
<1>2. FlattenUpTo(lists, Len(lists), g)
  BY <1>0, FlattenExists
<1>3. FlattenSeq(lists) = g[Len(lists)]
  BY <1>1 DEF FlattenSeq, FlattenUpTo
<1> HIDE DEF g
<1>4. \A i \in 1..Len(lists) : g[i] = IF i = 1 THEN lists[i] ELSE g[i - 1] \o lists[i]
  BY <1>2 DEF FlattenUpTo
<1>5. 0 \in T
  <2>1. 1 \in 1..Len(lists) /\ 0 + 1 = 1 /\ (k <= 1 => k = 1)
    BY <1>0
  <2>2. g[1] = lists[1] /\ lists[1] \in Seq(S)
    BY <1>0, <1>4, <2>1
  <2>3. QED
    BY <2>1, <2>2
<1>6. ASSUME NEW n \in T PROVE n + 1 \in T
  <2> SUFFICES ASSUME (n + 1) + 1 <= Len(lists)
               PROVE  /\ g[(n + 1) + 1] \in Seq(S)
                      /\ k <= (n + 1) + 1 => ToSet(lists[k]) \subseteq ToSet(g[(n + 1) + 1])
    OBVIOUS
  <2>1. /\ (n + 1) + 1 \in 1..Len(lists) /\ (n + 1) + 1 # 1 /\ ((n + 1) + 1) - 1 = n + 1
        /\ n + 1 <= Len(lists) /\ (k <= (n + 1) + 1 => k <= n + 1 \/ k = (n + 1) + 1)
    BY <1>0
  <2>2. g[n + 1] \in Seq(S) /\ (k <= n + 1 => ToSet(lists[k]) \subseteq ToSet(g[n + 1]))
    BY <2>1
  <2>3. g[(n + 1) + 1] = g[n + 1] \o lists[(n + 1) + 1]
    BY <1>4, <2>1
  <2>4. lists[(n + 1) + 1] \in Seq(S)
    BY <1>0, <2>1
  <2>5. /\ g[(n + 1) + 1] \in Seq(S) /\ ToSet(g[n + 1]) \subseteq ToSet(g[(n + 1) + 1])
        /\ ToSet(lists[(n + 1) + 1]) \subseteq ToSet(g[(n + 1) + 1])
    BY <2>2, <2>3, <2>4, JoinedHas
  <2>6. QED
    BY <2>1, <2>2, <2>5
<1> HIDE DEF T
<1>7. T = Nat
  BY <1>5, <1>6, NatSetInduction DEF T
<1>8. Len(lists) - 1 \in Nat /\ (Len(lists) - 1) + 1 = Len(lists) /\ k <= Len(lists)
  BY <1>0, <1>1
<1>9. PICK n \in Nat : n + 1 = Len(lists) /\ k <= n + 1
  BY <1>8
<1>10. n \in T /\ n + 1 <= Len(lists)
  BY <1>0, <1>7, <1>9
<1>11. ToSet(lists[k]) \subseteq ToSet(g[n + 1])
  BY <1>9, <1>10 DEF T
<1>12. QED
  BY <1>3, <1>9, <1>11

-----------------------------------------------------------------------------
(* What entering resources does to the index.                              *)
\* The first n resources found have been entered.
IndexesUpTo(s, records, found, n, old, new) ==
    /\ DOMAIN old \subseteq DOMAIN new
    /\ \A h \in DOMAIN new :
          \/ h \in DOMAIN old /\ new[h] = old[h]
          \/ \E i \in 1..n : /\ Gathered(s, found[i]) /\ h \in HostnamesOf(s, records, found[i])
                             /\ new[h] = <<found[i].region, found[i].id>>
    /\ \A i \in 1..n : Gathered(s, found[i]) =>
          \E h \in HostnamesOf(s, records, found[i]) : Shown(s, found[i], h) => h \in DOMAIN new

Indexes(s, records, found, old, new) == IndexesUpTo(s, records, found, Len(found), old, new)

\* One more of them.
LEMMA EnteredOneMore ==
    ASSUME NEW s, NEW records, NEW found, NEW n \in Nat, NEW old,
           NEW b, IsRecordOfBook(b), IndexesUpTo(s, records, found, n, old, b.index),
           NEW c \in Added(s, records, b, found[n + 1])
    PROVE  IsRecordOfBook(c) /\ IndexesUpTo(s, records, found, n + 1, old, c.index)
<1> DEFINE r == found[n + 1]
<1>0. n + 1 \in 1..(n + 1) /\ \A i \in 1..(n + 1) : i \in 1..n \/ i = n + 1
  OBVIOUS
<1>1. CASE ~Gathered(s, r)
  <2>1. c = b
    BY <1>1 DEF Added
  <2>2. QED
    BY <1>0, <1>1, <2>1 DEF IndexesUpTo
<1>2. CASE Gathered(s, r)
  <2>1. PICK h \in HostnamesOf(s, records, r) : c = IF Shown(s, r, h) THEN Enter(s, records, b, r, h) ELSE b
    BY <1>2 DEF Added
  <2>2. CASE ~Shown(s, r, h)
    BY <1>0, <1>2, <2>1, <2>2 DEF IndexesUpTo
  <2>3. CASE Shown(s, r, h)
    <3>1. IsRecordOfBook(c) /\ c.index = With(b.index, h, <<r.region, r.id>>)
      BY <2>1, <2>3, EnterIs
    <3>2. /\ DOMAIN c.index = DOMAIN b.index \cup {h} /\ c.index[h] = <<r.region, r.id>>
          /\ \A x \in DOMAIN b.index : x # h => c.index[x] = b.index[x]
      BY <3>1 DEF With
    <3>3. DOMAIN old \subseteq DOMAIN c.index
      BY <3>2 DEF IndexesUpTo
    <3>4. ASSUME NEW x \in DOMAIN c.index
          PROVE  \/ x \in DOMAIN old /\ c.index[x] = old[x]
                 \/ \E i \in 1..(n + 1) : /\ Gathered(s, found[i]) /\ x \in HostnamesOf(s, records, found[i])
                                          /\ c.index[x] = <<found[i].region, found[i].id>>
      <4>1. CASE x = h
        BY <1>0, <1>2, <2>1, <3>2, <4>1
      <4>2. CASE x # h
        <5>1. x \in DOMAIN b.index /\ c.index[x] = b.index[x]
          BY <3>2, <4>2
        <5>2. 1..n \subseteq 1..(n + 1)
          OBVIOUS
        <5>3. QED
          BY <5>1, <5>2 DEF IndexesUpTo
      <4>3. QED
        BY <4>1, <4>2
    <3>5. ASSUME NEW i \in 1..(n + 1), Gathered(s, found[i])
          PROVE  \E x \in HostnamesOf(s, records, found[i]) : Shown(s, found[i], x) => x \in DOMAIN c.index
      <4>1. CASE i = n + 1
        BY <2>1, <3>2, <4>1
      <4>2. CASE i \in 1..n
        BY <3>2, <3>5, <4>2 DEF IndexesUpTo
      <4>3. QED
        BY <1>0, <4>1, <4>2
    <3>6. QED
      BY <3>1, <3>3, <3>4, <3>5 DEF IndexesUpTo
  <2>4. QED
    BY <2>2, <2>3
<1>3. QED
  BY <1>1, <1>2

LEMMA AddedAllIndexes ==
    ASSUME NEW s, NEW records, NEW b, IsRecordOfBook(b), NEW found, IsSequence(found),
           NEW c \in AddedAll(s, records, b, found)
    PROVE  Indexes(s, records, found, b.index, c.index)
<1>1. Len(found) \in Nat /\ DOMAIN found = 1..Len(found)
  BY SequenceHas
<1>2. PICK g : /\ g[0] = {b} /\ AddedAll(s, records, b, found) = g[Len(found)]
               /\ \A i \in 1..Len(found) : \A x \in g[i] :
                      \E y \in g[i - 1] : x \in Added(s, records, y, found[i])
  BY AddedAllUnfolds
<1> DEFINE T == {k \in Nat : k <= Len(found) =>
                     \A x \in g[k] : IsRecordOfBook(x) /\ IndexesUpTo(s, records, found, k, b.index, x.index)}
<1>3. 0 \in T
  BY <1>2 DEF IndexesUpTo
<1>4. ASSUME NEW k \in T PROVE k + 1 \in T
  <2> SUFFICES ASSUME k + 1 <= Len(found), NEW x \in g[k + 1]
               PROVE  IsRecordOfBook(x) /\ IndexesUpTo(s, records, found, k + 1, b.index, x.index)
    OBVIOUS
  <2>1. k + 1 \in 1..Len(found) /\ (k + 1) - 1 = k /\ k <= Len(found)
    BY <1>1
  <2>2. PICK y \in g[k] : x \in Added(s, records, y, found[k + 1])
    BY <1>2, <2>1
  <2>3. IsRecordOfBook(y) /\ IndexesUpTo(s, records, found, k, b.index, y.index)
    BY <2>1
  <2>4. QED
    BY <2>2, <2>3, EnteredOneMore
<1> HIDE DEF T
<1>5. T = Nat
  BY <1>3, <1>4, NatSetInduction DEF T
<1>6. Len(found) \in T
  BY <1>1, <1>5
<1>7. QED
  BY <1>1, <1>2, <1>6 DEF T, Indexes

-----------------------------------------------------------------------------
(* What the listing of instances has.                                      *)
LEMMA ChosenIs ==
    ASSUME NEW list, IsSequence(list), NEW S
    PROVE  ToSet(Chosen(list, S)) = ToSet(list) \cap S
<1>1. Chosen(list, S) \in Seq(ToSet(list) \cap S)
  BY ChosenOf
<1> DEFINE X == ToSet(list) \cap S
<1>2. ToSet(Chosen(list, S)) \subseteq X
  <2> HIDE DEF X
  <2>1. Chosen(list, S) \in Seq(X)
    BY <1>1 DEF X
  <2>2. QED
    BY <2>1, SequenceOver
<1>3. QED
  BY <1>2, ChosenHas

LEMMA ListedIs ==
    ASSUME NEW filter, NEW instances, IsSequence(instances)
    PROVE  ToSet(ListedBy(filter, instances)) = {r \in ToSet(instances) : ServerMatches(filter, r)}
<1> DEFINE S == {r \in ToSet(instances) : ServerMatches(filter, r)}
<1>1. ToSet(instances) \cap S = S
  OBVIOUS
<1>2. ListedBy(filter, instances) = Chosen(instances, S)
  BY DEF ListedBy
<1> HIDE DEF S
<1>3. ToSet(ListedBy(filter, instances)) = S
  BY <1>1, <1>2, ChosenIs
<1>4. QED
  BY <1>3 DEF S

LEMMA ResourcesHave ==
    ASSUME NEW kind, NEW region, world \in DOMAIN Clouds
    PROVE  /\ IsSequence(Resources(kind, region))
           /\ ToSet(Resources(kind, region)) = ResourcesOf(kind, region, Clouds[world])
<1>1. Clouds[world] \in ToSet(Clouds)
  BY DEF ToSet
<1>2. IsSequence(Clouds[world].resources)
  BY <1>1, InventoryAssumption
<1> DEFINE S == ResourcesOf(kind, region, Clouds[world])
<1>3. S \subseteq ToSet(Clouds[world].resources)
  BY DEF ResourcesOf
<1>4. Resources(kind, region) = Chosen(Clouds[world].resources, S)
  BY DEF Resources
<1> HIDE DEF S
<1>5. PICK list : list = Clouds[world].resources
  OBVIOUS
<1>6. /\ Chosen(list, S) \in Seq(ToSet(list) \cap S)
      /\ ToSet(Chosen(list, S)) = ToSet(list) \cap S
  BY <1>2, <1>5, ChosenIs, ChosenOf
<1>7. IsSequence(Chosen(list, S))
  BY <1>6, SequenceOver
<1>8. QED
  BY <1>3, <1>4, <1>5, <1>6, <1>7 DEF S

-----------------------------------------------------------------------------
(* The tags of a region's instances are asked for right after them.        *)
Followed(todo) ==
    \A i \in 1..Len(todo) : todo[i].call = "instances" =>
        /\ i + 1 \in 1..Len(todo)
        /\ todo[i + 1].call = "tags" /\ todo[i + 1].region = todo[i].region

LEMMA JoinedFollow ==
    ASSUME NEW S, NEW a \in Seq(S), NEW b \in Seq(S), Followed(a), Followed(b)
    PROVE  Followed(a \o b)
<1>1. /\ a \o b \in Seq(S) /\ Len(a \o b) = Len(a) + Len(b) /\ Len(a) \in Nat /\ Len(b) \in Nat
      /\ \A i \in 1..Len(a \o b) : (a \o b)[i] = IF i <= Len(a) THEN a[i] ELSE b[i - Len(a)]
  BY ConcatProperties, LenProperties
<1> DEFINE q == a \o b
<1> HIDE DEF q
<1> SUFFICES ASSUME NEW i \in 1..Len(q), q[i].call = "instances"
             PROVE  /\ i + 1 \in 1..Len(q)
                    /\ q[i + 1].call = "tags" /\ q[i + 1].region = q[i].region
  BY DEF Followed, q
<1>2. CASE i <= Len(a)
  <2>1. i \in 1..Len(a) /\ q[i] = a[i]
    BY <1>1, <1>2 DEF q
  <2>2. i + 1 \in 1..Len(a) /\ a[i + 1].call = "tags" /\ a[i + 1].region = a[i].region
    BY <2>1 DEF Followed
  <2>3. i + 1 \in 1..Len(q) /\ q[i + 1] = a[i + 1]
    BY <1>1, <2>2 DEF q
  <2>4. QED
    BY <2>1, <2>2, <2>3
<1>3. CASE ~(i <= Len(a))
  <2>1. i - Len(a) \in 1..Len(b) /\ q[i] = b[i - Len(a)]
    BY <1>1, <1>3 DEF q
  <2>2. PICK j \in 1..Len(b) : j = i - Len(a)
    BY <2>1
  <2>3. j + 1 \in 1..Len(b) /\ b[j + 1].call = "tags" /\ b[j + 1].region = b[j].region
    BY <2>1, <2>2 DEF Followed
  <2>4. i + 1 \in 1..Len(q) /\ ~(i + 1 <= Len(a)) /\ (i + 1) - Len(a) = j + 1
    BY <1>1, <1>3, <2>2, <2>3 DEF q
  <2>5. q[i + 1] = b[j + 1]
    BY <1>1, <2>4 DEF q
  <2>6. QED
    BY <2>1, <2>2, <2>3, <2>4, <2>5
<1>4. QED
  BY <1>2, <1>3

LEMMA CallsAt ==
    ASSUME NEW region, NEW n \in Nat, NEW calls \in [1..n -> CallName]
    PROVE  /\ At(region, calls) \in Seq(Call({region})) /\ Len(At(region, calls)) = n
           /\ \A i \in 1..n : At(region, calls)[i] = [call |-> calls[i], region |-> region]
<1> DEFINE q == At(region, calls)
<1>1. q \in [1..n -> Call({region})] /\ \A i \in 1..n : q[i] = [call |-> calls[i], region |-> region]
  BY DEF At, Call
<1> HIDE DEF q
<1>2. q \in Seq(Call({region})) /\ Len(q) = n
  <2> DEFINE S == Call({region})
  <2>1. q \in [1..n -> S]
    BY <1>1
  <2> HIDE DEF S
  <2>2. q \in Seq(S) /\ Len(q) = n
    BY <2>1
  <2>3. QED
    BY <2>2 DEF S
<1>3. QED
  BY <1>1, <1>2 DEF q

\* A region's calls begin with that for its instances.
LEMMA CallsOfFollow ==
    ASSUME NEW s, NEW region
    PROVE  /\ CallsOf(s, region) \in Seq(Call({region})) /\ Followed(CallsOf(s, region))
           /\ [call |-> "instances", region |-> region] \in ToSet(CallsOf(s, region))
<1> DEFINE R == {region}
           a == IF s.rds THEN <<"instances", "tags", "arns", "databases">>
                ELSE <<"instances", "tags">>
           b == IF s.elasticache THEN <<"clusters", "replications">> ELSE <<>>
           c == IF s.dbClusters THEN <<"dbClusters">> ELSE <<>>
           first == [call |-> "instances", region |-> region]
<1>1. /\ At(region, a) \in Seq(Call(R)) /\ Followed(At(region, a))
      /\ first \in ToSet(At(region, a))
  <2>1. PICK n \in Nat : /\ n > 1 /\ a \in [1..n -> CallName]
                         /\ a[1] = "instances" /\ a[2] = "tags"
                         /\ \A i \in 2..n : a[i] # "instances"
    <3>1. CASE s.rds
      <4>1. a = <<"instances", "tags", "arns", "databases">>
        BY <3>1
      <4>2. /\ a \in [1..4 -> CallName] /\ a[1] = "instances" /\ a[2] = "tags"
            /\ a[3] = "arns" /\ a[4] = "databases" /\ \A i \in 2..4 : i = 2 \/ i = 3 \/ i = 4
        BY <4>1 DEF CallName
      <4> HIDE DEF a
      <4>3. \A i \in 2..4 : a[i] # "instances"
        BY <4>2
      <4>4. 4 \in Nat /\ 4 > 1
        OBVIOUS
      <4>5. QED
        BY <4>2, <4>3, <4>4
    <3>2. CASE ~s.rds
      <4>1. a = <<"instances", "tags">>
        BY <3>2
      <4>2. a \in [1..2 -> CallName] /\ a[1] = "instances" /\ a[2] = "tags" /\ \A i \in 2..2 : i = 2
        BY <4>1 DEF CallName
      <4> HIDE DEF a
      <4>3. \A i \in 2..2 : a[i] # "instances"
        BY <4>2
      <4>4. 2 \in Nat /\ 2 > 1
        OBVIOUS
      <4>5. QED
        BY <4>2, <4>3, <4>4
    <3>3. QED
      BY <3>1, <3>2
  <2> HIDE DEF a
  <2> DEFINE q == At(region, a)
  <2>2. /\ q \in Seq(Call(R)) /\ Len(q) = n
        /\ \A i \in 1..n : q[i] = [call |-> a[i], region |-> region]
    BY <2>1, CallsAt
  <2> HIDE DEF q
  <2>3. 1 \in 1..n /\ 2 \in 1..n /\ \A i \in 1..n : i = 1 \/ i \in 2..n
    BY <2>1
  <2>4. Followed(q)
    <3> SUFFICES ASSUME NEW i \in 1..n, q[i].call = "instances"
                 PROVE  /\ i + 1 \in 1..n
                        /\ q[i + 1].call = "tags" /\ q[i + 1].region = q[i].region
      BY <2>2 DEF Followed
    <3>1. i = 1
      BY <2>1, <2>2, <2>3
    <3>2. i + 1 = 2
      BY <3>1
    <3>3. QED
      BY <2>1, <2>2, <2>3, <3>1, <3>2
  <2>5. ToSet(q) = {q[i] : i \in 1..n}
    BY <2>2, SequenceOver, SequenceHas
  <2>6. QED
    BY <2>1, <2>2, <2>3, <2>4, <2>5 DEF q
<1>2. ASSUME NEW n \in Nat, NEW calls \in [1..n -> CallName \ {"instances"}]
      PROVE  At(region, calls) \in Seq(Call(R)) /\ Followed(At(region, calls))
  <2>1. calls \in [1..n -> CallName]
    OBVIOUS
  <2>2. /\ At(region, calls) \in Seq(Call(R)) /\ Len(At(region, calls)) = n
        /\ \A i \in 1..n : At(region, calls)[i] = [call |-> calls[i], region |-> region]
    BY <2>1, CallsAt
  <2>3. QED
    BY <2>2 DEF Followed
<1>3. At(region, b) \in Seq(Call(R)) /\ Followed(At(region, b))
  <2>1. b \in [1..2 -> CallName \ {"instances"}] \/ b \in [1..0 -> CallName \ {"instances"}]
    BY DEF CallName
  <2> HIDE DEF b
  <2>2. QED
    BY <1>2, <2>1
<1>4. At(region, c) \in Seq(Call(R)) /\ Followed(At(region, c))
  <2>1. c \in [1..1 -> CallName \ {"instances"}] \/ c \in [1..0 -> CallName \ {"instances"}]
    BY DEF CallName
  <2> HIDE DEF c
  <2>2. QED
    BY <1>2, <2>1
<1>5. CallsOf(s, region) = (At(region, a) \o At(region, b)) \o At(region, c)
  BY DEF CallsOf
<1> HIDE DEF a, b, c
<1> DEFINE ab == At(region, a) \o At(region, b)
<1>6. /\ ab \in Seq(Call(R)) /\ Followed(ab) /\ first \in ToSet(ab)
  BY <1>1, <1>3, JoinedFollow, JoinedHas
<1> HIDE DEF ab
<1>7. /\ ab \o At(region, c) \in Seq(Call(R)) /\ Followed(ab \o At(region, c))
      /\ first \in ToSet(ab \o At(region, c))
  BY <1>4, <1>6, JoinedFollow, JoinedHas
<1>8. QED
  BY <1>5, <1>7 DEF ab

\* A refresh asks for the instances of every region, after the DNS records.
LEMMA PlanHas ==
    ASSUME NEW s, IsSequence(s.regions)
    PROVE  /\ Followed(Plan(s))
           /\ \A region \in ToSet(Regions(s)) :
                 [call |-> "instances", region |-> region] \in ToSet(Plan(s))
           /\ s.route53 => Plan(s) # <<>> /\ Head(Plan(s)).call = "records"
<1> DEFINE q == Regions(s)
           R == ToSet(q) \cup {None}
           Good == {x \in Seq(Call(R)) : Followed(x)}
           lists == [i \in DOMAIN q |-> CallsOf(s, q[i])]
           first == At(None, IF s.route53 THEN <<"records">> ELSE <<>>)
<1>1. IsSequence(q) /\ Len(q) \in Nat /\ DOMAIN q = 1..Len(q) /\ ToSet(q) = {q[i] : i \in 1..Len(q)}
  <2>1. IsSequence(q)
    BY RegionsAreSequence
  <2> HIDE DEF q
  <2>2. QED
    BY <2>1, SequenceHas
<1>2. <<>> \in Good
  <2>1. <<>> \in Seq(Call(R)) /\ Len(<<>>) = 0
    BY EmptySeq
  <2>2. QED
    BY <2>1 DEF Followed
<1>3. \A a, b \in Good : a \o b \in Good
  BY JoinedFollow, ConcatProperties
<1>4. first \in Good /\ (s.route53 => Len(first) = 1 /\ first[1].call = "records")
  <2> DEFINE calls == IF s.route53 THEN <<"records">> ELSE <<>>
  <2>1. /\ calls \in [1..1 -> CallName \ {"instances"}] \/ calls \in [1..0 -> CallName \ {"instances"}]
        /\ s.route53 => calls \in [1..1 -> CallName] /\ calls[1] = "records"
    BY DEF CallName
  <2> HIDE DEF calls
  <2>2. ASSUME NEW n \in Nat, calls \in [1..n -> CallName \ {"instances"}]
        PROVE  At(None, calls) \in Good
    <3>1. calls \in [1..n -> CallName] /\ \A i \in 1..n : calls[i] # "instances"
      BY <2>2
    <3>2. /\ At(None, calls) \in Seq(Call({None})) /\ Len(At(None, calls)) = n
          /\ \A i \in 1..n : At(None, calls)[i] = [call |-> calls[i], region |-> None]
      BY <3>1, CallsAt
    <3>3. Call({None}) \subseteq Call(R)
      BY DEF Call
    <3>4. At(None, calls) \in Seq(Call(R))
      BY <3>2, <3>3, SequenceWider
    <3>5. QED
      BY <3>1, <3>2, <3>4 DEF Followed
  <2>3. s.route53 => Len(At(None, calls)) = 1 /\ At(None, calls)[1].call = "records"
    <3> SUFFICES ASSUME s.route53 PROVE Len(At(None, calls)) = 1 /\ At(None, calls)[1].call = "records"
      OBVIOUS
    <3>1. /\ Len(At(None, calls)) = 1
          /\ \A i \in 1..1 : At(None, calls)[i] = [call |-> calls[i], region |-> None]
      <4>1. PICK n \in Nat : n = 1
        OBVIOUS
      <4>2. calls \in [1..n -> CallName]
        BY <2>1, <4>1
      <4>3. /\ Len(At(None, calls)) = n
            /\ \A i \in 1..n : At(None, calls)[i] = [call |-> calls[i], region |-> None]
        BY <4>2, CallsAt
      <4>4. QED
        BY <4>1, <4>3
    <3>2. At(None, calls)[1] = [call |-> calls[1], region |-> None]
      BY <3>1
    <3>3. QED
      BY <2>1, <3>1, <3>2
  <2>4. QED
    BY <2>1, <2>2, <2>3 DEF calls
<1>5. /\ IsSequence(lists) /\ DOMAIN lists = DOMAIN q
      /\ \A i \in DOMAIN lists : /\ lists[i] \in Good
                                 /\ [call |-> "instances", region |-> q[i]] \in ToSet(lists[i])
  <2>1. \A i \in DOMAIN q : /\ CallsOf(s, q[i]) \in Good
                            /\ [call |-> "instances", region |-> q[i]] \in ToSet(CallsOf(s, q[i]))
    <3> SUFFICES ASSUME NEW i \in DOMAIN q
                 PROVE  /\ CallsOf(s, q[i]) \in Good
                        /\ [call |-> "instances", region |-> q[i]] \in ToSet(CallsOf(s, q[i]))
      OBVIOUS
    <3>1. PICK region : region = q[i] /\ region \in ToSet(q)
      BY <1>1
    <3> HIDE DEF q
    <3>2. Call({region}) \subseteq Call(R)
      BY <3>1 DEF Call
    <3>3. /\ CallsOf(s, region) \in Seq(Call({region})) /\ Followed(CallsOf(s, region))
          /\ [call |-> "instances", region |-> region] \in ToSet(CallsOf(s, region))
      BY CallsOfFollow
    <3>4. CallsOf(s, region) \in Seq(Call(R))
      BY <3>2, <3>3, SequenceWider
    <3>5. QED
      BY <3>1, <3>3, <3>4
  <2> HIDE DEF q, Good
  <2>2. lists = [i \in 1..Len(q) |-> lists[i]]
    BY <1>1
  <2>3. \A i \in DOMAIN lists : /\ lists[i] \in Good
                                /\ [call |-> "instances", region |-> q[i]] \in ToSet(lists[i])
    BY <2>1
  <2> HIDE DEF lists
  <2>4. QED
    BY <1>1, <2>2, <2>3, SequenceMap
<1>6. Plan(s) = first \o FlattenSeq(lists)
  BY DEF Plan
<1> HIDE DEF first, lists, q
<1>7. FlattenSeq(lists) \in Good
  <2> HIDE DEF Good
  <2>1. QED
    BY <1>2, <1>3, <1>5, FlattenIn
<1>8. Plan(s) \in Good
  BY <1>3, <1>4, <1>6, <1>7
<1>9. ASSUME NEW region \in ToSet(q)
      PROVE  [call |-> "instances", region |-> region] \in ToSet(Plan(s))
  <2>1. PICK i \in DOMAIN q : region = q[i]
    BY <1>1
  <2>2. /\ i \in DOMAIN lists /\ [call |-> "instances", region |-> region] \in ToSet(lists[i])
        /\ \A j \in DOMAIN lists : lists[j] \in Seq(Call(R))
    BY <1>5, <2>1
  <2>3. [call |-> "instances", region |-> region] \in ToSet(FlattenSeq(lists))
    BY <1>5, <2>2, FlattenHas
  <2>4. QED
    BY <1>4, <1>6, <1>7, <2>3, JoinedHas
<1>10. s.route53 => Plan(s) # <<>> /\ Head(Plan(s)).call = "records"
  <2> SUFFICES ASSUME s.route53 PROVE Plan(s) # <<>> /\ Head(Plan(s)).call = "records"
    OBVIOUS
  <2> DEFINE rest == FlattenSeq(lists)
  <2>1. /\ first \in Seq(Call(R)) /\ rest \in Seq(Call(R)) /\ Len(first) = 1 /\ first[1].call = "records"
    BY <1>4, <1>7
  <2> HIDE DEF rest
  <2>2. /\ Len(first \o rest) = 1 + Len(rest) /\ Len(rest) \in Nat /\ (first \o rest)[1] = first[1]
        /\ first \o rest \in Seq(Call(R))
    BY <2>1, ConcatProperties, LenProperties
  <2>3. first \o rest # <<>> /\ Head(first \o rest) = first[1]
    BY <2>2, EmptySeq, HeadTailProperties
  <2>4. QED
    BY <1>6, <2>1, <2>3 DEF rest
<1>11. QED
  BY <1>8, <1>9, <1>10 DEF q

-----------------------------------------------------------------------------
(* What a call leaves of a process.                                        *)
\* Something else than an instance has that identifier, of itself or of a node.
Identifies(r, id) == id = r.id \/ \E node \in ToSet(r.nodes) : id = node.id

OtherIs(region, id) ==
    \E r \in ToSet(Clouds[world].resources) :
        r.kind # "instance" /\ r.region = region /\ Identifies(r, id)

AddsOthers(old, new) ==
    /\ DOMAIN old \subseteq DOMAIN new
    /\ \A h \in DOMAIN new :
          \/ h \in DOMAIN old /\ new[h] = old[h]
          \/ OtherIs(new[h][1], new[h][2])

\* An instance of the listing, with the tags it has now.
TaggedNow(r, heard, region) ==
    /\ r.kind = heard.kind /\ r.id = heard.id /\ r.region = heard.region /\ r.vpc = heard.vpc
    /\ r.state = heard.state /\ r.attrs = heard.attrs
    /\ r.tags = TagsNow("instance", region, heard.id)

AddsInstances(w, region, new) ==
    \E found : /\ Len(found) = Len(w.heard)
               /\ \A j \in DOMAIN w.heard : TaggedNow(found[j], w.heard[j], region)
               /\ Indexes(settings, w.records, found, w.book.index, new)

\* What is used of an answer: v before, w after.
Used(v, w) ==
    LET call == Head(v.todo)
        answer == ListedBy(Listings(settings)[v.asked + 1], Resources("instance", call.region))
    IN  /\ w.again = v.again /\ w.wanted = v.wanted
        /\ w.records = IF call.call = "records" THEN Records(settings, Clouds[world]) ELSE v.records
        /\ IF call.call = "instances"
           THEN /\ w.heard = IF v.asked = 0 THEN answer ELSE v.heard \o answer
                /\ w.asked = IF v.asked + 1 = Len(Listings(settings)) THEN 0 ELSE v.asked + 1
           ELSE w.asked = 0
        /\ IF call.call = "tags" THEN AddsInstances(v, call.region, w.book.index)
           ELSE AddsOthers(v.book.index, w.book.index)

\* Process p goes on after a call, with the next listing or the next call to do.
GoesOn(p) ==
    /\ phase[p] = "calling" /\ work[p].todo # <<>>
    /\ work' = [work EXCEPT ![p] = work'[p]]
    /\ work'[p].todo = IF work'[p].asked = 0 THEN Tail(work[p].todo) ELSE work[p].todo
    /\ Used(work[p], work'[p])
    /\ UNCHANGED <<settings, world, cache, index, phase, output, since, named>>

LEMMA AnsweredGoesOn ==
    ASSUME InventoryInv, NEW p \in Process, phase[p] = "calling", work[p].todo # <<>>,
           NEW w, IsRecordOfWork(w), w.todo = work[p].todo, Used(work[p], w), Answered(p, w)
    PROVE  GoesOn(p)
<1>1. PICK todo : todo = IF w.asked = 0 THEN Tail(work[p].todo) ELSE work[p].todo
  OBVIOUS
<1>2. PICK v : v = [w EXCEPT !.todo = todo]
  OBVIOUS
<1>3. work' = [work EXCEPT ![p] = v] /\ work'[p] = v
  <2>1. v = [w EXCEPT !.todo = IF w.asked = 0 THEN Tail(@) ELSE @]
    BY <1>1, <1>2
  <2>2. QED
    BY <2>1 DEF Answered, InventoryInv
<1>4. /\ v.todo = todo /\ v.again = w.again /\ v.wanted = w.wanted /\ v.asked = w.asked
      /\ v.heard = w.heard /\ v.records = w.records /\ v.book = w.book
  BY <1>2 DEF IsRecordOfWork
<1>5. Used(work[p], v)
  BY <1>4 DEF Used
<1>6. UNCHANGED <<settings, world, cache, index, phase, output, since, named>>
  BY DEF Answered, files
<1>7. QED
  BY <1>1, <1>3, <1>4, <1>5, <1>6 DEF GoesOn

LEMMA NothingAdded == ASSUME NEW old PROVE AddsOthers(old, old)
BY DEF AddsOthers

LEMMA RecordsGoOn ==
    ASSUME InventoryInv, NEW p \in Process, GetRoute53Records(p)
    PROVE  GoesOn(p)
<1>1. /\ WorkSound(settings, work[p]) /\ work[p].todo # <<>> /\ phase[p] = "calling"
      /\ Head(work[p].todo).call = "records" /\ work[p].asked = 0
  BY CallingSound DEF GetRoute53Records, Calls
<1>2. PICK w : w = [work[p] EXCEPT !.records = Records(settings, Clouds[world])]
  OBVIOUS
<1>3. Answered(p, w)
  BY <1>2 DEF GetRoute53Records
<1>4. /\ IsRecordOfWork(w) /\ w.wanted = work[p].wanted /\ w.todo = work[p].todo
      /\ w.again = work[p].again /\ w.book = work[p].book /\ w.asked = 0
      /\ w.records = Records(settings, Clouds[world])
  BY <1>1, <1>2 DEF WorkSound, IsRecordOfWork
<1>5. Used(work[p], w)
  BY <1>1, <1>4, NothingAdded DEF Used
<1>6. QED
  BY <1>1, <1>3, <1>4, <1>5, AnsweredGoesOn

LEMMA InstancesGoOn ==
    ASSUME InventoryInv, NEW p \in Process, ListInstances(p)
    PROVE  GoesOn(p) \/ OtherwiseFails(p)
<1>1. /\ WorkSound(settings, work[p]) /\ work[p].todo # <<>> /\ phase[p] = "calling"
      /\ Head(work[p].todo).call = "instances"
  BY CallingSound DEF ListInstances
<1>2. PICK answer, w :
          /\ answer = ListedBy(Listings(settings)[work[p].asked + 1], Resources("instance", CallRegion(p)))
          /\ IsRecordOfWork(w) /\ w.wanted = work[p].wanted /\ w.again = work[p].again
          /\ w.todo = work[p].todo /\ w.records = work[p].records /\ w.book = work[p].book
          /\ w.heard = IF work[p].asked = 0 THEN answer ELSE work[p].heard \o answer
          /\ w.asked = IF work[p].asked + 1 = Len(Listings(settings)) THEN 0 ELSE work[p].asked + 1
          /\ OtherwiseFails(p) \/ Answered(p, w)
  BY <1>1, HeardIs DEF WorkSound
<1>3. Used(work[p], w)
  BY <1>1, <1>2, NothingAdded DEF Used, CallRegion
<1>4. QED
  BY <1>1, <1>2, <1>3, AnsweredGoesOn

\* A resource as it is read.
LEMMA ReadHas ==
    ASSUME NEW r, DOMAIN r = ResourceFields, NEW tags, NEW own, NEW orderly, NEW credentials, NEW x,
           x = ReadAs([r EXCEPT !.tags = tags], own, orderly, credentials)
    PROVE  /\ x.kind = r.kind /\ x.id = r.id /\ x.region = r.region /\ x.vpc = r.vpc
           /\ x.state = r.state /\ x.attrs = r.attrs /\ x.tags = tags
<1>1. PICK y : y = [r EXCEPT !.tags = tags]
  OBVIOUS
<1>2. /\ DOMAIN y = ResourceFields /\ y.kind = r.kind /\ y.id = r.id /\ y.region = r.region
      /\ y.vpc = r.vpc /\ y.state = r.state /\ y.attrs = r.attrs /\ y.tags = tags
  BY <1>1 DEF ResourceFields
<1>3. \A f \in ResourceFields : x[f] = y[f]
  BY <1>1, <1>2 DEF ReadAs, With, ResourceFields
<1>4. QED
  BY <1>2, <1>3 DEF ResourceFields

LEMMA TagsGoOn ==
    ASSUME InventoryInv, NEW p \in Process, AddInstances(p)
    PROVE  GoesOn(p)
<1>1. /\ WorkSound(settings, work[p]) /\ work[p].todo # <<>> /\ phase[p] = "calling"
      /\ Head(work[p].todo).call = "tags" /\ IsSequence(work[p].heard) /\ work[p].asked = 0
      /\ \A i \in DOMAIN work[p].heard : DOMAIN work[p].heard[i] = ResourceFields
  BY CallingSound DEF AddInstances, Needs, Calls
<1> DEFINE tags(r) == TagsNow("instance", CallRegion(p), r.id)
           tagged(r) == ReadAs([r EXCEPT !.tags = tags(r)], tags(r), TRUE, work[p].credentials)
           all == [i \in DOMAIN work[p].heard |-> tagged(work[p].heard[i])]
<1>2. PICK found : found = all
  OBVIOUS
<1>3. PICK book \in AddedAll(settings, work[p].records, work[p].book, found) :
          Answered(p, [work[p] EXCEPT !.book = book, !.heard = <<>>])
  BY <1>2, Zenon DEF AddInstances
<1>4. Len(work[p].heard) \in Nat /\ DOMAIN work[p].heard = 1..Len(work[p].heard)
  BY <1>1, SequenceHas
<1>5. ASSUME NEW i \in DOMAIN work[p].heard
      PROVE  TaggedNow(found[i], work[p].heard[i], CallRegion(p))
  <2>1. PICK now : now = TagsNow("instance", CallRegion(p), work[p].heard[i].id)
    OBVIOUS
  <2>2. PICK t, x : t = TRUE /\ x = ReadAs([work[p].heard[i] EXCEPT !.tags = now], now, t, work[p].credentials)
    OBVIOUS
  <2>3. found[i] = x
    BY <1>2, <2>1, <2>2
  <2>4. /\ x.kind = work[p].heard[i].kind /\ x.id = work[p].heard[i].id
        /\ x.region = work[p].heard[i].region /\ x.vpc = work[p].heard[i].vpc
        /\ x.state = work[p].heard[i].state /\ x.attrs = work[p].heard[i].attrs /\ x.tags = now
    <3>1. PICK r : r = work[p].heard[i] /\ DOMAIN r = ResourceFields
      BY <1>1
    <3>2. x = ReadAs([r EXCEPT !.tags = now], now, t, work[p].credentials)
      BY <2>2, <3>1
    <3>3. /\ x.kind = r.kind /\ x.id = r.id /\ x.region = r.region /\ x.vpc = r.vpc
          /\ x.state = r.state /\ x.attrs = r.attrs /\ x.tags = now
      BY <3>1, <3>2, ReadHas
    <3>4. QED
      BY <3>1, <3>3
  <2>5. QED
    BY <2>1, <2>3, <2>4 DEF TaggedNow
<1> HIDE DEF tagged
<1>6. IsSequence(found) /\ Len(found) = Len(work[p].heard)
  <2>1. found = [i \in 1..Len(work[p].heard) |-> found[i]]
    BY <1>2, <1>4
  <2>2. QED
    BY <1>4, <2>1, SequenceMap
<1>7. Indexes(settings, work[p].records, found, work[p].book.index, book.index)
  <2>1. IsRecordOfBook(work[p].book)
    BY <1>1 DEF WorkSound, BookSound
  <2>2. QED
    BY <1>3, <1>6, <2>1, AddedAllIndexes
<1>8. PICK w : w = [work[p] EXCEPT !.book = book, !.heard = <<>>]
  OBVIOUS
<1>9. /\ IsRecordOfWork(w) /\ w.wanted = work[p].wanted /\ w.todo = work[p].todo
      /\ w.again = work[p].again /\ w.records = work[p].records /\ w.book = book
      /\ w.asked = 0
  BY <1>1, <1>8 DEF WorkSound, IsRecordOfWork
<1>10. AddsInstances(work[p], Head(work[p].todo).region, book.index)
  BY <1>5, <1>6, <1>7 DEF AddsInstances, CallRegion
<1>11. Used(work[p], w)
  BY <1>1, <1>9, <1>10 DEF Used
<1>12. QED
  BY <1>1, <1>3, <1>8, <1>9, <1>11, AnsweredGoesOn

LEMMA OthersIndexed ==
    ASSUME NEW s, NEW records, NEW found, NEW old, NEW new, Indexes(s, records, found, old, new),
           \A i \in 1..Len(found) : OtherIs(found[i].region, found[i].id)
    PROVE  AddsOthers(old, new)
<1>1. ASSUME NEW h \in DOMAIN new PROVE (h \in DOMAIN old /\ new[h] = old[h]) \/ OtherIs(new[h][1], new[h][2])
  <2>1. CASE \E i \in 1..Len(found) : new[h] = <<found[i].region, found[i].id>>
    <3>1. PICK i \in 1..Len(found) : new[h] = <<found[i].region, found[i].id>>
      BY <2>1
    <3>2. new[h][1] = found[i].region /\ new[h][2] = found[i].id
      BY <3>1
    <3>3. QED
      BY <3>2
  <2>2. QED
    BY <2>1 DEF Indexes, IndexesUpTo
<1>2. QED
  BY <1>1 DEF AddsOthers, Indexes, IndexesUpTo

LEMMA ArnsGoOn ==
    ASSUME InventoryInv, NEW p \in Process, DescribeDatabases(p)
    PROVE  GoesOn(p)
<1>1. /\ WorkSound(settings, work[p]) /\ work[p].todo # <<>> /\ phase[p] = "calling"
      /\ Head(work[p].todo).call = "arns" /\ work[p].asked = 0
  BY CallingSound DEF DescribeDatabases, Calls
<1>2. PICK heard : Answered(p, [work[p] EXCEPT !.heard = heard])
  BY DEF DescribeDatabases
<1>3. PICK w : w = [work[p] EXCEPT !.heard = heard]
  OBVIOUS
<1>4. /\ IsRecordOfWork(w) /\ w.wanted = work[p].wanted /\ w.todo = work[p].todo
      /\ w.again = work[p].again /\ w.records = work[p].records /\ w.book = work[p].book
      /\ w.asked = 0
  BY <1>1, <1>3 DEF WorkSound, IsRecordOfWork
<1>5. Used(work[p], w)
  BY <1>1, <1>4, NothingAdded DEF Used
<1>6. QED
  BY <1>1, <1>2, <1>3, <1>4, <1>5, AnsweredGoesOn

LEMMA DbClustersGoOn ==
    ASSUME InventoryInv, NEW p \in Process, IncludeDbClusters(p)
    PROVE  GoesOn(p)
<1>1. /\ WorkSound(settings, work[p]) /\ work[p].todo # <<>> /\ phase[p] = "calling"
      /\ Head(work[p].todo).call = "dbClusters" /\ work[p].asked = 0
  BY CallingSound DEF IncludeDbClusters, Calls
<1>2. PICK clusters : Answered(p, [work[p] EXCEPT !.book.dbClusters = clusters])
  BY DEF IncludeDbClusters
<1>3. PICK book : book = [work[p].book EXCEPT !.dbClusters = clusters]
  OBVIOUS
<1>4. book.index = work[p].book.index
  BY <1>1, <1>3 DEF WorkSound, BookSound, IsRecordOfBook
<1>5. PICK w : w = [work[p] EXCEPT !.book = book]
  OBVIOUS
<1>6. /\ IsRecordOfWork(w) /\ w.wanted = work[p].wanted /\ w.todo = work[p].todo
      /\ w.again = work[p].again /\ w.records = work[p].records /\ w.book = book
      /\ w.asked = 0
  BY <1>1, <1>5 DEF WorkSound, IsRecordOfWork
<1>7. Used(work[p], w)
  BY <1>1, <1>4, <1>6, NothingAdded DEF Used
<1>8. Answered(p, w)
  BY <1>2, <1>3, <1>5
<1>9. QED
  BY <1>1, <1>6, <1>7, <1>8, AnsweredGoesOn

\* On a connection, of which only the book and what was heard are new.
LEMMA ConnectionGoesOn ==
    ASSUME InventoryInv, NEW p \in Process, NEW book, NEW heard,
           OnConnection(p, [work[p] EXCEPT !.book = book, !.heard = heard]),
           NEW call \in {"databases", "clusters", "replications"}, Calls(p, call),
           AddsOthers(work[p].book.index, book.index)
    PROVE  GoesOn(p) \/ OtherwiseFails(p)
<1>1. /\ WorkSound(settings, work[p]) /\ work[p].todo # <<>> /\ phase[p] = "calling"
      /\ Head(work[p].todo).call = call /\ work[p].asked = 0
  BY CallingSound DEF Calls
<1>2. CASE ~CanConnect(p, CallRegion(p))
  BY <1>2 DEF OnConnection
<1>3. CASE CanConnect(p, CallRegion(p))
  <2>1. PICK v : v = [work[p] EXCEPT !.book = book, !.heard = heard]
    OBVIOUS
  <2>2. PICK w : w = [v EXCEPT !.credentials = Connected(p)]
    OBVIOUS
  <2>3. Answered(p, w)
    BY <1>3, <2>1, <2>2 DEF OnConnection
  <2>4. v = [wanted |-> work[p].wanted, again |-> work[p].again, todo |-> work[p].todo,
             heard |-> heard, records |-> work[p].records, credentials |-> work[p].credentials,
             book |-> book, asked |-> 0]
    BY <1>1, <2>1 DEF WorkSound, IsRecordOfWork
  <2>5. /\ IsRecordOfWork(w) /\ w.wanted = work[p].wanted /\ w.todo = work[p].todo
        /\ w.again = work[p].again /\ w.records = work[p].records /\ w.book = book
        /\ w.asked = 0
    BY <2>2, <2>4 DEF IsRecordOfWork
  <2>6. Used(work[p], w)
    BY <1>1, <2>5 DEF Used
  <2>7. QED
    BY <1>1, <2>3, <2>5, <2>6, AnsweredGoesOn
<1>4. QED
  BY <1>2, <1>3

LEMMA DatabasesGoOn ==
    ASSUME InventoryInv, NEW p \in Process, AddDatabases(p)
    PROVE  GoesOn(p) \/ OtherwiseFails(p)
<1>1. WorkSound(settings, work[p]) /\ world \in DOMAIN Clouds
  BY CallingSound DEF AddDatabases
<1>2. PICK databases : databases = Resources("database", CallRegion(p))
  OBVIOUS
<1>3. PICK arns : arns = work[p].heard
  OBVIOUS
<1>4. PICK orderly : orderly = (/\ Len(databases) <= PageSize
                                /\ [j \in DOMAIN arns |-> arns[j].id] = [j \in DOMAIN databases |-> databases[j].id])
  OBVIOUS
<1> DEFINE x(i) == [databases[i] EXCEPT !.tags = TagsNow("database", CallRegion(p), arns[ArnIndex(i)].id)]
           tagged(i) == ReadAs(x(i), databases[i].tags, orderly, arns[ArnIndex(i)].credentials)
<1>5. PICK found : found = [i \in DOMAIN databases |-> tagged(i)]
  OBVIOUS
<1>6. PICK S : S = {r \in ToSet(found) : TagsMatchFilters(settings, r.tags)}
  OBVIOUS
<1>7. PICK matching : matching = Chosen(found, S)
  OBVIOUS
<1>8. databases \in Seq(There("database", CallRegion(p)))
  BY <1>1, <1>2, ResourcesAre
<1>9. ASSUME NEW i \in DOMAIN databases PROVE OtherIs(found[i].region, found[i].id)
  <2>1. PICK r : r = databases[i] /\ r \in There("database", CallRegion(p))
    BY <1>8, LenProperties
  <2>2. DOMAIN r = ResourceFields /\ r.kind = "database" /\ r \in ToSet(Clouds[world].resources)
    BY <1>1, <2>1, ResourcesAre DEF IsResource, There
  <2>3. PICK now, own, c : /\ now = TagsNow("database", CallRegion(p), arns[ArnIndex(i)].id)
                           /\ own = databases[i].tags /\ c = arns[ArnIndex(i)].credentials
    OBVIOUS
  <2>4. PICK y : y = ReadAs([r EXCEPT !.tags = now], own, orderly, c)
    OBVIOUS
  <2>5. found[i] = y
    BY <1>5, <2>1, <2>3, <2>4
  <2>6. y.region = r.region /\ y.id = r.id
    BY <2>2, <2>4, ReadHas
  <2>7. OtherIs(r.region, r.id)
    BY <2>2 DEF OtherIs, Identifies
  <2>8. QED
    BY <2>5, <2>6, <2>7
<1> HIDE DEF tagged
<1>10. Len(databases) \in Nat /\ DOMAIN databases = 1..Len(databases)
       /\ found = [i \in 1..Len(databases) |-> tagged(i)]
  BY <1>5, <1>8
<1>11. IsSequence(found) /\ DOMAIN found = DOMAIN databases
  BY <1>10, SequenceMap
<1>12. IsSequence(matching) /\ \A i \in 1..Len(matching) : OtherIs(matching[i].region, matching[i].id)
  <2>1. matching \in Seq(ToSet(found) \cap S)
    BY <1>7, <1>11, ChosenOf
  <2>2. \A r \in ToSet(found) : OtherIs(r.region, r.id)
    BY <1>9, <1>11 DEF ToSet
  <2>3. IsSequence(matching) /\ \A i \in 1..Len(matching) : matching[i] \in ToSet(found)
    BY <2>1, SequenceOver, LenProperties
  <2>4. QED
    BY <2>2, <2>3
<1>13. \/ OtherwiseFails(p)
       \/ \E book \in AddedAll(settings, work[p].records, work[p].book, matching) :
              OnConnection(p, [work[p] EXCEPT !.book = book, !.heard = <<>>])
  BY <1>2, <1>3, <1>4, <1>5, <1>6, <1>7, ZenonT(60) DEF AddDatabases, tagged
<1>14. ASSUME NEW book \in AddedAll(settings, work[p].records, work[p].book, matching),
              OnConnection(p, [work[p] EXCEPT !.book = book, !.heard = <<>>])
       PROVE  GoesOn(p) \/ OtherwiseFails(p)
  <2>1. IsRecordOfBook(work[p].book)
    BY <1>1 DEF WorkSound, BookSound
  <2>2. AddsOthers(work[p].book.index, book.index)
    BY <1>12, <1>14, <2>1, AddedAllIndexes, OthersIndexed
  <2>3. Calls(p, "databases")
    BY DEF AddDatabases
  <2>4. QED
    BY <1>14, <2>2, <2>3, ConnectionGoesOn
<1>15. QED
  BY <1>13, <1>14

\* A cluster and its nodes have its region.
LEMMA WithNodesIdentify ==
    ASSUME NEW s, NEW found, IsSequence(found),
           \A i \in DOMAIN found :
               \E r \in ToSet(Clouds[world].resources) :
                  /\ r.kind # "instance" /\ found[i].region = r.region /\ found[i].id = r.id
                  /\ found[i].nodes = r.nodes /\ IsSequence(r.nodes)
                  /\ DOMAIN found[i] = ResourceFields \cup {"read"}
    PROVE  \A i \in 1..Len(WithNodes(s, found)) :
               OtherIs(WithNodes(s, found)[i].region, WithNodes(s, found)[i].id)
<1> DEFINE nodes == UNION {ToSet(NodesOf(found[i])) : i \in DOMAIN found}
           X == {r \in ToSet(found) \cup nodes : OtherIs(r.region, r.id)}
           list(i) == IF Gathered(s, found[i]) THEN <<found[i]>> \o NodesOf(found[i]) ELSE <<>>
           lists == [i \in DOMAIN found |-> list(i)]
<1>1. Len(found) \in Nat /\ DOMAIN found = 1..Len(found) /\ ToSet(found) = {found[i] : i \in 1..Len(found)}
  BY SequenceHas
<1>2. ASSUME NEW i \in DOMAIN found PROVE NodesOf(found[i]) \in Seq(X) /\ found[i] \in X
  <2> DEFINE c == found[i]
             q == NodesOf(c)
  <2>1. PICK r \in ToSet(Clouds[world].resources) :
            /\ r.kind # "instance" /\ c.region = r.region /\ c.id = r.id
            /\ c.nodes = r.nodes /\ IsSequence(r.nodes)
            /\ DOMAIN c = ResourceFields \cup {"read"}
    OBVIOUS
  <2>2. Len(c.nodes) \in Nat /\ DOMAIN c.nodes = 1..Len(c.nodes)
        /\ ToSet(c.nodes) = {c.nodes[j] : j \in 1..Len(c.nodes)}
    BY <2>1, SequenceHas
  <2>3. ASSUME NEW j \in 1..Len(c.nodes) PROVE q[j] \in X
    <3>1. PICK state, attrs :
              q[j] = [c EXCEPT !.kind = "node", !.id = c.nodes[j].id, !.state = state, !.attrs = attrs]
      BY <2>2 DEF NodesOf
    <3>2. q[j].id = c.nodes[j].id /\ q[j].region = c.region
      BY <2>1, <3>1 DEF ResourceFields
    <3>3. OtherIs(c.region, c.nodes[j].id)
      <4>1. c.nodes[j] \in ToSet(r.nodes)
        BY <2>1, <2>2
      <4>2. QED
        BY <2>1, <4>1 DEF OtherIs, Identifies
    <3>4. q[j] \in ToSet(q)
      BY <2>2 DEF ToSet, NodesOf
    <3> HIDE DEF q
    <3>5. ToSet(NodesOf(found[i])) \subseteq nodes
      OBVIOUS
    <3>6. QED
      BY <3>2, <3>3, <3>4, <3>5 DEF q
  <2>4. q = [j \in 1..Len(c.nodes) |-> q[j]]
    BY <2>2 DEF NodesOf
  <2>5. OtherIs(c.region, c.id)
    BY <2>1 DEF OtherIs, Identifies
  <2>6. found[i] \in X
    BY <1>1, <2>5
  <2> HIDE DEF q, X
  <2>7. q \in Seq(X)
    BY <2>2, <2>3, <2>4
  <2>8. QED
    BY <2>6, <2>7 DEF q
<1> HIDE DEF X
<1>3. <<>> \in Seq(X) /\ \A a, b \in Seq(X) : a \o b \in Seq(X)
  BY EmptySeq, ConcatProperties
<1>4. ASSUME NEW i \in DOMAIN found PROVE list(i) \in Seq(X)
  <2>1. <<found[i]>> \in Seq(X) /\ NodesOf(found[i]) \in Seq(X)
    BY <1>2
  <2>2. <<found[i]>> \o NodesOf(found[i]) \in Seq(X)
    BY <1>3, <2>1
  <2>3. QED
    BY <1>3, <2>2
<1> HIDE DEF list
<1>5. IsSequence(lists) /\ \A i \in DOMAIN lists : lists[i] \in Seq(X)
  <2>1. \A i \in DOMAIN lists : lists[i] \in Seq(X)
    BY <1>4
  <2>2. lists = [i \in 1..Len(found) |-> lists[i]]
    BY <1>1
  <2> HIDE DEF lists
  <2>3. QED
    BY <1>1, <2>1, <2>2, SequenceMap
<1>6. WithNodes(s, found) = FlattenSeq(lists)
  BY DEF WithNodes, list
<1> HIDE DEF lists
<1>7. WithNodes(s, found) \in Seq(X)
  <2> DEFINE Good == Seq(X)
  <2>1. IsSequence(lists) /\ \A i \in DOMAIN lists : lists[i] \in Good
    BY <1>5
  <2>2. <<>> \in Good /\ \A a, b \in Good : a \o b \in Good
    BY <1>3
  <2> HIDE DEF Good
  <2>3. FlattenSeq(lists) \in Good
    BY <2>1, <2>2, FlattenIn
  <2>4. QED
    BY <1>6, <2>3 DEF Good
<1>8. \A i \in 1..Len(WithNodes(s, found)) : WithNodes(s, found)[i] \in X
  BY <1>7, LenProperties
<1>9. QED
  BY <1>8 DEF X

LEMMA ElasticacheRead ==
    ASSUME NEW p, WorkSound(settings, work[p]), world \in DOMAIN Clouds,
           NEW kind \in {"cluster", "replication"}, NEW region,
           NEW i \in DOMAIN Resources(kind, region), NEW orderly, NEW x,
           x = ReadAs(Resources(kind, region)[i], Resources(kind, region)[i].tags, orderly, Connected(p))
    PROVE  /\ DOMAIN x = ResourceFields \cup {"read"}
           /\ IsSequence(x.nodes) /\ Enterable(settings, x)
<1>1. PICK r : /\ r = Resources(kind, region)[i] /\ r \in There(kind, region)
  BY ResourcesAre, LenProperties
<1>2. IsResource(r) /\ r.kind = kind
  BY <1>1, ResourcesAre
<1>3. x = ReadAs(r, r.tags, orderly, Account(settings))
  BY <1>1, ConnectedIs
<1>4. Enterable(settings, x)
  BY <1>2, <1>3, ReadEnterable DEF Kinds, IsResource
<1>5. DOMAIN x = ResourceFields \cup {"read"} /\ x.nodes = r.nodes
  BY <1>2, <1>3, ReadAsIs DEF IsResource
<1>6. QED
  BY <1>2, <1>4, <1>5 DEF IsResource

LEMMA ElasticacheGoesOn ==
    ASSUME InventoryInv, NEW p \in Process, NEW call \in {"clusters", "replications"},
           NEW kind \in {"cluster", "replication"}, AddElasticache(p, call, kind)
    PROVE  GoesOn(p) \/ OtherwiseFails(p)
<1>1. WorkSound(settings, work[p]) /\ world \in DOMAIN Clouds
  BY CallingSound DEF AddElasticache
<1>2. PICK listed : listed = Resources(kind, CallRegion(p))
  OBVIOUS
<1> DEFINE read(i) == ReadAs(listed[i], listed[i].tags, TRUE, Connected(p))
<1>3. PICK found : found = [i \in DOMAIN listed |-> read(i)]
  OBVIOUS
<1>4. listed \in Seq(There(kind, CallRegion(p)))
  BY <1>1, <1>2, ResourcesAre
<1>5. ASSUME NEW i \in DOMAIN listed
      PROVE  \E r \in ToSet(Clouds[world].resources) :
                /\ r.kind # "instance" /\ found[i].region = r.region /\ found[i].id = r.id
                /\ found[i].nodes = r.nodes /\ IsSequence(r.nodes)
                /\ DOMAIN found[i] = ResourceFields \cup {"read"}
  <2>1. PICK r : r = listed[i] /\ r \in There(kind, CallRegion(p))
    BY <1>4, LenProperties
  <2>2. /\ DOMAIN r = ResourceFields /\ IsSequence(r.nodes) /\ r.kind = kind
        /\ r \in ToSet(Clouds[world].resources)
    BY <1>1, <2>1, ResourcesAre DEF IsResource, There
  <2>3. PICK t, c, x : t = TRUE /\ c = Connected(p) /\ x = ReadAs(r, r.tags, t, c)
    OBVIOUS
  <2>4. found[i] = x
    BY <1>3, <2>1, <2>3
  <2>5. DOMAIN x = ResourceFields \cup {"read"} /\ x.nodes = r.nodes
    <3>1. DOMAIN r = ResourceFields /\ x = ReadAs(r, r.tags, t, c)
      BY <2>2, <2>3
    <3>2. QED
      BY <3>1, ReadAsIs
  <2>6. \A f \in ResourceFields : x[f] = r[f]
    BY <2>2, <2>3 DEF ReadAs, With, ResourceFields
  <2>7. x.region = r.region /\ x.id = r.id
    BY <2>6 DEF ResourceFields
  <2>8. QED
    BY <2>2, <2>4, <2>5, <2>7
<1> HIDE DEF read
<1>6. Len(listed) \in Nat /\ found = [i \in 1..Len(listed) |-> read(i)] /\ DOMAIN found = DOMAIN listed
  BY <1>3, <1>4
<1>7. IsSequence(found) /\ DOMAIN found = 1..Len(found)
  <2>1. IsSequence(found)
    BY <1>6, SequenceMap
  <2>2. QED
    BY <2>1, SequenceHas
<1>8. PICK all : all = IF kind = "cluster" THEN WithNodes(settings, found) ELSE found
  OBVIOUS
<1>9. \A i \in 1..Len(all) : OtherIs(all[i].region, all[i].id)
  <2>1. \A i \in 1..Len(found) : OtherIs(found[i].region, found[i].id)
    BY <1>5, <1>6, <1>7 DEF OtherIs, Identifies
  <2>2. \A i \in 1..Len(WithNodes(settings, found)) :
            OtherIs(WithNodes(settings, found)[i].region, WithNodes(settings, found)[i].id)
    BY <1>5, <1>6, <1>7, WithNodesIdentify
  <2>3. QED
    BY <1>8, <2>1, <2>2
<1>10. IsSequence(all)
  <2>1. ASSUME NEW i \in DOMAIN found
        PROVE  /\ DOMAIN found[i] = ResourceFields \cup {"read"}
               /\ IsSequence(found[i].nodes) /\ Enterable(settings, found[i])
    <3>1. PICK x, t : t = TRUE /\ x = ReadAs(listed[i], listed[i].tags, t, Connected(p))
      OBVIOUS
    <3>2. i \in DOMAIN Resources(kind, CallRegion(p)) /\ x = found[i]
      BY <1>2, <1>3, <1>6, <3>1 DEF read
    <3>3. QED
      BY <1>1, <1>2, <3>1, <3>2, ElasticacheRead
  <2>2. QED
    BY <1>7, <1>8, <2>1, WithNodesAre
<1>11. PICK book \in AddedAll(settings, {}, work[p].book, all) :
           OnConnection(p, [work[p] EXCEPT !.book = book])
  BY <1>2, <1>3, <1>8, Zenon DEF AddElasticache, read
<1>12. IsRecordOfBook(work[p].book)
  BY <1>1 DEF WorkSound, BookSound
<1>13. AddsOthers(work[p].book.index, book.index)
  BY <1>9, <1>10, <1>11, <1>12, AddedAllIndexes, OthersIndexed
<1>14. [work[p] EXCEPT !.book = book] = [work[p] EXCEPT !.book = book, !.heard = work[p].heard]
  BY <1>1 DEF WorkSound, IsRecordOfWork
<1>15. OnConnection(p, [work[p] EXCEPT !.book = book, !.heard = work[p].heard])
  BY <1>11, <1>14
<1>16. Calls(p, call)
  BY DEF AddElasticache
<1>17. QED
  BY <1>13, <1>15, <1>16, ConnectionGoesOn

\* A call is answered, or ends the run.
LEMMA CallsGoOn ==
    ASSUME InventoryInv, NEW p \in Process,
           \/ GetRoute53Records(p) \/ ListInstances(p) \/ AddInstances(p)
           \/ DescribeDatabases(p) \/ AddDatabases(p)
           \/ AddElasticache(p, "clusters", "cluster")
           \/ AddElasticache(p, "replications", "replication")
           \/ IncludeDbClusters(p) \/ CallFails(p)
    PROVE  GoesOn(p) \/ OtherwiseFails(p)
BY RecordsGoOn, InstancesGoOn, TagsGoOn, ArnsGoOn, DatabasesGoOn, ElasticacheGoesOn, DbClustersGoOn,
   Zenon DEF CallFails

-----------------------------------------------------------------------------
(* The steps of a run, told apart.                                         *)
Begins(p) ==
    /\ phase[p] = "idle"
    /\ \E here \in {"calling", "answering"} :
          /\ phase' = [phase EXCEPT ![p] = here]
          /\ work'[p].todo = IF here = "calling" THEN Plan(settings) ELSE <<>>
    /\ work' = [work EXCEPT ![p] = work'[p]]
    /\ work'[p].again = work[p].again /\ work'[p].book = work[p].book /\ work'[p].asked = 0
    /\ since' = [since EXCEPT ![p] = Findable(settings, Clouds[world])]
    /\ output' = [output EXCEPT ![p] = NoOutput]
    /\ UNCHANGED <<settings, world, index, named>>

Writes(p) ==
    /\ phase[p] \in {"calling"} \cup Writing /\ (phase[p] = "calling" => work[p].todo = <<>>)
    /\ \E here \in {"cache", "between", "index", "answering"} : phase' = [phase EXCEPT ![p] = here]
    /\ index' \in {index, Begun, Torn, work[p].book}
    /\ UNCHANGED <<settings, world, work, output, since, named>>

LooksUp(p) ==
    /\ phase[p] = "answering"
    /\ work' = [work EXCEPT ![p] = work'[p]] /\ work'[p].wanted = work[p].wanted /\ work'[p].asked = 0
    /\ \/ work'[p].book.index = work[p].book.index
       \/ ~work[p].again /\ Readable(index) /\ work'[p].book.index = index.index
    /\ \/ /\ phase' = [phase EXCEPT ![p] = "fetching"]
          /\ work'[p].wanted \in DOMAIN work'[p].book.index
          /\ work'[p].again = work[p].again /\ work'[p].todo = work[p].todo
       \/ /\ phase' = [phase EXCEPT ![p] = "calling"]
          /\ work'[p].again /\ ~work[p].again /\ work'[p].todo = Plan(settings)
    /\ UNCHANGED <<settings, world, index, output, since, named>>

\* The run ends; what it prints of a host.
Finishes(p, printed) ==
    /\ End(p, printed)
    /\ printed.kind = "nothing" =>
          /\ phase[p] = "answering" /\ work[p].again /\ printed.host = work[p].wanted
          /\ work[p].wanted \notin DOMAIN work[p].book.index
    /\ printed.kind = "host" =>
          LET entry == work[p].book.index[work[p].wanted]
          IN  /\ phase[p] = "fetching" /\ printed.host = work[p].wanted
              /\ printed.info.id = entry[2] /\ InstanceIn(Clouds[world], entry[1], entry[2]) # {}
    /\ UNCHANGED <<settings, world, index, named>>

LEMMA FailureFinishes ==
    ASSUME NEW p, End(p, NoOutput), UNCHANGED <<settings, world, index, named>>
    PROVE  Finishes(p, NoOutput)
BY DEF Finishes, NoOutput

LEMMA StartBegins ==
    ASSUME InventoryInv, NEW p \in Process, Start(p)
    PROVE  Begins(p) \/ \E printed : Finishes(p, printed)
<1>1. IsRecordOfWork(work[p]) /\ phase[p] = "idle" /\ work[p].asked = 0
  BY DEF InventoryInv, WorkSound, Start
<1>2. UNCHANGED <<settings, world, index, named>>
  BY DEF Start, files
<1>3. PICK host, refresh : IF SettingsRejected(settings) THEN End(p, NoOutput)
          ELSE /\ since' = [since EXCEPT ![p] = Findable(settings, Clouds[world])]
               /\ output' = [output EXCEPT ![p] = NoOutput]
               /\ LET call == refresh \/ ~IsCacheValid
                  IN  /\ phase' = [phase EXCEPT ![p] = IF call THEN "calling" ELSE "answering"]
                      /\ work' = [work EXCEPT ![p].wanted = host,
                                              ![p].todo = IF call THEN Plan(settings) ELSE <<>>]
  BY DEF Start
<1>4. CASE SettingsRejected(settings)
  BY <1>2, <1>3, <1>4, FailureFinishes
<1>5. CASE ~SettingsRejected(settings)
  <2>1. PICK here : here = IF refresh \/ ~IsCacheValid THEN "calling" ELSE "answering"
    OBVIOUS
  <2>2. PICK todo : todo = IF refresh \/ ~IsCacheValid THEN Plan(settings) ELSE <<>>
    OBVIOUS
  <2>3. /\ phase' = [phase EXCEPT ![p] = here]
        /\ work' = [work EXCEPT ![p].wanted = host, ![p].todo = todo]
    BY <1>3, <1>5, <2>1, <2>2
  <2>4. here \in {"calling", "answering"} /\ todo = (IF here = "calling" THEN Plan(settings) ELSE <<>>)
    BY <2>1, <2>2
  <2>5. PICK v : v = [work[p] EXCEPT !.wanted = host, !.todo = todo]
    OBVIOUS
  <2>6. v.again = work[p].again /\ v.book = work[p].book /\ v.todo = todo /\ v.asked = 0
    BY <1>1, <2>5 DEF IsRecordOfWork
  <2>7. work' = [work EXCEPT ![p] = v] /\ work'[p] = v
    <3>1. work' = [work EXCEPT ![p] = [work[p] EXCEPT !.wanted = host, !.todo = todo]]
      BY <2>3 DEF InventoryInv
    <3>2. QED
      BY <2>5, <3>1 DEF InventoryInv
  <2>8. QED
    BY <1>1, <1>2, <1>3, <1>5, <2>3, <2>4, <2>6, <2>7 DEF Begins
<1>6. QED
  BY <1>4, <1>5

LEMMA FilesAreWritten ==
    ASSUME NEW p \in Process, OpenCache(p) \/ FillCache(p) \/ OpenIndex(p) \/ FillIndex(p)
    PROVE  Writes(p)
<1>1. CASE OpenCache(p)
  BY <1>1 DEF OpenCache, Writes
<1>2. CASE FillCache(p)
  BY <1>2 DEF FillCache, Writes, Writing
<1>3. CASE OpenIndex(p)
  BY <1>3 DEF OpenIndex, Writes, Writing
<1>4. CASE FillIndex(p)
  <2>1. index' \in {Torn, work[p].book}
    BY <1>4 DEF FillIndex, Filled
  <2>2. QED
    BY <1>4, <2>1 DEF FillIndex, Writes, Writing
<1>5. QED
  BY <1>1, <1>2, <1>3, <1>4

LEMMA PrintFinishes ==
    ASSUME NEW p \in Process, PrintInventory(p)
    PROVE  \E printed : Finishes(p, printed)
<1>1. PICK printed : printed.kind = "inventory" /\ End(p, printed)
  BY DEF PrintInventory
<1>2. UNCHANGED <<settings, world, index, named>>
  BY DEF PrintInventory, files
<1>3. QED
  BY <1>1, <1>2 DEF Finishes

LEMMA FetchFinishes ==
    ASSUME NEW p \in Process, FetchInstance(p)
    PROVE  \E printed : Finishes(p, printed)
<1>1. PICK entry : entry = work[p].book.index[work[p].wanted]
  OBVIOUS
<1>2. PICK found : found = InstanceIn(Clouds[world], entry[1], entry[2])
  OBVIOUS
<1>3. UNCHANGED <<settings, world, index, named>> /\ phase[p] = "fetching"
  BY DEF FetchInstance, files
<1>4. CASE End(p, NoOutput)
  BY <1>3, <1>4, FailureFinishes
<1>5. CASE /\ found # {}
           /\ End(p, [kind |-> "host", host |-> work[p].wanted, info |-> InfoOf(CHOOSE r \in found : TRUE)])
  <2>1. PICK r \in found : r = CHOOSE x \in found : TRUE
    BY <1>5
  <2>2. r.id = entry[2]
    BY <1>2, <2>1 DEF InstanceIn
  <2>3. PICK printed : printed = [kind |-> "host", host |-> work[p].wanted, info |-> InfoOf(r)]
    OBVIOUS
  <2>4. End(p, printed) /\ printed.kind = "host" /\ printed.host = work[p].wanted /\ printed.info.id = entry[2]
    BY <1>5, <2>1, <2>2, <2>3 DEF InfoOf
  <2>5. QED
    BY <1>1, <1>2, <1>3, <1>5, <2>4 DEF Finishes
<1>6. QED
  BY <1>1, <1>2, <1>4, <1>5 DEF FetchInstance

LEMMA LookUpLooksUp ==
    ASSUME InventoryInv, NEW p \in Process, LookUpHost(p)
    PROVE  LooksUp(p) \/ \E printed : Finishes(p, printed)
<1>1. WorkSound(settings, work[p]) /\ work[p].asked = 0
  BY DEF InventoryInv, LookUpHost
<1>2. PICK load : load = (work[p].book.index = <<>> /\ ~work[p].again)
  OBVIOUS
<1>3. PICK known : known = IF load THEN index.index ELSE work[p].book.index
  OBVIOUS
<1>4. PICK book : book = [work[p].book EXCEPT !.index = known]
  OBVIOUS
<1>5. book.index = known
  BY <1>1, <1>4 DEF WorkSound, BookSound, IsRecordOfBook
<1>6. UNCHANGED <<settings, world, index, named>> /\ phase[p] = "answering"
  BY DEF LookUpHost, files
<1>7. known = work[p].book.index \/ (load /\ known = index.index)
  BY <1>3
<1>8. CASE End(p, NoOutput)
  BY <1>6, <1>8, FailureFinishes
<1>9. CASE /\ End(p, [kind |-> "nothing", host |-> work[p].wanted])
           /\ work[p].wanted \notin DOMAIN known /\ work[p].again
  <2>1. PICK printed : printed = [kind |-> "nothing", host |-> work[p].wanted]
    OBVIOUS
  <2>2. End(p, printed) /\ printed.kind = "nothing" /\ printed.host = work[p].wanted
    BY <1>9, <2>1
  <2>3. known = work[p].book.index
    BY <1>2, <1>3, <1>9
  <2>4. QED
    BY <1>6, <1>9, <2>2, <2>3 DEF Finishes
<1>10. CASE /\ ~(load /\ ~Readable(index)) /\ work[p].wanted \in DOMAIN known
            /\ phase' = [phase EXCEPT ![p] = "fetching"]
            /\ work' = [work EXCEPT ![p].book = book]
            /\ UNCHANGED <<output, since>>
  <2>1. PICK w : w = [work[p] EXCEPT !.book = book]
    OBVIOUS
  <2>2. work' = [work EXCEPT ![p] = w] /\ work'[p] = w
    BY <1>10, <2>1 DEF InventoryInv
  <2>3. /\ w.wanted = work[p].wanted /\ w.todo = work[p].todo /\ w.again = work[p].again
        /\ w.book = book /\ w.asked = 0
    BY <1>1, <2>1 DEF WorkSound, IsRecordOfWork
  <2>4. \/ work'[p].book.index = work[p].book.index
        \/ ~work[p].again /\ Readable(index) /\ work'[p].book.index = index.index
    BY <1>2, <1>5, <1>7, <1>10, <2>2, <2>3
  <2>5. QED
    BY <1>5, <1>6, <1>10, <2>2, <2>3, <2>4 DEF LooksUp
<1>11. CASE /\ ~(load /\ ~Readable(index)) /\ ~work[p].again
            /\ phase' = [phase EXCEPT ![p] = "calling"]
            /\ work' = [work EXCEPT ![p] = [work[p] EXCEPT !.book = book, !.again = TRUE, !.todo = Plan(settings)]]
            /\ UNCHANGED <<output, since>>
  <2>1. PICK w : w = [work[p] EXCEPT !.book = book, !.again = TRUE, !.todo = Plan(settings)]
    OBVIOUS
  <2>2. work' = [work EXCEPT ![p] = w] /\ work'[p] = w
    BY <1>11, <2>1 DEF InventoryInv
  <2>3. w.wanted = work[p].wanted /\ w.todo = Plan(settings) /\ w.again /\ w.book = book /\ w.asked = 0
    BY <1>1, <2>1 DEF WorkSound, IsRecordOfWork
  <2>4. \/ work'[p].book.index = work[p].book.index
        \/ ~work[p].again /\ Readable(index) /\ work'[p].book.index = index.index
    BY <1>2, <1>5, <1>7, <1>11, <2>2, <2>3
  <2>5. QED
    BY <1>6, <1>11, <2>2, <2>3, <2>4 DEF LooksUp
<1>12. QED
  BY <1>2, <1>3, <1>4, <1>8, <1>9, <1>10, <1>11, ZenonT(60) DEF LookUpHost

LEMMA RunSteps ==
    ASSUME InventoryInv, NEW p \in Process, Start(p) \/ Step(p) \/ Crash(p)
    PROVE  Begins(p) \/ GoesOn(p) \/ Writes(p) \/ LooksUp(p) \/ \E printed : Finishes(p, printed)
<1>1. ASSUME OtherwiseFails(p) PROVE \E printed : Finishes(p, printed)
  BY <1>1, FailureFinishes DEF OtherwiseFails, files
<1>2. ASSUME Crash(p) PROVE \E printed : Finishes(p, printed)
  BY <1>2, FailureFinishes DEF Crash
<1>3. QED
  BY <1>1, <1>2, StartBegins, CallsGoOn, FilesAreWritten, PrintFinishes, LookUpLooksUp, FetchFinishes,
     Zenon DEF Step

-----------------------------------------------------------------------------
(* What there is to be found.                                              *)
\* Instance r of that cloud can be found as x says.
FoundAs(s, cloud, r, x) ==
    /\ r \in ToSet(cloud.resources) /\ r.kind = "instance"
    /\ r.id = x.id /\ r.region = x.region /\ r.attrs = x.attrs
    /\ s.route53 => x.aliases = Route53Names(Records(s, cloud), r) \cap s.domain
    /\ x.by \in DOMAIN Listings(s) /\ ServerMatches(Listings(s)[x.by], r)
    /\ Gathered(s, r) /\ r.region \in ToSet(Regions(s))
    /\ x.host \in s.shown /\ HostnamesOf(s, Records(s, cloud), r) = {x.host}

LEMMA FindableIs ==
    ASSUME NEW s, NEW cloud, NEW x \in Findable(s, cloud)
    PROVE  \E r : FoundAs(s, cloud, r, x)
<1> DEFINE hosts(r) == HostnamesOf(s, Records(s, cloud), r)
           aliases(r) == IF s.route53 THEN Route53Names(Records(s, cloud), r) \cap s.domain ELSE {}
           found == {r \in ToSet(cloud.resources) :
                       /\ r.kind = "instance" /\ Gathered(s, r) /\ r.region \in ToSet(Regions(s))
                       /\ \E h \in s.shown : hosts(r) = {h}}
           listedBy(r) == {i \in DOMAIN Listings(s) : ServerMatches(Listings(s)[i], r)}
           as(r, i) == [host |-> CHOOSE h \in hosts(r) : TRUE, id |-> r.id, region |-> r.region,
                        by |-> i, attrs |-> r.attrs, aliases |-> aliases(r)]
<1>1. Findable(s, cloud) = UNION {{as(r, i) : i \in listedBy(r)} : r \in found}
  BY Zenon DEF Findable
<1>2. PICK r \in found : \E i \in listedBy(r) : x = as(r, i)
  BY <1>1
<1>2a. PICK i \in listedBy(r) : x = as(r, i)
  BY <1>2
<1>3. PICK h \in s.shown : hosts(r) = {h}
  OBVIOUS
<1>4. /\ x.host = h /\ x.id = r.id /\ x.region = r.region /\ x.attrs = r.attrs /\ x.by = i
      /\ s.route53 => x.aliases = Route53Names(Records(s, cloud), r) \cap s.domain
  BY <1>2a, <1>3
<1>5. FoundAs(s, cloud, r, x)
  BY <1>3, <1>4 DEF FoundAs
<1>6. QED
  BY <1>5

LEMMA CloudsAre ==
    ASSUME NEW k \in DOMAIN Clouds
    PROVE  /\ Clouds[k] \in ToSet(Clouds) /\ IsSequence(Clouds[k].resources)
           /\ \A region, id : \A q, r \in InstanceIn(Clouds[k], region, id) : q = r
           /\ \A r \in ToSet(Clouds[k].resources) :
                 r.kind = "instance" => r \in InstanceIn(Clouds[k], r.region, r.id)
<1>1. Clouds[k] \in ToSet(Clouds)
  BY DEF ToSet
<1>2. /\ IsSequence(Clouds[k].resources)
      /\ \A q, r \in ToSet(Clouds[k].resources) :
            q.kind = r.kind /\ q.region = r.region /\ q.id = r.id => q = r
  BY <1>1, InventoryAssumption
<1>3. QED
  BY <1>1, <1>2 DEF InstanceIn, ResourcesOf

\* An instance keeps its VPC, and is there in between.
LEMMA InstancesStay ==
    ASSUME NEW i \in DOMAIN Clouds, NEW j \in DOMAIN Clouds, NEW region, NEW id,
           NEW q \in InstanceIn(Clouds[i], region, id), NEW r \in InstanceIn(Clouds[j], region, id)
    PROVE  q.vpc = r.vpc /\ \A k \in i..j : InstanceIn(Clouds[k], region, id) # {}
<1>1. q \in ToSet(Clouds[i].resources) /\ q.kind = "instance" /\ q.region = region /\ q.id = id
  BY DEF InstanceIn, ResourcesOf
<1>2. QED
  BY <1>1, InventoryAssumption

\* The tags of an instance that is there.
LEMMA TagsOfInstance ==
    ASSUME world \in DOMAIN Clouds, NEW region, NEW id,
           NEW r \in InstanceIn(Clouds[world], region, id)
    PROVE  TagsNow("instance", region, id) = r.tags
<1> DEFINE now == {x \in ToSet(Resources("instance", region)) : x.id = id}
<1>1. now = InstanceIn(Clouds[world], region, id)
  BY ResourcesHave DEF InstanceIn
<1>2. now = {r}
  BY <1>1, CloudsAre
<1>3. TagsNow("instance", region, id) = IF now = {} THEN <<>> ELSE (CHOOSE x \in now : TRUE).tags
  BY DEF TagsNow
<1> HIDE DEF now
<1>4. QED
  BY <1>2, <1>3

\* The names of its addresses depend on these only.
LEMMA AliasesOfSame ==
    ASSUME NEW records, NEW q, NEW r, q.attrs = r.attrs
    PROVE  Route53Names(records, q) = Route53Names(records, r)
BY DEF Route53Names

\* A name depends on nothing else of an instance.
LEMMA NamesOfSame ==
    ASSUME NEW s, NEW records, NEW q, NEW r,
           q.kind = "instance", r.kind = "instance", q.attrs = r.attrs, q.vpc = r.vpc, q.tags = r.tags
    PROVE  /\ Dest(s, q) = Dest(s, r)
           /\ HostnamesOf(s, records, q) = HostnamesOf(s, records, r)
<1>1. \A a : Attr(q, a) = Attr(r, a)
  BY DEF Attr
<1>2. Dest(s, q) = Dest(s, r)
  BY <1>1 DEF Dest
<1>3. NiceName(s, q) = NiceName(s, r)
  BY <1>1 DEF NiceName
<1>4. Route53Names(records, q) = Route53Names(records, r)
  BY AliasesOfSame
<1>5. QED
  BY <1>2, <1>3, <1>4 DEF HostnamesOf

\* Of the records, only those in the domain count.
LEMMA NamesOfRecords ==
    ASSUME NEW s, NEW a, NEW b, NEW r,
           s.route53 => Route53Names(a, r) \cap s.domain = Route53Names(b, r) \cap s.domain
    PROVE  HostnamesOf(s, a, r) = HostnamesOf(s, b, r)
BY DEF HostnamesOf

-----------------------------------------------------------------------------
(* A run, from one call to the next.                                       *)
RunSound(here, w) ==
    /\ here = "idle" => w = Idle
    /\ here # "calling" => w.todo = <<>>
    /\ Followed(w.todo)

Pending(todo, region) ==
    \E i \in 1..Len(todo) : todo[i].call = "instances" /\ todo[i].region = region

LEMMA TailFollows ==
    ASSUME NEW todo, IsSequence(todo), Followed(todo), todo # <<>>
    PROVE  /\ Followed(Tail(todo))
           /\ \A region : Pending(todo, region) =>
                 /\ Tail(todo) # <<>>
                 /\ \/ Pending(Tail(todo), region)
                    \/ /\ Head(todo).call = "instances" /\ Head(todo).region = region
                       /\ Head(Tail(todo)).call = "tags" /\ Head(Tail(todo)).region = region
<1> DEFINE S == ToSet(todo)
           q == Tail(todo)
<1>1. todo \in Seq(S)
  BY DEF IsSequence
<1> HIDE DEF S
<1>2. /\ Len(todo) \in Nat \ {0} /\ q \in Seq(S) /\ Len(q) = Len(todo) - 1
      /\ \A i \in 1..Len(q) : q[i] = todo[i + 1]
  BY <1>1, EmptySeq, HeadTailProperties
<1>3. Head(todo) = todo[1] /\ (Len(q) # 0 => q # <<>> /\ Head(q) = q[1])
  BY <1>1, <1>2, EmptySeq
<1> HIDE DEF q
<1>4. ASSUME NEW i \in 1..Len(q), q[i].call = "instances"
      PROVE  i + 1 \in 1..Len(q) /\ q[i + 1].call = "tags" /\ q[i + 1].region = q[i].region
  <2>1. PICK j \in 1..Len(todo) : j = i + 1 /\ q[i] = todo[j]
    BY <1>2
  <2>2. j + 1 \in 1..Len(todo) /\ todo[j + 1].call = "tags" /\ todo[j + 1].region = todo[j].region
    BY <1>4, <2>1 DEF Followed
  <2>3. i + 1 \in 1..Len(q) /\ q[i + 1] = todo[j + 1]
    BY <1>2, <2>1, <2>2
  <2>4. QED
    BY <2>1, <2>2, <2>3
<1>5. ASSUME NEW region, Pending(todo, region)
      PROVE  /\ q # <<>>
             /\ \/ Pending(q, region)
                \/ /\ Head(todo).call = "instances" /\ Head(todo).region = region
                   /\ Head(q).call = "tags" /\ Head(q).region = region
  <2>1. PICK i \in 1..Len(todo) : todo[i].call = "instances" /\ todo[i].region = region
    BY <1>5 DEF Pending
  <2>2. i + 1 \in 1..Len(todo) /\ todo[i + 1].call = "tags" /\ todo[i + 1].region = region
    BY <2>1 DEF Followed
  <2>3. Len(q) # 0
    BY <1>2, <2>2
  <2>4. CASE i = 1
    <3>1. 1 \in 1..Len(q) /\ 1 + 1 = 2 /\ q[1] = todo[1 + 1]
      BY <1>2, <2>3
    <3>2. QED
      BY <1>3, <2>1, <2>2, <2>3, <2>4, <3>1
  <2>5. CASE i # 1
    <3>1. PICK k \in 1..Len(q) : k + 1 = i
      <4>1. i - 1 \in 1..Len(q) /\ (i - 1) + 1 = i
        BY <1>2, <2>5
      <4>2. QED
        BY <4>1
    <3>2. q[k] = todo[i]
      BY <1>2, <3>1
    <3>3. QED
      BY <1>3, <2>1, <2>3, <3>2 DEF Pending
  <2>6. QED
    BY <2>4, <2>5
<1>6. QED
  BY <1>4, <1>5 DEF q, Followed

LEMMA PlanPends ==
    ASSUME NEW s, IsSequence(s.regions)
    PROVE  /\ Followed(Plan(s))
           /\ \A region \in ToSet(Regions(s)) : Plan(s) # <<>> /\ Pending(Plan(s), region)
           /\ s.route53 => Plan(s) # <<>> /\ Head(Plan(s)).call = "records"
<1>1. /\ IsSequence(Plan(s)) /\ Len(Plan(s)) \in Nat
      /\ ToSet(Plan(s)) = {Plan(s)[i] : i \in 1..Len(Plan(s))}
  BY PlanIsSound, SequenceHas
<1>2. ASSUME NEW region \in ToSet(Regions(s)) PROVE Plan(s) # <<>> /\ Pending(Plan(s), region)
  <2>1. PICK i \in 1..Len(Plan(s)) : Plan(s)[i] = [call |-> "instances", region |-> region]
    BY <1>1, PlanHas
  <2>2. Len(Plan(s)) # 0
    BY <1>1
  <2>3. Plan(s) # <<>>
    BY <2>2, EmptySeq
  <2>4. QED
    BY <2>1, <2>3 DEF Pending
<1>3. QED
  BY <1>2, PlanHas

\* What a step of p leaves of it, and of the others.
LEMMA RunsStaySound ==
    ASSUME InventoryInv, NEW p \in Process, RunSound(phase[p], work[p]),
           Begins(p) \/ GoesOn(p) \/ Writes(p) \/ LooksUp(p) \/ \E printed : Finishes(p, printed)
    PROVE  /\ RunSound(phase'[p], work'[p])
           /\ \A q \in Process \ {p} : phase'[q] = phase[q] /\ work'[q] = work[q]
<1>1. \A q \in Process \ {p} : phase'[q] = phase[q] /\ work'[q] = work[q]
  BY DEF Begins, GoesOn, Writes, LooksUp, Finishes, End, InventoryInv
<1>2. Followed(<<>>) /\ Followed(Plan(settings))
  <2>1. Len(<<>>) = 0
    BY EmptySeq
  <2>2. QED
    BY <2>1, SettingsAre, PlanPends DEF Followed
<1>3. IsSequence(work[p].todo)
  BY DEF InventoryInv, WorkSound
<1>4. ASSUME Begins(p) PROVE RunSound(phase'[p], work'[p])
  BY <1>2, <1>4 DEF Begins, RunSound, InventoryInv
<1>5. ASSUME GoesOn(p) PROVE RunSound(phase'[p], work'[p])
  BY <1>3, <1>5, TailFollows DEF GoesOn, RunSound
<1>6. ASSUME Writes(p) PROVE RunSound(phase'[p], work'[p])
  BY <1>6 DEF Writes, Writing, RunSound, InventoryInv
<1>7. ASSUME LooksUp(p) PROVE RunSound(phase'[p], work'[p])
  BY <1>2, <1>7 DEF LooksUp, RunSound, InventoryInv
<1>8. ASSUME NEW printed, Finishes(p, printed) PROVE RunSound(phase'[p], work'[p])
  BY <1>2, <1>8 DEF Finishes, End, RunSound, InventoryInv, Idle
<1>9. QED
  BY <1>1, <1>4, <1>5, <1>6, <1>7, <1>8

-----------------------------------------------------------------------------
(* No host is denied that could be found.  Once a run refreshes, whatever  *)
(* could be found all along is in the index, or will be: its region is     *)
(* still to come, or is being listed and the listing that has it is still  *)
(* to be asked for, or it has been heard of and its tags are asked for     *)
(* next; and the records that name it are, or will be, those of now.       *)
RecordsFor(s, w, x) ==
    s.route53 =>
        \/ Head(w.todo).call = "records"
        \/ \A k \in DOMAIN Clouds : \A r \in InstanceIn(Clouds[k], x.region, x.id) :
              r.attrs = x.attrs => Route53Names(w.records, r) \cap s.domain = x.aliases

\* Instance r, as it was some time, has what does not change while x can be found.
HeardAs(s, r, x) ==
    /\ \E k \in DOMAIN Clouds : r \in InstanceIn(Clouds[k], x.region, x.id)
    /\ r.attrs = x.attrs /\ r.state \in InstanceStates(s)

HasHeard(s, w, x) == \E j \in DOMAIN w.heard : HeardAs(s, w.heard[j], x)

IsNext(w, call, region) == Head(w.todo).call = call /\ Head(w.todo).region = region

\* What is tracked is still to be asked for, or has been heard of.
IsToCome(s, w, x) ==
    \/ Pending(Tail(w.todo), x.region)
    \/ IsNext(w, "instances", x.region) /\ (w.asked < x.by \/ (w.asked # 0 /\ HasHeard(s, w, x)))

Tracked(s, w, x) ==
    \/ x.host \in DOMAIN w.book.index
    \/ /\ w.todo # <<>> /\ RecordsFor(s, w, x)
       /\ IsToCome(s, w, x) \/ (IsNext(w, "tags", x.region) /\ HasHeard(s, w, x))

SinceSound(here, w, there) ==
    here # "idle" =>
        /\ there \subseteq Findable(settings, Clouds[world])
        /\ w.again => \A x \in there : Tracked(settings, w, x)

NothingSound(printed, there) ==
    printed.kind = "nothing" => printed.host \notin {x.host : x \in there}

AbsenceInv ==
    /\ since = [p \in Process |-> since[p]]
    /\ \A p \in Process :
          /\ RunSound(phase[p], work[p]) /\ SinceSound(phase[p], work[p], since[p])
          /\ NothingSound(output[p], since[p])

\* What can be found now.
LEMMA FindableNow ==
    ASSUME InventoryInv, NEW x \in Findable(settings, Clouds[world])
    PROVE  \E r : FoundAs(settings, Clouds[world], r, x)
BY FindableIs

\* A region is pending while its listings are next.
LEMMA HeadPends ==
    ASSUME NEW todo, IsSequence(todo), todo # <<>>, Head(todo).call = "instances"
    PROVE  Pending(todo, Head(todo).region)
<1> DEFINE S == ToSet(todo)
<1>1. todo \in Seq(S)
  BY DEF IsSequence
<1> HIDE DEF S
<1>2. 1 \in 1..Len(todo) /\ Head(todo) = todo[1]
  BY <1>1, EmptySeq
<1>3. QED
  BY <1>2 DEF Pending

\* What is in one of two sequences is in both together.
LEMMA ConcatHas ==
    ASSUME NEW S, NEW T, NEW a \in Seq(S), NEW b \in Seq(T)
    PROVE  ToSet(a) \subseteq ToSet(a \o b) /\ ToSet(b) \subseteq ToSet(a \o b)
<1> DEFINE U == S \cup T
<1>1. a \in Seq(U) /\ b \in Seq(U)
  BY SequenceWider
<1> HIDE DEF U
<1>2. QED
  BY <1>1, JoinedHas

\* A region that is pending is next, or is pending still.
LEMMA PendsOrIsNext ==
    ASSUME NEW w, NEW todo, w.todo = todo, IsSequence(todo), Followed(todo), NEW region, Pending(todo, region)
    PROVE  /\ w.todo # <<>>
           /\ Pending(Tail(w.todo), region) \/ IsNext(w, "instances", region)
           /\ Pending(Tail(w.todo), region) \/ (/\ Tail(todo) # <<>>
                                               /\ Head(Tail(todo)).call = "tags"
                                               /\ Head(Tail(todo)).region = region)
<1>1. todo # <<>>
  <2>1. PICK i \in 1..Len(todo) : TRUE
    BY DEF Pending
  <2>2. QED
    BY <2>1, EmptySeq
<1>2. /\ Tail(todo) # <<>>
      /\ \/ Pending(Tail(todo), region)
         \/ /\ Head(todo).call = "instances" /\ Head(todo).region = region
            /\ Head(Tail(todo)).call = "tags" /\ Head(Tail(todo)).region = region
  BY <1>1, TailFollows
<1>3. QED
  BY <1>1, <1>2, Zenon DEF IsNext

LEMMA TrackedGoesOn ==
    ASSUME InventoryInv, NEW p \in Process, RunSound(phase[p], work[p]), GoesOn(p),
           NEW x \in Findable(settings, Clouds[world]), Tracked(settings, work[p], x)
    PROVE  Tracked(settings, work'[p], x)
<1> DEFINE v == work[p]
           w == work'[p]
           call == Head(v.todo)
<1>1. /\ v.todo # <<>> /\ w.todo = (IF w.asked = 0 THEN Tail(v.todo) ELSE v.todo)
      /\ Used(v, w) /\ Followed(v.todo)
      /\ IsSequence(v.todo) /\ world \in DOMAIN Clouds /\ HeadSound(settings, v) /\ AskedSound(settings, v)
  BY DEF GoesOn, RunSound, InventoryInv, WorkSound
<1>2. PICK r : FoundAs(settings, Clouds[world], r, x)
  BY FindableNow
<1>3. r \in InstanceIn(Clouds[world], x.region, x.id)
  BY <1>1, <1>2, CloudsAre DEF FoundAs
<1>4. DOMAIN v.book.index \subseteq DOMAIN w.book.index
  BY <1>1 DEF Used, AddsInstances, AddsOthers, Indexes, IndexesUpTo
<1>4a. Tracked(settings, v, x)
  OBVIOUS
<1> SUFFICES Tracked(settings, w, x)
  OBVIOUS
<1> HIDE DEF v, w
<1>5. CASE x.host \in DOMAIN v.book.index
  BY <1>4, <1>5 DEF Tracked
<1>6. CASE RecordsFor(settings, v, x) /\ IsToCome(settings, v, x)
  <2>1. RecordsFor(settings, w, x)
    <3>1. CASE call.call = "records" /\ settings.route53
      <4>1. w.records = Records(settings, Clouds[world])
        BY <1>1, <3>1 DEF Used
      <4>2. ASSUME NEW k \in DOMAIN Clouds, NEW q \in InstanceIn(Clouds[k], x.region, x.id), q.attrs = x.attrs
            PROVE  Route53Names(w.records, q) \cap settings.domain = x.aliases
        <5>1. Route53Names(w.records, q) = Route53Names(w.records, r)
          BY <1>2, <4>2, AliasesOfSame DEF FoundAs
        <5>2. QED
          BY <1>2, <3>1, <4>1, <5>1 DEF FoundAs
      <4>3. QED
        BY <4>2 DEF RecordsFor
    <3>2. CASE call.call # "records"
      <4>1. w.records = v.records
        BY <1>1, <3>2 DEF Used
      <4>2. QED
        BY <1>6, <3>2, <4>1 DEF RecordsFor
    <3>3. QED
      BY <3>1, <3>2 DEF RecordsFor
  <2>2. ASSUME Pending(Tail(v.todo), x.region), w.asked = 0
        PROVE  w.todo # <<>> /\ IsToCome(settings, w, x)
    <3>1. w.todo = Tail(v.todo) /\ IsSequence(w.todo) /\ Followed(w.todo)
      BY <1>1, <2>2, TailSound, TailFollows DEF InventoryInv, WorkSound, v
    <3>2. /\ w.todo # <<>>
          /\ Pending(Tail(w.todo), x.region) \/ IsNext(w, "instances", x.region)
      BY <2>2, <3>1, PendsOrIsNext
    <3>3. w.asked < x.by
      BY <1>2, <2>2, SettingsAre, ListingsAre DEF FoundAs
    <3>4. QED
      BY <3>2, <3>3 DEF IsToCome
  <2>3. ASSUME IsNext(v, "instances", x.region), HasHeard(settings, w, x)
        PROVE  Tracked(settings, w, x)
    <3>1. CASE w.asked # 0
      BY <1>1, <2>1, <2>3, <3>1 DEF Tracked, IsToCome, IsNext
    <3>2. CASE w.asked = 0
      <4>1. Pending(v.todo, x.region)
        BY <1>1, <2>3, HeadPends DEF IsNext
      <4>2. \/ Pending(Tail(v.todo), x.region)
            \/ w.todo # <<>> /\ IsNext(w, "tags", x.region)
        BY <1>1, <3>2, <4>1, TailFollows DEF IsNext
      <4>3. QED
        BY <2>1, <2>2, <2>3, <3>2, <4>2 DEF Tracked
    <3>3. QED
      BY <3>1, <3>2
  <2>4. CASE Pending(Tail(v.todo), x.region)
    <3>1. CASE w.asked = 0
      BY <2>1, <2>2, <2>4, <3>1 DEF Tracked
    <3>2. CASE w.asked # 0
      BY <1>1, <2>1, <2>4, <3>2 DEF Tracked, IsToCome
    <3>3. QED
      BY <3>1, <3>2
  <2>5. CASE IsNext(v, "instances", x.region)
    <3> DEFINE all == Resources("instance", x.region)
    <3>1. PICK answer : answer = ListedBy(Listings(settings)[v.asked + 1], all)
      OBVIOUS
    <3>2. /\ w.heard = IF v.asked = 0 THEN answer ELSE v.heard \o answer
          /\ w.asked = IF v.asked + 1 = Len(Listings(settings)) THEN 0 ELSE v.asked + 1
      BY <1>1, <2>5, <3>1 DEF Used, IsNext
    <3>3. IsSequence(all) /\ r \in ToSet(all)
      BY <1>1, <1>3, ResourcesHave DEF InstanceIn
    <3> HIDE DEF all
    <3>4. answer \in Seq(ToSet(answer)) /\ (v.asked # 0 => v.heard \in Seq(ToSet(v.heard)))
      <4>1. IsSequence(answer)
        BY <3>1, <3>3, ListedAre, SequenceOver
      <4>2. QED
        BY <1>1, <4>1 DEF AskedSound, Needs, IsSequence
    <3>5. CASE v.asked + 1 = x.by
      <4>1. r \in ToSet(answer)
        BY <1>2, <3>1, <3>3, <3>5, ListedIs DEF FoundAs
      <4>2. r \in ToSet(w.heard)
        BY <3>2, <3>4, <4>1, ConcatHas
      <4>3. HeardAs(settings, r, x)
        BY <1>1, <1>2, <1>3 DEF HeardAs, FoundAs, Gathered
      <4>4. QED
        BY <2>3, <2>5, <4>2, <4>3 DEF HasHeard, ToSet
    <3>6. CASE v.asked # 0 /\ HasHeard(settings, v, x)
      <4>1. PICK y \in ToSet(v.heard) : HeardAs(settings, y, x)
        BY <3>6 DEF HasHeard, ToSet
      <4>2. y \in ToSet(w.heard)
        BY <3>2, <3>4, <3>6, <4>1, ConcatHas
      <4>3. QED
        BY <2>3, <2>5, <4>1, <4>2 DEF HasHeard, ToSet
    <3>7. CASE v.asked < x.by /\ v.asked + 1 # x.by
      <4>1. v.asked \in Nat /\ x.by \in 1..Len(Listings(settings)) /\ Len(Listings(settings)) \in Nat
        BY <1>1, <1>2, SettingsAre, ListingsAre DEF AskedSound, FoundAs
      <4>2. w.asked = v.asked + 1 /\ w.asked # 0 /\ w.asked < x.by
        BY <3>2, <3>7, <4>1
      <4>3. QED
        BY <1>1, <2>1, <2>5, <4>2 DEF Tracked, IsToCome, IsNext
    <3>8. v.asked < x.by \/ (v.asked # 0 /\ HasHeard(settings, v, x)) \/ Pending(Tail(v.todo), x.region)
      BY <1>6 DEF IsToCome
    <3>9. QED
      BY <2>4, <3>5, <3>6, <3>7, <3>8
  <2>6. QED
    BY <1>6, <2>4, <2>5 DEF IsToCome
<1>7. CASE RecordsFor(settings, v, x) /\ IsNext(v, "tags", x.region) /\ HasHeard(settings, v, x)
  <2>1. PICK j \in DOMAIN v.heard : HeardAs(settings, v.heard[j], x)
    BY <1>7 DEF HasHeard
  <2>2. PICK k \in DOMAIN Clouds : v.heard[j] \in InstanceIn(Clouds[k], x.region, x.id)
    BY <2>1 DEF HeardAs
  <2>3. PICK found : /\ Len(found) = Len(v.heard)
                     /\ \A i \in DOMAIN v.heard : TaggedNow(found[i], v.heard[i], x.region)
                     /\ Indexes(settings, v.records, found, v.book.index, w.book.index)
    BY <1>1, <1>7 DEF Used, AddsInstances, IsNext
  <2>4. j \in 1..Len(found)
    <3>1. IsSequence(v.heard)
      BY <1>1, <1>7 DEF HeadSound, Needs, IsNext
    <3>2. QED
      BY <2>3, <3>1, SequenceHas
  <2>5. PICK f : f = found[j]
    OBVIOUS
  <2>6. /\ f.kind = "instance" /\ f.attrs = r.attrs /\ f.vpc = r.vpc /\ f.tags = r.tags
        /\ f.state \in InstanceStates(settings)
    <3>1. v.heard[j].kind = "instance" /\ v.heard[j].id = x.id
      BY <2>2 DEF InstanceIn, ResourcesOf
    <3>2. v.heard[j].vpc = r.vpc
      BY <1>1, <1>3, <2>2, InstancesStay
    <3>3. TagsNow("instance", x.region, x.id) = r.tags
      BY <1>1, <1>3, TagsOfInstance
    <3>4. TaggedNow(f, v.heard[j], x.region)
      BY <2>3, <2>5
    <3>5. v.heard[j].attrs = r.attrs /\ v.heard[j].state \in InstanceStates(settings)
      BY <1>2, <2>1 DEF HeardAs, FoundAs
    <3>6. QED
      BY <3>1, <3>2, <3>3, <3>4, <3>5 DEF TaggedNow
  <2>7. r.kind = "instance" /\ Dest(settings, r) \notin {None, ""}
    BY <1>2 DEF FoundAs, Gathered
  <2>8. /\ Dest(settings, f) = Dest(settings, r)
        /\ HostnamesOf(settings, v.records, f) = HostnamesOf(settings, v.records, r)
    BY <2>6, <2>7, NamesOfSame
  <2>9. Gathered(settings, f)
    BY <2>6, <2>7, <2>8 DEF Gathered
  <2>10. HostnamesOf(settings, v.records, f) = {x.host}
    <3>1. settings.route53 => Route53Names(v.records, r) \cap settings.domain = x.aliases
      BY <1>1, <1>2, <1>3, <1>7 DEF RecordsFor, FoundAs, IsNext
    <3>2. settings.route53 =>
              x.aliases = Route53Names(Records(settings, Clouds[world]), r) \cap settings.domain
      BY <1>2 DEF FoundAs
    <3>3. settings.route53 =>
              Route53Names(v.records, r) \cap settings.domain
                  = Route53Names(Records(settings, Clouds[world]), r) \cap settings.domain
      BY <3>1, <3>2
    <3>4. HostnamesOf(settings, v.records, r) = HostnamesOf(settings, Records(settings, Clouds[world]), r)
      BY <3>3, NamesOfRecords
    <3>5. QED
      BY <1>2, <2>8, <3>4 DEF FoundAs
  <2>11. Shown(settings, f, x.host)
    BY <1>2 DEF FoundAs, Shown
  <2>12. x.host \in DOMAIN w.book.index
    BY <2>3, <2>4, <2>5, <2>9, <2>10, <2>11 DEF Indexes, IndexesUpTo
  <2>13. QED
    BY <2>12 DEF Tracked
<1>8. QED
  BY <1>4a, <1>5, <1>6, <1>7 DEF Tracked

\* A refresh is going to ask for everything.
LEMMA TrackedByPlan ==
    ASSUME InventoryInv, NEW x \in Findable(settings, Clouds[world]), NEW w, w.todo = Plan(settings), w.asked = 0
    PROVE  Tracked(settings, w, x)
<1>1. PICK r : FoundAs(settings, Clouds[world], r, x)
  BY FindableNow
<1>2. x.region \in ToSet(Regions(settings))
  BY <1>1 DEF FoundAs
<1>3. Plan(settings) # <<>> /\ Pending(Plan(settings), x.region)
      /\ (settings.route53 => Head(Plan(settings)).call = "records")
  BY <1>2, SettingsAre, PlanPends
<1>4. IsSequence(Plan(settings)) /\ Followed(Plan(settings))
  BY SettingsAre, PlanIsSound, PlanPends
<1>5. Pending(Tail(w.todo), x.region) \/ IsNext(w, "instances", x.region)
  BY <1>3, <1>4, TailFollows DEF IsNext
<1>6. w.asked < x.by
  BY <1>1, SettingsAre, ListingsAre DEF FoundAs
<1>7. QED
  BY <1>3, <1>5, <1>6 DEF Tracked, RecordsFor, IsToCome

\* Without calls before it, what is tracked is indexed.
LEMMA TrackedIsIndexed ==
    ASSUME NEW s, NEW w, w.todo = <<>>, NEW x, Tracked(s, w, x)
    PROVE  x.host \in DOMAIN w.book.index
BY DEF Tracked

LEMMA AbsenceOfRun ==
    ASSUME InventoryInv, AbsenceInv, NEW p \in Process,
           Begins(p) \/ GoesOn(p) \/ Writes(p) \/ LooksUp(p) \/ \E printed : Finishes(p, printed)
    PROVE  /\ SinceSound(phase[p], work[p], since[p])'
           /\ NothingSound(output[p], since[p])'
<1>1. /\ RunSound(phase[p], work[p]) /\ SinceSound(phase[p], work[p], since[p])
      /\ NothingSound(output[p], since[p]) /\ since = [q \in Process |-> since[q]]
      /\ phase \in [Process -> Phase] /\ output = [q \in Process |-> output[q]]
      /\ work = [q \in Process |-> work[q]]
  BY DEF AbsenceInv, InventoryInv
<1>2. /\ settings' = settings /\ world' = world
  BY DEF Begins, GoesOn, Writes, LooksUp, Finishes
<1>3. ASSUME /\ phase'[p] # "idle" => since'[p] \subseteq Findable(settings, Clouds[world])
             /\ phase'[p] # "idle" /\ work'[p].again => \A x \in since'[p] : Tracked(settings, work'[p], x),
             NothingSound(output'[p], since'[p])
      PROVE  /\ SinceSound(phase[p], work[p], since[p])'
             /\ NothingSound(output[p], since[p])'
  BY <1>2, <1>3 DEF SinceSound, NothingSound, Tracked, IsToCome, IsNext, HasHeard, RecordsFor, HeardAs, Pending
<1>4. CASE Begins(p)
  <2>1. since'[p] = Findable(settings, Clouds[world]) /\ output'[p] = NoOutput
    BY <1>1, <1>4 DEF Begins
  <2>2. ~work'[p].again
    BY <1>1, <1>4 DEF Begins, RunSound, Idle
  <2>3. NothingSound(output'[p], since'[p])
    BY <2>1 DEF NothingSound, NoOutput
  <2>4. QED
    BY <1>3, <2>1, <2>2, <2>3
<1>5. CASE GoesOn(p)
  <2>1. /\ phase[p] # "idle" /\ phase' = phase /\ since' = since /\ output' = output
        /\ work'[p].again = work[p].again
    BY <1>5 DEF GoesOn, Used
  <2>2. QED
    BY <1>1, <1>3, <1>5, <2>1, TrackedGoesOn DEF SinceSound
<1>6. CASE Writes(p)
  <2>1. phase[p] # "idle" /\ since' = since /\ output' = output /\ work' = work
    BY <1>6 DEF Writes, Writing
  <2>2. QED
    BY <1>1, <1>3, <2>1 DEF SinceSound
<1>7. CASE LooksUp(p)
  <2>1. phase[p] = "answering" /\ since' = since /\ output' = output
    BY <1>7 DEF LooksUp
  <2>2. /\ work[p].todo = <<>> /\ since[p] \subseteq Findable(settings, Clouds[world])
        /\ work'[p].asked = 0
    BY <1>1, <1>7, <2>1 DEF RunSound, SinceSound, LooksUp
  <2>3. ASSUME work'[p].again, NEW x \in since[p] PROVE Tracked(settings, work'[p], x)
    <3>1. CASE work'[p].todo = Plan(settings)
      BY <2>2, <3>1, TrackedByPlan
    <3>2. CASE work'[p].again = work[p].again
      <4>1. work'[p].book.index = work[p].book.index
        BY <1>7, <2>3, <3>2 DEF LooksUp
      <4>2. Tracked(settings, work[p], x)
        BY <1>1, <2>1, <2>3, <3>2 DEF SinceSound
      <4>3. x.host \in DOMAIN work'[p].book.index
        BY <2>2, <4>1, <4>2, TrackedIsIndexed
      <4>4. QED
        BY <4>3 DEF Tracked
    <3>3. QED
      BY <1>7, <3>1, <3>2 DEF LooksUp
  <2>4. QED
    BY <1>1, <1>3, <2>1, <2>2, <2>3
<1>8. CASE \E printed : Finishes(p, printed)
  <2>1. PICK printed : Finishes(p, printed)
    BY <1>8
  <2>2. /\ phase'[p] = "idle" /\ output'[p] = printed
        /\ since'[p] = IF printed.kind = "nothing" THEN since[p] ELSE {}
    BY <1>1, <2>1 DEF Finishes, End
  <2>3. NothingSound(printed, since'[p])
    <3> SUFFICES ASSUME printed.kind = "nothing", NEW x \in since[p] PROVE printed.host # x.host
      BY <2>2 DEF NothingSound
    <3>1. /\ phase[p] = "answering" /\ work[p].again /\ printed.host = work[p].wanted
          /\ work[p].wanted \notin DOMAIN work[p].book.index
      BY <2>1 DEF Finishes
    <3>2. work[p].todo = <<>> /\ Tracked(settings, work[p], x)
      BY <1>1, <3>1 DEF RunSound, SinceSound
    <3>3. QED
      BY <3>1, <3>2, TrackedIsIndexed
  <2>4. QED
    BY <1>3, <2>2, <2>3
<1>9. QED
  BY <1>4, <1>5, <1>6, <1>7, <1>8

LEMMA AbsenceKept == InventoryInv /\ AbsenceInv /\ [Next]_vars => AbsenceInv'
<1> SUFFICES ASSUME InventoryInv, AbsenceInv, [Next]_vars PROVE AbsenceInv'
  OBVIOUS
<1>1. ASSUME NEW p \in Process, Start(p) \/ Step(p) \/ Crash(p) PROVE AbsenceInv'
  <2>1. Begins(p) \/ GoesOn(p) \/ Writes(p) \/ LooksUp(p) \/ \E printed : Finishes(p, printed)
    BY <1>1, RunSteps
  <2>2. since' = [q \in Process |-> since'[q]]
    BY <2>1 DEF Begins, GoesOn, Writes, LooksUp, Finishes, End, AbsenceInv
  <2>3. /\ RunSound(phase'[p], work'[p])
        /\ \A q \in Process \ {p} : phase'[q] = phase[q] /\ work'[q] = work[q]
    BY <2>1, RunsStaySound DEF AbsenceInv
  <2>4. \A q \in Process \ {p} : since'[q] = since[q] /\ output'[q] = output[q]
    BY <2>1 DEF Begins, GoesOn, Writes, LooksUp, Finishes, End, AbsenceInv, InventoryInv
  <2>5. settings' = settings /\ world' = world
    BY <2>1 DEF Begins, GoesOn, Writes, LooksUp, Finishes
  <2>6. /\ SinceSound(phase[p], work[p], since[p])' /\ NothingSound(output[p], since[p])'
    BY <2>1, AbsenceOfRun
  <2>7. ASSUME NEW q \in Process \ {p}
        PROVE  /\ RunSound(phase'[q], work'[q]) /\ SinceSound(phase[q], work[q], since[q])'
               /\ NothingSound(output[q], since[q])'
    BY <2>3, <2>4, <2>5 DEF AbsenceInv, SinceSound, NothingSound
  <2>8. QED
    BY <2>2, <2>3, <2>6, <2>7 DEF AbsenceInv
<1>2. CASE CloudChanges
  <2>1. /\ since' = [p \in Process |-> IF phase[p] = "idle" THEN since[p]
                                       ELSE since[p] \cap Findable(settings, Clouds[world'])]
        /\ settings' = settings /\ phase' = phase /\ work' = work /\ output' = output
    BY <1>2 DEF CloudChanges
  <2>2. \A p \in Process : since'[p] \subseteq since[p]
    BY <2>1
  <2>3. ASSUME NEW p \in Process
        PROVE  /\ RunSound(phase'[p], work'[p]) /\ SinceSound(phase[p], work[p], since[p])'
               /\ NothingSound(output[p], since[p])'
    BY <2>1, <2>2 DEF AbsenceInv, SinceSound, NothingSound
  <2>4. QED
    BY <2>1, <2>3 DEF AbsenceInv
<1>3. CASE CacheExpires \/ UNCHANGED vars
  <2>1. /\ settings' = settings /\ world' = world /\ phase' = phase /\ work' = work
        /\ output' = output /\ since' = since
    BY <1>3 DEF CacheExpires, vars
  <2>2. QED
    BY <2>1 DEF AbsenceInv, SinceSound, NothingSound
<1>4. QED
  BY <1>1, <1>2, <1>3 DEF Next

LEMMA InitAbsence == Init => AbsenceInv
<1> SUFFICES ASSUME Init PROVE AbsenceInv
  OBVIOUS
<1>1. Idle.todo = <<>> /\ Len(<<>>) = 0 /\ NoOutput.kind = "none"
  BY EmptySeq DEF Idle, NoOutput
<1>2. QED
  BY <1>1 DEF Init, AbsenceInv, RunSound, SinceSound, NothingSound, Followed

(* The invariant of a run that has to refresh: what could be found all     *)
(* along is indexed or still to be asked for, in do_api_calls_update_cache. *)
THEOREM AbsenceInvariant == Spec => []AbsenceInv
<1>1. Init => AbsenceInv
  BY InitAbsence
<1>2. InventoryInv /\ AbsenceInv /\ [Next]_vars => AbsenceInv'
  BY AbsenceKept
<1>3. QED
  BY <1>1, <1>2, InventoryInvariant, PTL DEF Spec

(* get_host_info prints {} for a host only if no instance could be found   *)
(* under that name during all of the run by one and the same listing: the  *)
(* refresh it makes first does not miss such an instance, whatever else    *)
(* changes between its calls.  One that passes from a filter set to an     *)
(* earlier one between the two calls can be missed.                        *)
THEOREM AbsentHostsCouldNotBeFound == Spec => []NoFalseAbsence
<1>1. AbsenceInv => NoFalseAbsence
  BY DEF AbsenceInv, NoFalseAbsence, NothingSound
<1>2. QED
  BY <1>1, AbsenceInvariant, PTL

-----------------------------------------------------------------------------
(* What is printed of a host is of an instance that has had its name.      *)
(* "named" has the names of the states the cloud has been in since the     *)
(* start, as far as they are counted; an entry of an index has been a name *)
(* or is of an instance that will not be there any more.                   *)
Counted(i) == i \in 1..world /\ Names(settings, Clouds[i]) \subseteq named

Gone(region, id) ==
    \A k \in DOMAIN Clouds : k >= world => InstanceIn(Clouds[k], region, id) = {}

EntryNamed(h, entry) == <<h, entry[2]>> \in named \/ Gone(entry[1], entry[2])

IndexNamed(entries) == \A h \in DOMAIN entries : EntryNamed(h, entries[h])

\* The records were read first, the listings of a region next.
Reading(s, w) ==
    \/ s.route53 /\ Head(w.todo).call = "records"
    \/ \E i \in DOMAIN Clouds :
          /\ Counted(i)
          /\ s.route53 => w.records = Records(s, Clouds[i])
          /\ Head(w.todo).call = "tags" \/ w.asked # 0 =>
                \A j \in DOMAIN w.heard :
                   \E k \in DOMAIN Clouds :
                      /\ Counted(k) /\ i <= k
                      /\ w.heard[j] \in InstanceIn(Clouds[k], Head(w.todo).region, w.heard[j].id)

RunNamed(here, w, printed) ==
    /\ RunSound(here, w) /\ IndexNamed(w.book.index)
    /\ here = "fetching" => w.wanted \in DOMAIN w.book.index
    /\ w.todo # <<>> => Reading(settings, w)
    /\ printed.kind = "host" => <<printed.host, printed.info.id>> \in named

NamedInv ==
    /\ Counted(world)
    /\ \A p \in Process : RunNamed(phase[p], work[p], output[p])
    /\ Readable(index) => IndexNamed(index.index)

LEMMA CountedIsNamed ==
    ASSUME NEW i, Counted(i), NEW r \in ToSet(Clouds[i].resources), Gathered(settings, r),
           NEW h \in HostnamesOf(settings, Records(settings, Clouds[i]), r)
    PROVE  <<h, r.id>> \in named
BY DEF Counted, Names

\* The name that an instance gets from what was read of it.
LEMMA InstanceNamed ==
    ASSUME OneThingChanges, NEW x \in Scenario, settings = x.settings, world \in DOMAIN Clouds,
           NEW i \in DOMAIN Clouds, NEW k \in DOMAIN Clouds, i <= k,
           Counted(i), Counted(k), Counted(world),
           NEW region, NEW id, NEW q \in InstanceIn(Clouds[k], region, id),
           NEW f, TaggedNow(f, q, region), Gathered(settings, f),
           NEW records, settings.route53 => records = Records(settings, Clouds[i]),
           NEW h \in HostnamesOf(settings, records, f)
    PROVE  EntryNamed(h, <<f.region, f.id>>)
<1>0. DOMAIN Clouds = 1..Len(Clouds) /\ Len(Clouds) \in Nat \ {0}
  BY WorldsAre
<1>1. /\ q \in ToSet(Clouds[k].resources) /\ q.kind = "instance" /\ q.region = region /\ q.id = id
      /\ Clouds[k] \in ToSet(Clouds)
  BY CloudsAre DEF InstanceIn, ResourcesOf
<1>2. /\ f.region = region /\ f.id = id /\ f.kind = "instance" /\ f.attrs = q.attrs
      /\ f.vpc = q.vpc /\ f.state = q.state /\ f.tags = TagsNow("instance", region, id)
  BY <1>1 DEF TaggedNow
<1>3. k <= world /\ i <= world
  BY DEF Counted
<1>4. <<f.region, f.id>>[1] = region /\ <<f.region, f.id>>[2] = id
  BY <1>2
<1>5. CASE InstanceIn(Clouds[world], region, id) = {}
  <2>1. ASSUME NEW m \in DOMAIN Clouds, m >= world, NEW r \in InstanceIn(Clouds[m], region, id)
        PROVE  FALSE
    <3>1. world \in k..m
      BY <1>0, <1>3, <2>1
    <3>2. \A n \in k..m : InstanceIn(Clouds[n], region, id) # {}
      BY InstancesStay
    <3>3. QED
      BY <1>5, <3>1, <3>2
  <2>2. Gone(region, id)
    BY <2>1 DEF Gone
  <2>3. QED
    BY <1>4, <2>2 DEF EntryNamed
<1>6. ASSUME NEW r \in InstanceIn(Clouds[world], region, id)
      PROVE  <<h, id>> \in named
  <2>1. /\ r \in ToSet(Clouds[world].resources) /\ r.kind = "instance" /\ r.id = id
        /\ Clouds[world] \in ToSet(Clouds)
    BY <1>6, CloudsAre DEF InstanceIn, ResourcesOf
  <2>2. f.tags = r.tags /\ f.vpc = r.vpc
    <3>1. q.vpc = r.vpc
      BY <1>6, InstancesStay
    <3>2. TagsNow("instance", region, id) = r.tags
      BY <1>6, TagsOfInstance
    <3>3. QED
      BY <1>2, <3>1, <3>2
  <2>3. q \in Editions(q) /\ r \in Editions(q)
    BY <1>1, <1>6, <2>1 DEF Editions
  <2>4. ChangesInOneWay(settings, q)
    BY <1>1 DEF OneThingChanges
  <2>5. ASSUME NEW y, y.kind = "instance", y.id = id, y.attrs = f.attrs, y.state = f.state,
               y.tags = f.tags, y.vpc = f.vpc,
               NEW n, Counted(n), y \in ToSet(Clouds[n].resources),
               HostnamesOf(settings, records, y) = HostnamesOf(settings, Records(settings, Clouds[n]), y)
        PROVE  <<h, id>> \in named
    <3>1. /\ Dest(settings, f) = Dest(settings, y)
          /\ HostnamesOf(settings, records, f) = HostnamesOf(settings, records, y)
      BY <1>2, <2>5, NamesOfSame
    <3>2. Gathered(settings, y)
      BY <1>2, <2>5, <3>1 DEF Gathered
    <3>3. h \in HostnamesOf(settings, Records(settings, Clouds[n]), y)
      BY <2>5, <3>1
    <3>4. QED
      BY <2>5, <3>2, <3>3, CountedIsNamed
  <2>6. CASE settings.route53 =>
                \A e \in Editions(q), c, d \in ToSet(Clouds) :
                   Route53Names(Records(settings, c), e) \cap settings.domain
                       = Route53Names(Records(settings, d), e) \cap settings.domain
    <3>1. ASSUME NEW e \in Editions(q), NEW n \in DOMAIN Clouds
          PROVE  HostnamesOf(settings, records, e) = HostnamesOf(settings, Records(settings, Clouds[n]), e)
      <4>1. Clouds[i] \in ToSet(Clouds) /\ Clouds[n] \in ToSet(Clouds)
        BY CloudsAre
      <4>2. settings.route53 =>
                Route53Names(records, e) \cap settings.domain
                    = Route53Names(Records(settings, Clouds[n]), e) \cap settings.domain
        BY <2>6, <4>1
      <4>3. QED
        BY <4>2, NamesOfRecords
    <3>2. CASE [r EXCEPT !.tags = q.tags] = q
      <4>1. r.attrs = q.attrs /\ r.state = q.state
        <5>1. DOMAIN r = ResourceFields
          BY <2>1, InventoryAssumption
        <5>2. /\ [r EXCEPT !.tags = q.tags].attrs = r.attrs
              /\ [r EXCEPT !.tags = q.tags].state = r.state
          BY <5>1 DEF ResourceFields
        <5>3. QED
          BY <3>2, <5>2
      <4>2. QED
        BY <1>2, <2>1, <2>2, <2>3, <2>5, <3>1, <4>1
    <3>3. CASE r.tags = q.tags
      BY <1>1, <1>2, <2>2, <2>3, <2>5, <3>1, <3>3
    <3>4. CASE Editions(q) = {q}
      BY <1>1, <1>2, <2>2, <2>3, <2>5, <3>1, <3>4
    <3>5. QED
      BY <2>3, <2>4, <3>2, <3>3, <3>4 DEF ChangesInOneWay
  <2>7. CASE Editions(q) = {q} /\ q \in ToSet(Clouds[1].resources)
    <3>1. r = q
      BY <2>3, <2>7
    <3>2. 1 \in DOMAIN Clouds /\ i \in 1..k
      BY <1>0
    <3>3. q \in InstanceIn(Clouds[1], region, id)
      BY <1>1, <2>7 DEF InstanceIn, ResourcesOf
    <3>4. PICK y : y \in InstanceIn(Clouds[i], region, id)
      BY <3>2, <3>3, InstancesStay
    <3>5. y \in Editions(q) /\ y \in ToSet(Clouds[i].resources)
      BY <1>1, <3>4, CloudsAre DEF Editions, InstanceIn, ResourcesOf
    <3>6. q \in ToSet(Clouds[i].resources)
      BY <2>7, <3>5
    <3>7. HostnamesOf(settings, records, q) = HostnamesOf(settings, Records(settings, Clouds[i]), q)
      BY NamesOfRecords
    <3>8. QED
      BY <1>1, <1>2, <2>2, <2>5, <3>1, <3>6, <3>7
  <2>8. QED
    BY <2>4, <2>6, <2>7 DEF ChangesInOneWay
<1>7. QED
  BY <1>4, <1>5, <1>6 DEF EntryNamed

\* What bears another thing's identifier is no instance.
LEMMA OthersAreGone ==
    ASSUME IdentifiersApart, world \in DOMAIN Clouds, NEW region, NEW id, OtherIs(region, id)
    PROVE  Gone(region, id)
<1>1. PICK r \in ToSet(Clouds[world].resources) :
          r.kind # "instance" /\ r.region = region /\ Identifies(r, id)
  BY DEF OtherIs
<1>2. ASSUME NEW k \in DOMAIN Clouds, NEW q \in InstanceIn(Clouds[k], region, id)
      PROVE  FALSE
  <2>1. q \in ToSet(Clouds[k].resources) /\ q.kind = "instance" /\ q.region = region /\ q.id = id
    BY DEF InstanceIn, ResourcesOf
  <2>2. Clouds[k] \in ToSet(Clouds) /\ Clouds[world] \in ToSet(Clouds)
    BY CloudsAre
  <2>3. q.id # r.id /\ \A node \in ToSet(r.nodes) : q.id # node.id
    BY <1>1, <2>1, <2>2 DEF IdentifiersApart
  <2>4. QED
    BY <1>1, <2>1, <2>3 DEF Identifies
<1>3. QED
  BY <1>2 DEF Gone

LEMMA IndexGoesOn ==
    ASSUME IdentifiersApart, OneThingChanges, InventoryInv, NamedInv, NEW p \in Process, GoesOn(p)
    PROVE  IndexNamed(work'[p].book.index)
<1> DEFINE v == work[p]
           w == work'[p]
           call == Head(v.todo)
<1>1. /\ v.todo # <<>> /\ Used(v, w) /\ world \in DOMAIN Clouds /\ HeadSound(settings, v)
      /\ IndexNamed(v.book.index) /\ Reading(settings, v) /\ Counted(world)
  BY DEF GoesOn, NamedInv, RunNamed, InventoryInv, WorkSound
<1>2. PICK x \in Scenario : settings = x.settings
  BY DEF InventoryInv
<1> HIDE DEF v, w
<1>3. CASE call.call # "tags"
  <2>1. AddsOthers(v.book.index, w.book.index)
    BY <1>1, <1>3 DEF Used
  <2>2. ASSUME NEW h \in DOMAIN w.book.index PROVE EntryNamed(h, w.book.index[h])
    <3>1. CASE OtherIs(w.book.index[h][1], w.book.index[h][2])
      BY <1>1, <3>1, OthersAreGone DEF EntryNamed
    <3>2. CASE h \in DOMAIN v.book.index /\ w.book.index[h] = v.book.index[h]
      BY <1>1, <3>2 DEF IndexNamed
    <3>3. QED
      BY <2>1, <3>1, <3>2 DEF AddsOthers
  <2>3. QED
    BY <2>2 DEF IndexNamed, w
<1>4. CASE call.call = "tags"
  <2>1. PICK found : /\ Len(found) = Len(v.heard)
                     /\ \A j \in DOMAIN v.heard : TaggedNow(found[j], v.heard[j], call.region)
                     /\ Indexes(settings, v.records, found, v.book.index, w.book.index)
    BY <1>1, <1>4 DEF Used, AddsInstances
  <2>2. DOMAIN v.heard = 1..Len(found)
    <3>1. IsSequence(v.heard)
      BY <1>1, <1>4 DEF HeadSound, Needs
    <3>2. QED
      BY <2>1, <3>1, SequenceHas
  <2>3. PICK i \in DOMAIN Clouds :
            /\ Counted(i)
            /\ settings.route53 => v.records = Records(settings, Clouds[i])
            /\ \A j \in DOMAIN v.heard :
                  \E k \in DOMAIN Clouds :
                     /\ Counted(k) /\ i <= k
                     /\ v.heard[j] \in InstanceIn(Clouds[k], call.region, v.heard[j].id)
    BY <1>1, <1>4 DEF Reading
  <2>4. ASSUME NEW h \in DOMAIN w.book.index PROVE EntryNamed(h, w.book.index[h])
    <3>1. CASE h \in DOMAIN v.book.index /\ w.book.index[h] = v.book.index[h]
      BY <1>1, <3>1 DEF IndexNamed
    <3>2. CASE \E j \in 1..Len(found) :
                  /\ Gathered(settings, found[j]) /\ h \in HostnamesOf(settings, v.records, found[j])
                  /\ w.book.index[h] = <<found[j].region, found[j].id>>
      <4>1. PICK j \in DOMAIN v.heard :
                  /\ Gathered(settings, found[j]) /\ h \in HostnamesOf(settings, v.records, found[j])
                  /\ w.book.index[h] = <<found[j].region, found[j].id>>
        BY <2>2, <3>2
      <4>2. PICK k \in DOMAIN Clouds :
                /\ Counted(k) /\ i <= k
                /\ v.heard[j] \in InstanceIn(Clouds[k], call.region, v.heard[j].id)
        BY <2>3
      <4>3. PICK f, q : f = found[j] /\ q = v.heard[j]
        OBVIOUS
      <4>4. TaggedNow(f, q, call.region) /\ q \in InstanceIn(Clouds[k], call.region, q.id)
        BY <2>1, <4>2, <4>3
      <4>5. Gathered(settings, f) /\ h \in HostnamesOf(settings, v.records, f)
        BY <4>1, <4>3
      <4>6. EntryNamed(h, <<f.region, f.id>>)
        BY <1>1, <1>2, <2>3, <4>2, <4>4, <4>5, InstanceNamed
      <4>7. QED
        BY <4>1, <4>3, <4>6
    <3>3. QED
      BY <2>1, <3>1, <3>2 DEF Indexes, IndexesUpTo
  <2>5. QED
    BY <2>4 DEF IndexNamed, w
<1>5. QED
  BY <1>3, <1>4

\* Tags are asked for of the region whose instances were.
LEMMA TagsFollow ==
    ASSUME NEW todo, IsSequence(todo), CallsSound(todo), Followed(todo), todo # <<>>,
           Tail(todo) # <<>>, Head(Tail(todo)).call = "tags"
    PROVE  Head(todo).call = "instances" /\ Head(Tail(todo)).region = Head(todo).region
<1> DEFINE S == ToSet(todo)
           q == Tail(todo)
<1>1. todo \in Seq(S)
  BY DEF IsSequence
<1> HIDE DEF S
<1>2. /\ Len(todo) \in Nat \ {0} /\ q \in Seq(S) /\ Len(q) = Len(todo) - 1
      /\ \A i \in 1..Len(q) : q[i] = todo[i + 1]
  BY <1>1, EmptySeq, HeadTailProperties
<1>3. Head(todo) = todo[1] /\ Head(q) = q[1] /\ Len(q) \in Nat \ {0}
  BY <1>1, <1>2, EmptySeq
<1>4. Head(q) = todo[2] /\ 1 \in 1..Len(todo) /\ 1 + 1 = 2
  BY <1>2, <1>3
<1>5. Head(todo).call = "instances"
  BY TailSound
<1>6. QED
  BY <1>3, <1>4, <1>5 DEF Followed

LEMMA ReadingGoesOn ==
    ASSUME InventoryInv, NamedInv, NEW p \in Process, GoesOn(p), work'[p].todo # <<>>
    PROVE  Reading(settings, work'[p])
<1> DEFINE v == work[p]
           w == work'[p]
           call == Head(v.todo)
<1>1. /\ v.todo # <<>> /\ w.todo = (IF w.asked = 0 THEN Tail(v.todo) ELSE v.todo) /\ w.todo # <<>>
      /\ Used(v, w) /\ world \in DOMAIN Clouds
      /\ IsSequence(v.todo) /\ CallsSound(v.todo) /\ Followed(v.todo) /\ AskedSound(settings, v)
      /\ Reading(settings, v) /\ Counted(world)
  BY DEF GoesOn, NamedInv, RunNamed, RunSound, InventoryInv, WorkSound
<1> SUFFICES Reading(settings, w)
  OBVIOUS
<1> HIDE DEF v, w
<1>2. Head(w.todo).call = "tags" \/ w.asked # 0 =>
          call.call = "instances" /\ Head(w.todo).region = call.region
  <2>1. CASE w.asked = 0
    BY <1>1, <2>1, TagsFollow
  <2>2. CASE w.asked # 0
    BY <1>1, <2>2 DEF Used
  <2>3. QED
    BY <2>1, <2>2
<1>3. CASE call.call = "records"
  <2>1. w.records = Records(settings, Clouds[world])
    BY <1>1, <1>3 DEF Used
  <2>2. QED
    BY <1>1, <1>2, <1>3, <2>1 DEF Reading
<1>4. CASE call.call # "records"
  <2>1. PICK i \in DOMAIN Clouds :
            /\ Counted(i) /\ (settings.route53 => v.records = Records(settings, Clouds[i]))
            /\ v.asked # 0 => \A j \in DOMAIN v.heard :
                  \E k \in DOMAIN Clouds :
                     Counted(k) /\ i <= k /\ v.heard[j] \in InstanceIn(Clouds[k], call.region, v.heard[j].id)
    BY <1>1, <1>4 DEF Reading
  <2>2. w.records = v.records
    BY <1>1, <1>4 DEF Used
  <2>3. ASSUME call.call = "instances", NEW j \in DOMAIN w.heard
        PROVE  \E k \in DOMAIN Clouds :
                  Counted(k) /\ i <= k /\ w.heard[j] \in InstanceIn(Clouds[k], call.region, w.heard[j].id)
    <3> DEFINE all == Resources("instance", call.region)
               Y == {y \in ToSet(v.heard) \cup ToSet(all) :
                        \E k \in DOMAIN Clouds :
                           Counted(k) /\ i <= k /\ y \in InstanceIn(Clouds[k], call.region, y.id)}
    <3>1. PICK answer : answer = ListedBy(Listings(settings)[v.asked + 1], all)
      OBVIOUS
    <3>2. w.heard = IF v.asked = 0 THEN answer ELSE v.heard \o answer
      BY <1>1, <2>3, <3>1 DEF Used
    <3>3. IsSequence(all) /\ ToSet(all) = ResourcesOf("instance", call.region, Clouds[world])
      BY <1>1, ResourcesHave
    <3>4. i <= world
      BY <2>1 DEF Counted
    <3>5. ToSet(all) \subseteq Y
      BY <1>1, <3>3, <3>4 DEF InstanceIn
    <3>6. answer \in Seq(Y)
      <4>1. answer \in Seq(ToSet(all))
        BY <3>1, <3>3, ListedAre
      <4>2. QED
        BY <3>5, <4>1, SequenceWider
    <3>7. v.asked # 0 => v.heard \in Seq(Y)
      <4>1. ASSUME v.asked # 0 PROVE v.heard \in Seq(ToSet(v.heard)) /\ ToSet(v.heard) \subseteq Y
        BY <1>1, <2>1, <4>1 DEF AskedSound, Needs, IsSequence, ToSet
      <4>2. QED
        BY <4>1, SequenceWider
    <3>8. w.heard \in Seq(Y)
      BY <3>2, <3>6, <3>7, JoinedHas
    <3> HIDE DEF Y
    <3>9. w.heard[j] \in Y
      BY <2>3, <3>8, LenProperties
    <3>10. QED
      BY <3>9 DEF Y
  <2>4. QED
    BY <1>1, <1>2, <2>1, <2>2, <2>3 DEF Reading
<1>5. QED
  BY <1>3, <1>4

\* A refresh reads the records first.
LEMMA ReadingByPlan ==
    ASSUME InventoryInv, NamedInv, NEW w, w.todo = Plan(settings), w.todo # <<>>, w.asked = 0
    PROVE  Reading(settings, w)
<1>1. IsSequence(Plan(settings)) /\ PlanSound(Plan(settings)) /\ Len(Plan(settings)) \in Nat
  BY SettingsAre, PlanIsSound, SequenceHas
<1>2. Head(w.todo).call # "tags"
  <2>1. Len(Plan(settings)) > 0
    BY <1>1, EmptySeq DEF IsSequence
  <2>2. QED
    BY <1>1, <2>1, EmptySeq DEF PlanSound
<1>3. settings.route53 => Head(w.todo).call = "records"
  BY SettingsAre, PlanPends
<1>4. Counted(world) /\ world \in DOMAIN Clouds
  BY DEF NamedInv, InventoryInv
<1>5. QED
  BY <1>2, <1>3, <1>4 DEF Reading

-----------------------------------------------------------------------------
LEMMA NamedOfRun ==
    ASSUME IdentifiersApart, OneThingChanges, InventoryInv, NamedInv, NEW p \in Process,
           Begins(p) \/ GoesOn(p) \/ Writes(p) \/ LooksUp(p) \/ \E printed : Finishes(p, printed)
    PROVE  RunNamed(phase[p], work[p], output[p])'
<1>1. /\ RunSound(phase[p], work[p]) /\ IndexNamed(work[p].book.index)
      /\ phase[p] = "fetching" => work[p].wanted \in DOMAIN work[p].book.index
      /\ work[p].todo # <<>> => Reading(settings, work[p])
      /\ output[p].kind = "host" => <<output[p].host, output[p].info.id>> \in named
      /\ Readable(index) => IndexNamed(index.index)
      /\ phase \in [Process -> Phase] /\ output = [q \in Process |-> output[q]]
      /\ work = [q \in Process |-> work[q]]
  BY DEF NamedInv, RunNamed, InventoryInv
<1>2. settings' = settings /\ world' = world /\ named' = named
  BY DEF Begins, GoesOn, Writes, LooksUp, Finishes
<1>3. ASSUME IndexNamed(work'[p].book.index),
             phase'[p] = "fetching" => work'[p].wanted \in DOMAIN work'[p].book.index,
             work'[p].todo # <<>> => Reading(settings, work'[p]),
             output'[p].kind = "host" => <<output'[p].host, output'[p].info.id>> \in named
      PROVE  RunNamed(phase[p], work[p], output[p])'
  <2>1. RunSound(phase[p], work[p])'
    BY <1>1, RunsStaySound DEF RunSound, Followed
  <2>2. IndexNamed(work[p].book.index)'
    BY <1>2, <1>3 DEF IndexNamed, EntryNamed, Gone
  <2>3. (work[p].todo # <<>> => Reading(settings, work[p]))'
    BY <1>2, <1>3 DEF Reading, Counted
  <2>4. QED
    BY <1>2, <1>3, <2>1, <2>2, <2>3 DEF RunNamed
<1>4. CASE Begins(p)
  <2>1. /\ phase'[p] \in {"calling", "answering"} /\ output'[p] = NoOutput
        /\ work'[p].book = work[p].book
        /\ work'[p].todo = Plan(settings) \/ work'[p].todo = <<>>
        /\ work'[p].asked = 0
    BY <1>1, <1>4 DEF Begins
  <2>2. output'[p].kind # "host"
    BY <2>1 DEF NoOutput
  <2>3. work'[p].todo # <<>> => Reading(settings, work'[p])
    BY <2>1, ReadingByPlan
  <2>4. QED
    BY <1>1, <1>3, <2>1, <2>2, <2>3
<1>5. CASE GoesOn(p)
  <2>1. phase'[p] = "calling" /\ output' = output
    BY <1>5 DEF GoesOn
  <2>2. IndexNamed(work'[p].book.index)
    BY <1>5, IndexGoesOn
  <2>3. work'[p].todo # <<>> => Reading(settings, work'[p])
    BY <1>5, ReadingGoesOn
  <2>4. QED
    BY <1>1, <1>3, <2>1, <2>2, <2>3
<1>6. CASE Writes(p)
  <2>1. phase'[p] # "fetching" /\ work' = work /\ output' = output
    BY <1>1, <1>6 DEF Writes
  <2>2. QED
    BY <1>1, <1>3, <2>1
<1>7. CASE LooksUp(p)
  <2>1. output' = output /\ work[p].todo = <<>>
    BY <1>1, <1>7 DEF LooksUp, RunSound
  <2>2. IndexNamed(work'[p].book.index)
    BY <1>1, <1>7 DEF LooksUp
  <2>3. phase'[p] = "fetching" => work'[p].wanted \in DOMAIN work'[p].book.index
    BY <1>1, <1>7 DEF LooksUp
  <2>4. (work'[p].todo = Plan(settings) \/ work'[p].todo = <<>>) /\ work'[p].asked = 0
    BY <1>7, <2>1 DEF LooksUp
  <2>5. work'[p].todo # <<>> => Reading(settings, work'[p])
    BY <2>4, ReadingByPlan
  <2>6. QED
    BY <1>1, <1>3, <2>1, <2>2, <2>3, <2>5
<1>8. ASSUME NEW printed, Finishes(p, printed) PROVE RunNamed(phase[p], work[p], output[p])'
  <2>1. phase'[p] = "idle" /\ output'[p] = printed /\ work'[p] = Idle
    BY <1>1, <1>8 DEF Finishes, End
  <2>2. Idle.todo = <<>> /\ Idle.book.index = <<>> /\ DOMAIN <<>> = {}
    BY EmptySeq DEF Idle, EmptyBook
  <2>3. IndexNamed(work'[p].book.index)
    BY <2>1, <2>2 DEF IndexNamed
  <2>4. ASSUME printed.kind = "host" PROVE <<printed.host, printed.info.id>> \in named
    <3>1. PICK entry : entry = work[p].book.index[work[p].wanted]
      OBVIOUS
    <3>2. /\ phase[p] = "fetching" /\ printed.host = work[p].wanted /\ printed.info.id = entry[2]
          /\ InstanceIn(Clouds[world], entry[1], entry[2]) # {}
      BY <1>8, <2>4, <3>1 DEF Finishes
    <3>3. EntryNamed(work[p].wanted, entry)
      BY <1>1, <3>1, <3>2 DEF IndexNamed
    <3>4. ~Gone(entry[1], entry[2])
      <4>1. world \in DOMAIN Clouds /\ world >= world
        BY WorldsAre DEF InventoryInv
      <4>2. QED
        BY <3>2, <4>1 DEF Gone
    <3>5. QED
      BY <3>2, <3>3, <3>4 DEF EntryNamed
  <2>5. QED
    BY <1>3, <2>1, <2>2, <2>3, <2>4
<1>9. QED
  BY <1>4, <1>5, <1>6, <1>7, <1>8

LEMMA NamedIndexFile ==
    ASSUME InventoryInv, NamedInv, NEW p \in Process,
           Begins(p) \/ GoesOn(p) \/ Writes(p) \/ LooksUp(p) \/ \E printed : Finishes(p, printed)
    PROVE  Readable(index') => IndexNamed(index'.index)
<1>1. index' \in {index, Begun, Torn, work[p].book}
  BY DEF Begins, GoesOn, Writes, LooksUp, Finishes
<1>2. ~Readable(Begun) /\ ~Readable(Torn)
  BY DEF Readable
<1>3. IndexNamed(work[p].book.index) /\ (Readable(index) => IndexNamed(index.index))
  BY DEF NamedInv, RunNamed
<1>4. QED
  BY <1>1, <1>2, <1>3

\* What has been a name stays one, and what is gone stays so.
LEMMA NamedLater ==
    ASSUME InventoryInv, NEW later \in DOMAIN Clouds, later > world, settings' = settings,
           world' = later, named' = named \cup Names(settings, Clouds[later])
    PROVE  /\ Counted(world)'
           /\ \A i \in DOMAIN Clouds : Counted(i) => Counted(i)'
           /\ \A entries : IndexNamed(entries) => IndexNamed(entries)'
           /\ \A w : Reading(settings, w) => Reading(settings, w)'
<1>1. world \in Nat /\ later \in Nat \ {0} /\ DOMAIN Clouds \subseteq Nat
  BY WorldsAre DEF InventoryInv
<1>2. Counted(world)'
  BY <1>1 DEF Counted
<1>3. \A i : Counted(i) => Counted(i)'
  BY <1>1 DEF Counted
<1>4. \A region, id : Gone(region, id) => Gone(region, id)'
  BY <1>1 DEF Gone
<1>5. \A h, entry : EntryNamed(h, entry) => EntryNamed(h, entry)'
  BY <1>4 DEF EntryNamed
<1>6. \A entries : IndexNamed(entries) => IndexNamed(entries)'
  BY <1>5 DEF IndexNamed
<1>7. \A w : Reading(settings, w) => Reading(settings, w)'
  BY <1>3 DEF Reading
<1>8. QED
  BY <1>2, <1>3, <1>6, <1>7

LEMMA NamedKept ==
    ASSUME IdentifiersApart, OneThingChanges
    PROVE  InventoryInv /\ NamedInv /\ [Next]_vars => NamedInv'
<1> SUFFICES ASSUME InventoryInv, NamedInv, [Next]_vars PROVE NamedInv'
  OBVIOUS
<1>1. ASSUME NEW p \in Process, Start(p) \/ Step(p) \/ Crash(p) PROVE NamedInv'
  <2>1. Begins(p) \/ GoesOn(p) \/ Writes(p) \/ LooksUp(p) \/ \E printed : Finishes(p, printed)
    BY <1>1, RunSteps
  <2>2. settings' = settings /\ world' = world /\ named' = named
    BY <2>1 DEF Begins, GoesOn, Writes, LooksUp, Finishes
  <2>3. \A q \in Process \ {p} : phase'[q] = phase[q] /\ work'[q] = work[q]
    BY <2>1 DEF Begins, GoesOn, Writes, LooksUp, Finishes, End, InventoryInv
  <2>4. \A q \in Process \ {p} : output'[q] = output[q]
    BY <2>1 DEF Begins, GoesOn, Writes, LooksUp, Finishes, End, InventoryInv
  <2>5. RunNamed(phase[p], work[p], output[p])'
    BY <2>1, NamedOfRun
  <2>6. ASSUME NEW q \in Process \ {p} PROVE RunNamed(phase[q], work[q], output[q])'
    <3>1. RunNamed(phase[q], work[q], output[q])
      BY DEF NamedInv
    <3>2. phase'[q] = phase[q] /\ work'[q] = work[q] /\ output'[q] = output[q]
      BY <2>3, <2>4
    <3>3. RunSound(phase[q], work[q])'
      BY <3>1, <3>2 DEF RunNamed, RunSound, Followed
    <3>4. IndexNamed(work[q].book.index)'
      BY <2>2, <3>1, <3>2 DEF RunNamed, IndexNamed, EntryNamed, Gone
    <3>5. (work[q].todo # <<>> => Reading(settings, work[q]))'
      BY <2>2, <3>1, <3>2 DEF RunNamed, Reading, Counted
    <3>6. QED
      BY <2>2, <3>1, <3>2, <3>3, <3>4, <3>5 DEF RunNamed
  <2>7. Counted(world)'
    BY <2>2 DEF NamedInv, Counted
  <2>8. (Readable(index) => IndexNamed(index.index))'
    BY <2>1, <2>2, NamedIndexFile DEF Readable, IndexNamed, EntryNamed, Gone
  <2>9. QED
    BY <2>5, <2>6, <2>7, <2>8 DEF NamedInv
<1>2. CASE CloudChanges
  <2>1. PICK later \in DOMAIN Clouds : later > world /\ world' = later
    <3>1. world' \in (world + 1)..Len(Clouds) /\ world \in DOMAIN Clouds
      BY <1>2 DEF CloudChanges, InventoryInv
    <3>2. DOMAIN Clouds = 1..Len(Clouds) /\ Len(Clouds) \in Nat
      BY WorldsAre
    <3>3. QED
      BY <3>1, <3>2
  <2>2. /\ settings' = settings /\ named' = named \cup Names(settings, Clouds[later])
        /\ phase' = phase /\ work' = work /\ output' = output /\ index' = index
    BY <1>2, <2>1 DEF CloudChanges, files
  <2>3. /\ Counted(world)'
        /\ \A entries : IndexNamed(entries) => IndexNamed(entries)'
        /\ \A w : Reading(settings, w) => Reading(settings, w)'
    BY <2>1, <2>2, NamedLater
  <2>4. ASSUME NEW p \in Process PROVE RunNamed(phase[p], work[p], output[p])'
    <3>1. RunNamed(phase[p], work[p], output[p])
      BY DEF NamedInv
    <3>2. RunSound(phase[p], work[p])'
      BY <2>2, <3>1 DEF RunNamed, RunSound, Followed
    <3>3. IndexNamed(work[p].book.index)'
      BY <2>2, <2>3, <3>1 DEF RunNamed
    <3>4. (work[p].todo # <<>> => Reading(settings, work[p]))'
      BY <2>2, <2>3, <3>1 DEF RunNamed
    <3>5. QED
      BY <2>2, <3>1, <3>2, <3>3, <3>4 DEF RunNamed
  <2>5. (Readable(index) => IndexNamed(index.index))'
    BY <2>2, <2>3 DEF NamedInv, Readable
  <2>6. QED
    BY <2>3, <2>4, <2>5 DEF NamedInv
<1>3. CASE CacheExpires \/ UNCHANGED vars
  <2>1. /\ settings' = settings /\ world' = world /\ named' = named /\ index' = index
        /\ phase' = phase /\ work' = work /\ output' = output
    BY <1>3 DEF CacheExpires, vars, files
  <2>2. QED
    BY <2>1 DEF NamedInv, RunNamed, RunSound, Followed, Readable, IndexNamed, EntryNamed, Gone,
                Reading, Counted
<1>4. QED
  BY <1>1, <1>2, <1>3 DEF Next

LEMMA InitNamed == Init => NamedInv
<1> SUFFICES ASSUME Init PROVE NamedInv
  OBVIOUS
<1>1. /\ Idle.todo = <<>> /\ Len(<<>>) = 0 /\ NoOutput.kind = "none"
      /\ Idle.book.index = <<>> /\ DOMAIN <<>> = {}
  BY EmptySeq DEF Idle, EmptyBook, NoOutput
<1>2. Counted(world)
  BY DEF Init, Counted
<1>3. ~Readable(index)
  BY DEF Init, Readable
<1>4. ASSUME NEW p \in Process PROVE RunNamed(phase[p], work[p], output[p])
  BY <1>1 DEF Init, RunNamed, RunSound, Followed, IndexNamed
<1>5. QED
  BY <1>2, <1>3, <1>4 DEF NamedInv

(* The invariant of the index, in memory and in its file: an entry has been *)
(* a name, or is of an instance that will not be there when it is asked for. *)
THEOREM NamedInvariant ==
    ASSUME IdentifiersApart, OneThingChanges
    PROVE  Spec => []NamedInv
<1>1. Init => NamedInv
  BY InitNamed
<1>2. InventoryInv /\ NamedInv /\ [Next]_vars => NamedInv'
  BY NamedKept
<1>3. QED
  BY <1>1, <1>2, InventoryInvariant, PTL DEF Spec

(* What get_host_info prints of a host is of an instance that has had that *)
(* name, however old the index file is, if no other resource has an        *)
(* instance's identifier and what names an instance changes in one way.    *)
THEOREM AnswersAreNamed ==
    ASSUME IdentifiersApart, OneThingChanges
    PROVE  Spec => []AnswerIsNamed
<1>1. NamedInv => AnswerIsNamed
  BY DEF NamedInv, RunNamed, AnswerIsNamed
<1>2. Spec => []NamedInv
  BY NamedInvariant
<1>3. QED
  BY <1>1, <1>2, PTL
=============================================================================
