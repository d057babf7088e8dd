---------------------------- MODULE DesktopProofs ----------------------------
(***************************************************************************)
(* For any vaults, passwords, delays and numbers of attempts and inputs.   *)
(* TimeInv relates the clipboard, the timers and the lock: a secret in the *)
(* clipboard has a timer that runs out in time, also when it is one of an  *)
(* earlier copy. TalkInv relates the attempts to open the vault to the     *)
(* events that tell the dialog of them: only the last attempt may be under *)
(* way, and only while the dialog is busy. AskInv relates the row that is  *)
(* chosen, the rows on the screen and the question that is open. ScreenInv *)
(* relates what the window shows to the vault: the pane, the rows and the  *)
(* filter, what is revealed, and the entries that can still be shown after *)
(* a change that failed. DeskTypes and DialogInv add the rest of the types *)
(* and why the dialog is busy. The first lemmas are about the list alone:  *)
(* the positions the filter keeps are numbered by their order without a    *)
(* gap.                                                                    *)
(***************************************************************************)
EXTENDS Desktop, SequenceTheorems, FiniteSetTheorems, TLAPS

-----------------------------------------------------------------------------
(* The list: what a page shows of the entries. *)

Row(views, st, i) == 1 + Cardinality({j \in Kept(views, st) : Precedes(views, st, j, i)})

LEMMA KeptPositions ==
  ASSUME NEW views \in Seq(View), NEW st
  PROVE  /\ Kept(views, st) \subseteq 1..Len(views) /\ Len(views) \in Nat
         /\ \A i \in 1..Len(views) : views[i] \in View /\ views[i].name \in Int
         /\ IsFiniteSet(Kept(views, st)) /\ Cardinality(Kept(views, st)) \in Nat
<1>1. /\ DOMAIN views = 1..Len(views) /\ Len(views) \in Nat
      /\ \A i \in 1..Len(views) : views[i] \in View
  OBVIOUS
<1>2. Kept(views, st) \subseteq 1..Len(views)
  BY <1>1 DEF Kept
<1>3. IsFiniteSet(1..Len(views))
  BY <1>1, FS_Interval
<1>4. IsFiniteSet(Kept(views, st))
  BY <1>2, <1>3, FS_Subset
<1>5. \A i \in 1..Len(views) : views[i].name \in Int
  <2>1. \A i \in 1..Len(views) : views[i].name \in Names
    BY <1>1 DEF View
  <2>2. Names \subseteq Int
    BY NamesAreNumbers
  <2> QED
    BY <2>1, <2>2
<1> QED
  BY <1>1, <1>2, <1>4, <1>5, FS_CardinalityType

\* Any two entries of a list are in one order, whatever it is sorted by.
LEMMA PrecedesIsAnOrder ==
  ASSUME NEW views \in Seq(View), NEW st
  PROVE  \A i, j, k \in Kept(views, st) :
           /\ ~Precedes(views, st, i, i)
           /\ i # j => Precedes(views, st, i, j) \/ Precedes(views, st, j, i)
           /\ Precedes(views, st, i, j) /\ Precedes(views, st, j, k) => Precedes(views, st, i, k)
<1> SUFFICES ASSUME NEW i \in Kept(views, st), NEW j \in Kept(views, st), NEW k \in Kept(views, st)
             PROVE  /\ ~Precedes(views, st, i, i)
                    /\ i # j => Precedes(views, st, i, j) \/ Precedes(views, st, j, i)
                    /\ Precedes(views, st, i, j) /\ Precedes(views, st, j, k)
                         => Precedes(views, st, i, k)
  OBVIOUS
<1>1. /\ i \in Int /\ j \in Int /\ k \in Int
      /\ views[i].name \in Int /\ views[j].name \in Int /\ views[k].name \in Int
  BY KeptPositions
<1> QED
  BY <1>1 DEF Precedes

\* Every kept entry has a row of its own, and every row has its entry.
LEMMA RowsOfKept ==
  ASSUME NEW views \in Seq(View), NEW st
  PROVE  /\ \A i \in Kept(views, st) : Row(views, st, i) \in 1..Cardinality(Kept(views, st))
         /\ \A i, j \in Kept(views, st) :
              Precedes(views, st, i, j) => Row(views, st, i) < Row(views, st, j)
         /\ \A k \in 1..Cardinality(Kept(views, st)) :
              \E i \in Kept(views, st) : Row(views, st, i) = k
<1> DEFINE K == Kept(views, st)
           n == Cardinality(K)
           Before(i) == {j \in K : Precedes(views, st, j, i)}
<1>1. IsFiniteSet(K) /\ n \in Nat
  BY KeptPositions
<1>2. \A i, j, k \in K :
           /\ ~Precedes(views, st, i, i)
           /\ i # j => Precedes(views, st, i, j) \/ Precedes(views, st, j, i)
           /\ Precedes(views, st, i, j) /\ Precedes(views, st, j, k) => Precedes(views, st, i, k)
  BY PrecedesIsAnOrder
<1>3. \A i \in K : Row(views, st, i) = 1 + Cardinality(Before(i))
  BY DEF Row
<1> HIDE DEF K
<1>4. ASSUME NEW i \in K
      PROVE  /\ IsFiniteSet(Before(i)) /\ Cardinality(Before(i)) \in Nat
             /\ Cardinality(Before(i)) < n
  <2>1. Before(i) \in SUBSET K /\ Before(i) # K
    BY <1>2, <1>4
  <2> QED
    BY <1>1, <2>1, FS_Subset, FS_CardinalityType
<1>5. ASSUME NEW i \in K, NEW j \in K, Precedes(views, st, i, j)
      PROVE  Cardinality(Before(i)) < Cardinality(Before(j))
  <2>1. Before(i) \in SUBSET Before(j)
    BY <1>2, <1>5
  <2>2. i \in Before(j) /\ i \notin Before(i)
    BY <1>2, <1>5
  <2>3. Before(i) # Before(j)
    BY <2>2
  <2> HIDE DEF Before
  <2> QED
    BY <1>4, <2>1, <2>3, FS_Subset
<1>6. ASSUME NEW k \in 1..n PROVE \E i \in K : 1 + Cardinality(Before(i)) = k
  <2> HIDE DEF Before, n
  <2> DEFINE f == [i \in K |-> 1 + Cardinality(Before(i))]
  <2>1. f \in [K -> 1..n]
    BY <1>1, <1>4
  <2>2. ASSUME NEW i \in K, NEW j \in K, f[i] = f[j] PROVE i = j
    <3> SUFFICES ASSUME i # j PROVE FALSE
      OBVIOUS
    <3>1. Cardinality(Before(i)) = Cardinality(Before(j))
      BY <1>4, <2>2
    <3>2. Precedes(views, st, i, j) \/ Precedes(views, st, j, i)
      BY <1>2
    <3> QED
      BY <1>4, <1>5, <3>1, <3>2
  <2>3. f \in Injection(K, 1..n)
    BY <2>1, <2>2 DEF Injection, IsInjective
  <2>4. IsFiniteSet(1..n) /\ Cardinality(1..n) = n
    BY <1>1, FS_Interval
  <2>5. f \in Surjection(K, 1..n)
    <3> HIDE DEF f
    <3> QED
      BY <1>1, <2>3, <2>4, FS_Injection DEF n
  <2>6. \E i \in K : f[i] = k
    BY <2>5 DEF Surjection
  <2> QED
    BY <2>6
<1> HIDE DEF Before, n
<1>7. /\ \A i \in K : Row(views, st, i) \in 1..n
      /\ \A i, j \in K : Precedes(views, st, i, j) => Row(views, st, i) < Row(views, st, j)
  BY <1>1, <1>3, <1>4, <1>5
<1>8. \A k \in 1..n : \E i \in K : Row(views, st, i) = k
  BY <1>3, <1>6
<1> QED
  BY <1>7, <1>8 DEF K, n

\* The list holds every kept entry once, in order, and nothing else.
LEMMA FilterLists ==
  ASSUME NEW views \in Seq(View), NEW st
  PROVE  /\ Filter(views, st) \in Seq(View)
         /\ Len(Filter(views, st)) = Cardinality(Kept(views, st))
         /\ \A k \in 1..Len(Filter(views, st)) :
              \E i \in Kept(views, st) : Filter(views, st)[k] = views[i]
         /\ \A i \in Kept(views, st) :
              /\ Row(views, st, i) \in 1..Len(Filter(views, st))
              /\ Filter(views, st)[Row(views, st, i)] = views[i]
<1> DEFINE K == Kept(views, st)
           n == Cardinality(K)
           at(k) == CHOOSE i \in K : Row(views, st, i) = k
<1>1. n \in Nat /\ K \subseteq 1..Len(views) /\ \A i \in 1..Len(views) : views[i] \in View
  BY KeptPositions
<1>2. Filter(views, st) = [k \in 1..n |-> views[at(k)]]
  BY DEF Filter, Row
<1>3. ASSUME NEW k \in 1..n PROVE at(k) \in K /\ Row(views, st, at(k)) = k
  BY RowsOfKept
<1>4. ASSUME NEW i \in K
      PROVE  Row(views, st, i) \in 1..n /\ at(Row(views, st, i)) = i
  <2>1. Row(views, st, i) \in 1..n
    BY RowsOfKept
  <2>2. at(Row(views, st, i)) \in K /\ Row(views, st, at(Row(views, st, i))) = Row(views, st, i)
    BY <1>3, <2>1
  <2> HIDE DEF at, K
  <2>3. \A j \in K : j # i => Row(views, st, j) # Row(views, st, i)
    <3> SUFFICES ASSUME NEW j \in K, j # i PROVE Row(views, st, j) # Row(views, st, i)
      OBVIOUS
    <3>1. /\ Row(views, st, i) \in Int /\ Row(views, st, j) \in Int
          /\ Precedes(views, st, i, j) => Row(views, st, i) < Row(views, st, j)
          /\ Precedes(views, st, j, i) => Row(views, st, j) < Row(views, st, i)
          /\ Precedes(views, st, i, j) \/ Precedes(views, st, j, i)
      BY RowsOfKept, PrecedesIsAnOrder DEF K
    <3> QED
      BY <3>1
  <2> QED
    BY <2>1, <2>2, <2>3
<1> HIDE DEF at, K
<1> HIDE DEF n
<1>5. Filter(views, st) \in Seq(View) /\ Len(Filter(views, st)) = n
  <2>1. \A k \in 1..n : views[at(k)] \in View
    BY <1>1, <1>3
  <2> QED
    BY <1>1, <1>2, <2>1
<1>6. \A k \in 1..n : \E i \in K : Filter(views, st)[k] = views[i]
  BY <1>2, <1>3
<1>7. \A i \in K : Row(views, st, i) \in 1..n /\ Filter(views, st)[Row(views, st, i)] = views[i]
  BY <1>2, <1>4
<1> QED
  BY <1>5, <1>6, <1>7 DEF K, n

LEMMA PageSizeIs == PageSize \in Nat /\ PageSize > 0
<1>1. PageSize \in Nat \ {0}
  BY ListAssumption, Zenon
<1> QED
  BY <1>1

\* There is always a page, and the last one is not empty unless the list is.
LEMMA PagesProperties ==
  ASSUME NEW n \in Nat
  PROVE  /\ Pages(n) \in Nat \ {0}
         /\ n > 0 => (Pages(n) - 1) * PageSize < n
         /\ n <= Pages(n) * PageSize
<1>1. PageSize \in Nat /\ PageSize > 0
  BY PageSizeIs
<1>2. CASE n = 0
  BY <1>1, <1>2 DEF Pages
<1>3. CASE n # 0
  <2> DEFINE q == (n + PageSize - 1) \div PageSize
             r == (n + PageSize - 1) % PageSize
  <2>1. /\ q \in Int /\ r \in 0..PageSize - 1
        /\ n + PageSize - 1 = PageSize * q + r
    BY <1>1, <1>3
  <2>2. Pages(n) = q
    BY <1>3 DEF Pages
  <2> HIDE DEF q, r
  <2>3. PageSize * q = q * PageSize /\ (q - 1) * PageSize = PageSize * q - PageSize
    BY <1>1, <2>1
  <2>4. PageSize * q >= n /\ PageSize * q < n + PageSize
    BY <1>1, <2>1
  <2>5. q >= 1
    <3> SUFFICES ASSUME q <= 0 PROVE FALSE
      BY <2>1
    <3>1. 0 - q \in Nat
      BY <2>1
    <3>2. PageSize * (0 - q) \in Nat
      BY <1>1, <3>1
    <3>3. PageSize * (0 - q) = 0 - PageSize * q
      BY <1>1, <2>1
    <3> QED
      BY <1>1, <1>3, <2>1, <2>4, <3>2, <3>3
  <2> QED
    BY <1>1, <1>3, <2>1, <2>2, <2>3, <2>4, <2>5
<1> QED
  BY <1>2, <1>3

\* What is selected, and on which page the list is, changes nothing in the list.
LEMMA FilterDependsOn ==
  ASSUME NEW views \in Seq(View), NEW st \in ListState, NEW su \in ListState,
         su.section = st.section, su.category = st.category,
         su.sort = st.sort, su.query = st.query
  PROVE  Filter(views, su) = Filter(views, st)
<1>1. Kept(views, su) = Kept(views, st)
  BY DEF Kept
<1>2. \A i, j : Precedes(views, su, i, j) = Precedes(views, st, i, j)
  BY DEF Precedes
<1>3. \A i : Row(views, su, i) = Row(views, st, i)
  BY <1>1, <1>2 DEF Row
<1>4. /\ Filter(views, su) \in Seq(View) /\ Filter(views, st) \in Seq(View)
      /\ Len(Filter(views, su)) = Len(Filter(views, st))
  BY <1>1, FilterLists
<1>5. ASSUME NEW k \in 1..Len(Filter(views, st)) PROVE Filter(views, su)[k] = Filter(views, st)[k]
  <2>1. PICK i \in Kept(views, st) : Row(views, st, i) = k
    BY <1>5, RowsOfKept, FilterLists
  <2> QED
    BY <1>1, <1>3, <2>1, FilterLists
<1> QED
  BY <1>4, <1>5, SeqEqual

LEMMA PagedIsAPage ==
  ASSUME NEW views \in Seq(View), NEW st \in ListState
  PROVE  /\ Paged(views, st) \in ListState
         /\ Filter(views, Paged(views, st)) = Filter(views, st)
         /\ Paged(views, st).page <= Pages(Len(Filter(views, st))) - 1
         /\ \A f \in {"section", "category", "sort", "query", "selected"} :
              Paged(views, st)[f] = st[f]
<1> DEFINE last == Pages(Len(Filter(views, st))) - 1
<1>1. Len(Filter(views, st)) \in Nat
  BY FilterLists
<1>2. last \in Nat
  <2>1. Pages(Len(Filter(views, st))) \in Nat \ {0}
    BY <1>1, PagesProperties
  <2> QED
    BY <2>1
<1>3. Paged(views, st) = IF st.page > last THEN [st EXCEPT !.page = last] ELSE st
  BY DEF Paged, WithPage
<1> HIDE DEF last
<1>4. st.page \in Nat
  BY DEF ListState
<1>5. /\ Paged(views, st) \in ListState /\ Paged(views, st).page <= last
      /\ \A f \in {"section", "category", "sort", "query", "selected"} :
           Paged(views, st)[f] = st[f]
  BY <1>2, <1>3, <1>4 DEF ListState
<1>6. Filter(views, Paged(views, st)) = Filter(views, st)
  BY <1>5, FilterDependsOn
<1> QED
  BY <1>5, <1>6 DEF last

\* A page holds entries that the list holds, and a page within bounds is empty only
\* if the list is.
LEMMA PageHolds ==
  ASSUME NEW views \in Seq(View), NEW st \in ListState
  PROVE  /\ PageOf(views, st) \in Seq(View)
         /\ \A k \in 1..Len(PageOf(views, st)) :
              \E i \in 1..Len(views) : PageOf(views, st)[k] = views[i]
         /\ st.page <= Pages(Len(Filter(views, st))) - 1 /\ PageOf(views, st) = <<>>
              => Filter(views, st) = <<>>
<1> DEFINE found == Filter(views, st)
           n == Len(found)
           first == st.page * PageSize
           end == IF first + PageSize < n THEN first + PageSize ELSE n
<1>1. PageSize \in Nat /\ PageSize > 0
  BY PageSizeIs
<1>2. st.page \in Nat /\ first \in Nat
  BY <1>1 DEF ListState
<1>3. /\ found \in Seq(View) /\ n \in Nat
      /\ \A k \in 1..n : \E i \in 1..Len(views) : found[k] = views[i]
  BY FilterLists, KeptPositions
<1>4. PageOf(views, st) = SubSeq(found, first + 1, end)
  BY DEF PageOf
<1>5. n > 0 => (Pages(n) - 1) * PageSize < n
  BY <1>3, PagesProperties
<1>6. Pages(n) \in Nat \ {0}
  BY <1>3, PagesProperties
<1> HIDE DEF found, n, first
<1>7. end \in Nat /\ end <= n
  BY <1>1, <1>2, <1>3
<1>8. /\ PageOf(views, st) \in Seq(View)
      /\ Len(PageOf(views, st)) = IF first + 1 <= end THEN end - (first + 1) + 1 ELSE 0
      /\ \A k \in 1..end - (first + 1) + 1 : PageOf(views, st)[k] = found[(first + 1) + k - 1]
  <2>1. \A k \in (first + 1)..end : found[k] \in View
    BY <1>2, <1>3, <1>7 DEF n
  <2> HIDE DEF end
  <2> QED
    BY <1>2, <1>4, <1>7, <2>1, SubSeqProperties
<1>9. ASSUME NEW k \in 1..Len(PageOf(views, st))
      PROVE  \E i \in 1..Len(views) : PageOf(views, st)[k] = views[i]
  <2> HIDE DEF end
  <2>1. first + 1 <= end /\ Len(PageOf(views, st)) = end - (first + 1) + 1
    BY <1>2, <1>7, <1>8, <1>9
  <2>2. k \in 1..end - (first + 1) + 1
    BY <1>9, <2>1
  <2>3. (first + 1) + k - 1 \in 1..n
    <3>1. k \in Nat /\ k >= 1 /\ k <= end - first
      BY <1>2, <1>7, <2>2
    <3>2. first \in Nat /\ end \in Nat /\ n \in Nat /\ end <= n
      BY <1>2, <1>3, <1>7
    <3> QED
      BY <3>1, <3>2
  <2> QED
    BY <1>3, <1>8, <2>2, <2>3
<1>10. ASSUME st.page <= Pages(n) - 1, PageOf(views, st) = <<>> PROVE found = <<>>
  <2>1. ~(first + 1 <= end)
    <3> HIDE DEF end
    <3> QED
      BY <1>2, <1>7, <1>8, <1>10
  <2>2. n <= first
    BY <1>1, <1>2, <1>3, <2>1
  <2>3. first <= (Pages(n) - 1) * PageSize
    <3>1. /\ Pages(n) - 1 - st.page \in Nat /\ (Pages(n) - 1 - st.page) * PageSize \in Nat
      BY <1>1, <1>2, <1>6, <1>10
    <3>2. (Pages(n) - 1 - st.page) * PageSize = (Pages(n) - 1) * PageSize - first
      BY <1>1, <1>2, <1>6 DEF first
    <3>3. (Pages(n) - 1) * PageSize \in Int
      BY <1>1, <1>6
    <3> QED
      BY <1>2, <3>1, <3>2, <3>3
  <2>4. n = 0
    <3>1. (Pages(n) - 1) * PageSize \in Int
      BY <1>1, <1>6
    <3> QED
      BY <1>2, <1>3, <1>5, <2>2, <2>3, <3>1
  <2> QED
    BY <1>3, <2>4, EmptySeq DEF n
<1> QED
  BY <1>8, <1>9, <1>10 DEF found, n

\* The page an entry is on.
LEMMA PageOfRow ==
  ASSUME NEW n \in Nat, NEW row \in 1..n
  PROVE  \E p \in 0..Pages(n) - 1, m \in 0..PageSize - 1 : row - 1 = p * PageSize + m
<1> DEFINE p == (row - 1) \div PageSize
           m == (row - 1) % PageSize
<1>1. PageSize \in Nat /\ PageSize > 0
  BY PageSizeIs
<1>2. /\ p \in Int /\ m \in 0..PageSize - 1 /\ row - 1 = PageSize * p + m
  BY <1>1
<1>3. Pages(n) \in Nat /\ n <= Pages(n) * PageSize
  BY PagesProperties
<1> HIDE DEF p, m
<1>4. PageSize * p = p * PageSize /\ PageSize * p \in Int
  BY <1>1, <1>2
<1>5. p >= 0
  <2> SUFFICES ASSUME p <= 0 - 1 PROVE FALSE
    BY <1>2
  <2>1. 0 - 1 - p \in Nat /\ PageSize * (0 - 1 - p) \in Nat
    BY <1>1, <1>2
  <2>2. PageSize * (0 - 1 - p) = 0 - PageSize - PageSize * p
    BY <1>1, <1>2
  <2> QED
    BY <1>1, <1>2, <1>4, <2>1, <2>2
<1>6. p <= Pages(n) - 1
  <2> SUFFICES ASSUME p >= Pages(n) PROVE FALSE
    BY <1>2, <1>3
  <2>1. p - Pages(n) \in Nat /\ (p - Pages(n)) * PageSize \in Nat
    BY <1>1, <1>2, <1>3
  <2>2. (p - Pages(n)) * PageSize = p * PageSize - Pages(n) * PageSize
    BY <1>1, <1>2, <1>3
  <2>3. Pages(n) * PageSize \in Int
    BY <1>1, <1>3
  <2> QED
    BY <1>2, <1>3, <1>4, <2>1, <2>2, <2>3
<1> QED
  BY <1>2, <1>3, <1>4, <1>5, <1>6

\* For any vault and any list: an entry the filter keeps is on one of the pages the
\* pager counts, so none is out of the reader's reach (VaultListViewModel.page, _filter).
THEOREM EveryEntryHasAPage ==
  ASSUME NEW views \in Seq(View), NEW st \in ListState, NEW i \in Kept(views, st)
  PROVE  \E p \in 0..Pages(Len(Filter(views, st))) - 1 :
           LET page == PageOf(views, WithPage(st, p)) IN
           \E k \in 1..Len(page) : page[k] = views[i]
<1> DEFINE found == Filter(views, st)
           n == Len(found)
           row == Row(views, st, i)
<1>1. /\ found \in Seq(View) /\ n \in Nat /\ row \in 1..n /\ found[row] = views[i]
  BY FilterLists
<1>2. PageSize \in Nat /\ PageSize > 0
  BY PageSizeIs
<1>3. PICK p \in 0..Pages(n) - 1, m \in 0..PageSize - 1 : row - 1 = p * PageSize + m
  BY <1>1, PageOfRow
<1>4. p \in Nat /\ p * PageSize \in Nat
  BY <1>2
<1> DEFINE su == WithPage(st, p)
           page == PageOf(views, su)
           first == p * PageSize
           end == IF first + PageSize < n THEN first + PageSize ELSE n
<1>5. /\ su \in ListState /\ su.page = p
      /\ su.section = st.section /\ su.category = st.category
      /\ su.sort = st.sort /\ su.query = st.query
  BY <1>4 DEF WithPage, ListState
<1> HIDE DEF su
<1>6. Filter(views, su) = found
  BY <1>5, FilterDependsOn
<1> HIDE DEF found, row
<1>7. page = SubSeq(found, first + 1, end)
  BY <1>5, <1>6 DEF PageOf
<1> HIDE DEF page, first
<1>8. /\ end \in Nat /\ end <= n /\ row <= end /\ first \in Nat /\ row = first + m + 1
  BY <1>1, <1>2, <1>3, <1>4 DEF first
<1> HIDE DEF end
<1>9. \A k \in (first + 1)..end : found[k] \in View
  BY <1>1, <1>8
<1> HIDE DEF n
<1>10. /\ Len(page) = IF first + 1 <= end THEN end - (first + 1) + 1 ELSE 0
       /\ \A k \in 1..end - (first + 1) + 1 : page[k] = found[(first + 1) + k - 1]
  BY <1>7, <1>8, <1>9, SubSeqProperties
<1>11. /\ m + 1 \in 1..Len(page) /\ m + 1 \in 1..end - (first + 1) + 1
       /\ (first + 1) + (m + 1) - 1 = row
  BY <1>8, <1>10
<1>12. page[m + 1] = views[i]
  BY <1>1, <1>10, <1>11
<1> QED
  BY <1>11, <1>12 DEF page, su, n, found

-----------------------------------------------------------------------------
(* The clipboard and the lock. *)

USE WindowAssumption, UnlockAssumption

Covered == \E t \in timers : t + clip.age <= ClearSeconds

TimeInv ==
  /\ clip = [of |-> clip.of, age |-> clip.age] /\ clip.age \in Nat
  /\ timers \subseteq 0..ClearSeconds /\ idle \in 0..LockSeconds
  /\ session = "none" => ~open /\ idle = 0 /\ clip = NoClip
  /\ locked # "no" => session = "locked" /\ clip = NoClip
  /\ open /\ clip # NoClip => Covered
  /\ LocksWhenIdle

timing == <<session, open, locked, clip, timers, idle, tickDue>>

\* An input that neither copies nor locks restarts the idle time.
Quiet == open /\ idle' = 0 /\ UNCHANGED <<session, open, locked, clip, timers, tickDue>>

LEMMA TimeInit == Init => TimeInv
BY DEF Init, WindowInit, TimeInv, LocksWhenIdle, NoClip, NoName

LEMMA StutterKeepsTime == TimeInv /\ UNCHANGED timing => TimeInv'
BY DEF TimeInv, timing, LocksWhenIdle, Covered

LEMMA QuietKeepsTime == TimeInv /\ Quiet => TimeInv'
BY DEF TimeInv, Quiet, LocksWhenIdle, Covered

LEMMA ShowsIsQuiet == ASSUME NEW w, Shows(w) PROVE Quiet
BY DEF Shows, Used, Quiet, lock, clipboard

LEMMA BrowseIsQuiet == Browse => Quiet
<1> SUFFICES ASSUME Browse PROVE Quiet
  OBVIOUS
<1>1. \A query \in Queries : Type(query) => Quiet
  BY ShowsIsQuiet DEF Type
<1>2. \A row \in 1..PageSize : Pick(row) => Quiet
  BY ShowsIsQuiet DEF Pick
<1>3. \A section \in Sections : SetSection(section) => Quiet
  BY ShowsIsQuiet DEF SetSection
<1>4. \A category : FilterCategory(category) \/ PickCategory(category) => Quiet
  BY ShowsIsQuiet DEF FilterCategory, PickCategory
<1>5. ToggleSort \/ ClearFilters => Quiet
  BY ShowsIsQuiet DEF ToggleSort, ClearFilters
<1>6. \A page \in 0..Len(win.views) : GoPage(page) => Quiet
  BY ShowsIsQuiet DEF GoPage
<1>7. \A name \in Names : JumpToEntry(name) => Quiet
  BY ShowsIsQuiet DEF JumpToEntry
<1> QED
  BY <1>1, <1>2, <1>3, <1>4, <1>5, <1>6, <1>7 DEF Browse

LEMMA AskIsQuiet == ASSUME NEW m, Ask(m) PROVE Quiet
BY DEF Ask, Used, Quiet, lock, clipboard

\* The secret's buttons.  A copy brings a timer of its own.
LEMMA SecretsKeepTime ==
  ASSUME TimeInv, NEW permits \in BOOLEAN, ToggleReveal(permits) \/ CopySecret(permits)
  PROVE  TimeInv'
<1>1. CASE ToggleReveal(permits)
  <2>1. Quiet
    BY <1>1 DEF ToggleReveal, Used, Quiet, lock, clipboard
  <2> QED
    BY <2>1, QuietKeepsTime
<1>2. CASE CopySecret(permits)
  <2>1. /\ open /\ session = "open" /\ idle' = 0
        /\ clip' = [of |-> win.current.name, age |-> 0]
        /\ timers' = timers \cup {ClearSeconds}
        /\ UNCHANGED <<session, open, locked, tickDue>>
    BY <1>2 DEF CopySecret, Used, Stored, lock
  <2>2. /\ clip'.age = 0 /\ clip' = [of |-> clip'.of, age |-> clip'.age]
        /\ ClearSeconds \in timers'
    BY <2>1
  <2>3. Covered'
    BY <2>2 DEF Covered
  <2>4. timers' \subseteq 0..ClearSeconds
    BY <2>1 DEF TimeInv
  <2>5. locked = "no"
    BY <2>1 DEF TimeInv
  <2>6. LocksWhenIdle'
    BY <2>1 DEF LocksWhenIdle, TimeInv
  <2> QED
    BY <2>1, <2>2, <2>3, <2>4, <2>5, <2>6 DEF TimeInv
<1> QED
  BY <1>1, <1>2

\* What a question or a dialog is answered with restarts the idle time too, also
\* of a window that was closed below it.
LEMMA AnswersKeepTime ==
  ASSUME TimeInv, idle' = 0,
         UNCHANGED <<session, locked, clip, timers, tickDue>>, open' = open
  PROVE  TimeInv'
BY DEF TimeInv, LocksWhenIdle, Covered

LEMMA ActKeepsTime == ASSUME TimeInv, Act PROVE TimeInv'
<1>1. ASSUME NEW permits \in BOOLEAN, ToggleReveal(permits) \/ CopySecret(permits)
      PROVE  TimeInv'
  BY <1>1, SecretsKeepTime
<1>2. ASSUME NEW raises \in BOOLEAN, RestoreEntry(raises) \/ ToggleFavorite(raises)
      PROVE  TimeInv'
  <2>1. Quiet
    BY <1>2 DEF RestoreEntry, ToggleFavorite, Used, Quiet, lock, clipboard
  <2> QED
    BY <2>1, QuietKeepsTime
<1>3. ASSUME AskDelete \/ Ask([kind |-> "add"]) \/ Ask([kind |-> "sync"]) \/ OpenSharingCenter
      PROVE  TimeInv'
  <2>1. Quiet
    BY <1>3, AskIsQuiet DEF AskDelete, OpenSharingCenter
  <2> QED
    BY <2>1, QuietKeepsTime
<1>4. ASSUME NEW permits \in BOOLEAN, NEW raises \in BOOLEAN, Delete(permits, raises)
      PROVE  TimeInv'
  BY <1>4, AnswersKeepTime DEF Delete, Answered, lock, clipboard
<1>5. ASSUME NEW name \in Names, NEW raises \in BOOLEAN, AddEntry(name, raises)
      PROVE  TimeInv'
  BY <1>5, AnswersKeepTime DEF AddEntry, Answered, lock, clipboard
<1>6. ASSUME NEW entries, CloseSharingCenter(entries) PROVE TimeInv'
  BY <1>6, AnswersKeepTime DEF CloseSharingCenter, Answered, lock, clipboard
<1>7. ASSUME Cancel PROVE TimeInv'
  BY <1>7, AnswersKeepTime DEF Cancel, Answered, lock, clipboard
<1>8. ASSUME ImportBundle PROVE TimeInv'
  <2>1. /\ session = "open" /\ session' = "locked" /\ open' = FALSE /\ idle' = 0
        /\ UNCHANGED <<locked, clip, timers, tickDue>>
    BY <1>8 DEF ImportBundle, Answered, clipboard
  <2> QED
    BY <2>1 DEF TimeInv, LocksWhenIdle
<1>9. ASSUME CloseWindow PROVE TimeInv'
  <2>1. /\ open' = FALSE /\ open /\ idle' = 0
        /\ UNCHANGED <<session, locked, clip, timers, tickDue>>
    BY <1>9 DEF CloseWindow, Used, clipboard
  <2> QED
    BY <2>1 DEF TimeInv, LocksWhenIdle
<1>10. ASSUME Dismiss PROVE TimeInv'
  <2>1. /\ locked = "told" /\ locked' = "yes" /\ open' = FALSE /\ idle' = 0
        /\ UNCHANGED <<session, clip, timers, tickDue>>
    BY <1>10 DEF Dismiss, clipboard
  <2> QED
    BY <2>1 DEF TimeInv, LocksWhenIdle
<1> QED
  BY <1>1, <1>2, <1>3, <1>4, <1>5, <1>6, <1>7, <1>8, <1>9, <1>10 DEF Act

\* A second that passes brings every timer nearer by what it ages the secret.
LEMMA SecondKeepsTime == ASSUME TimeInv, Second PROVE TimeInv'
<1>1. /\ open /\ 0 \notin timers /\ tickDue' = TRUE
      /\ timers' = {t - 1 : t \in timers}
      /\ UNCHANGED <<session, open, locked>>
  BY DEF Second, lock
<1>2. idle' \in 0..LockSeconds
  BY DEF Second, TimeInv
<1>3. timers' \subseteq 0..ClearSeconds
  BY <1>1 DEF TimeInv
<1>4. clip' = IF clip = NoClip THEN NoClip ELSE [clip EXCEPT !.age = @ + 1]
  BY DEF Second
<1>5. CASE clip = NoClip
  <2>1. clip' = NoClip
    BY <1>4, <1>5
  <2> QED
    BY <1>1, <1>2, <1>3, <1>5, <2>1 DEF TimeInv, LocksWhenIdle
<1>6. CASE clip # NoClip
  <2>1. PICK t \in timers : t + clip.age <= ClearSeconds
    BY <1>1, <1>6 DEF TimeInv, Covered
  <2>2. clip' = [clip EXCEPT !.age = @ + 1]
    BY <1>4, <1>6
  <2>3. clip'.age = clip.age + 1 /\ clip' = [of |-> clip'.of, age |-> clip'.age]
    BY <2>2 DEF TimeInv
  <2>4. t \in Nat /\ clip.age \in Nat
    BY <2>1 DEF TimeInv
  <2>5. t - 1 \in timers' /\ (t - 1) + clip'.age <= ClearSeconds
    BY <1>1, <2>1, <2>3, <2>4
  <2>6. Covered'
    BY <2>5 DEF Covered
  <2>7. session # "none" /\ locked = "no"
    BY <1>1, <1>6 DEF TimeInv
  <2> QED
    BY <1>1, <1>2, <1>3, <2>3, <2>4, <2>6, <2>7 DEF TimeInv, LocksWhenIdle
<1> QED
  BY <1>5, <1>6

LEMMA TickKeepsTime == ASSUME TimeInv, Tick PROVE TimeInv'
<1>1. open /\ tickDue' = FALSE /\ UNCHANGED <<open, timers, idle>>
  BY DEF Tick
<1>2. CASE locked = "no" /\ LockSeconds > 0 /\ idle >= LockSeconds
  <2>1. locked' = "told" /\ clip' = NoClip /\ session' = "locked"
    BY <1>2 DEF Tick
  <2> QED
    BY <1>1, <2>1 DEF TimeInv, LocksWhenIdle, NoClip
<1>3. CASE ~(locked = "no" /\ LockSeconds > 0 /\ idle >= LockSeconds)
  <2>1. UNCHANGED <<locked, clip, session>>
    BY <1>3 DEF Tick
  <2> QED
    BY <1>1, <1>3, <2>1 DEF TimeInv, LocksWhenIdle, Covered
<1> QED
  BY <1>2, <1>3

LEMMA TimersKeepTime == ASSUME TimeInv, Time PROVE TimeInv'
<1>1. ASSUME FilterTimeout PROVE TimeInv'
  BY <1>1, StutterKeepsTime DEF FilterTimeout, timing, lock, clipboard
<1>2. ASSUME ClearTimeout PROVE TimeInv'
  <2>1. /\ clip' = NoClip /\ timers' \subseteq timers
        /\ UNCHANGED <<session, open, locked, idle, tickDue>>
    BY <1>2 DEF ClearTimeout, lock
  <2> QED
    BY <2>1 DEF TimeInv, LocksWhenIdle, NoClip
<1> QED
  BY <1>1, <1>2, SecondKeepsTime, TickKeepsTime DEF Time

LEMMA StepKeepsTime == TimeInv /\ [Next]_vars => TimeInv'
<1> SUFFICES ASSUME TimeInv, [Next]_vars PROVE TimeInv'
  OBVIOUS
<1>1. ASSUME Unlock \/ UNCHANGED vars PROVE TimeInv'
  BY <1>1, StutterKeepsTime DEF Unlock, vars, windowVars, timing
<1>2. ASSUME Enter PROVE TimeInv'
  <2>1. /\ session = "none" /\ session' = "open" /\ open' = TRUE
        /\ UNCHANGED <<locked, clip, timers, idle, tickDue>>
    BY <1>2 DEF Enter, OpenWindow, clipboard
  <2> QED
    BY <2>1 DEF TimeInv, LocksWhenIdle
<1>3. ASSUME Work PROVE TimeInv'
  BY <1>3, BrowseIsQuiet, QuietKeepsTime, ActKeepsTime, TimersKeepTime DEF Work, WindowNext
<1> QED
  BY <1>1, <1>2, <1>3 DEF Next

-----------------------------------------------------------------------------
(* The attempts and what the dialog is told of them. *)

Done == {"answered", "finished"}
Answer == {"succeeded", "auth", "failed"}

TalkInv ==
  /\ attempts \in Seq(Attempt) /\ held \in Nat
  /\ events \in Seq([kind : Answer \cup {"quit", "finished"}, of : Nat])
  /\ \A i \in 1..Len(attempts) - 1 : attempts[i].at \in Done
  /\ \A k \in 1..Len(events) :
       events[k].of \in 1..Len(attempts) /\ attempts[events[k].of].at \in Done
  /\ \A k \in 1..Len(events) : events[k].kind \in Answer =>
       events[k].of = Len(attempts) /\ \A j \in 1..Len(events) :
         events[j].kind \in Answer => j = k
  /\ ~busy => /\ \A i \in 1..Len(attempts) : attempts[i].at \in Done
              /\ \A k \in 1..Len(events) : events[k].kind \notin Answer
  /\ dialog = "rejected" => ~busy
  /\ busy \in BOOLEAN

Events == [kind : Answer \cup {"quit", "finished"}, of : Nat]

LEMMA EmptyRanges ==
  ASSUME NEW a, NEW e, a = <<>>, e = <<>>
  PROVE  /\ 1..Len(a) = {} /\ 1..Len(a) - 1 = {} /\ 1..Len(e) = {}
         /\ a \in Seq(Attempt) /\ e \in Seq(Events)
<1>1. Len(a) = 0 /\ Len(e) = 0
  OBVIOUS
<1>2. 1..Len(a) = {} /\ 1..Len(a) - 1 = {} /\ 1..Len(e) = {}
  BY <1>1
<1>3. a \in Seq(Attempt)
  OBVIOUS
<1>4. e \in Seq(Events)
  OBVIOUS
<1> QED
  BY <1>2, <1>3, <1>4

LEMMA TalkInit == Init => TalkInv
<1> SUFFICES ASSUME Init PROVE TalkInv
  OBVIOUS
<1>1. /\ attempts = <<>> /\ events = <<>> /\ held = 0 /\ busy = FALSE /\ dialog = "open"
  BY DEF Init, UnlockInit
<1>2. /\ 1..Len(attempts) = {} /\ 1..Len(attempts) - 1 = {} /\ 1..Len(events) = {}
      /\ attempts \in Seq(Attempt) /\ events \in Seq(Events)
  BY <1>1, EmptyRanges
<1>3. /\ \A i \in 1..Len(attempts) - 1 : attempts[i].at \in Done
      /\ \A i \in 1..Len(attempts) : attempts[i].at \in Done
      /\ \A k \in 1..Len(events) : FALSE
  BY <1>2
<1> QED
  BY <1>1, <1>2, <1>3 DEF TalkInv, Events

LEMMA TalkOnly ==
  TalkInv /\ UNCHANGED <<attempts, events, held, busy, dialog>> => TalkInv'
BY DEF TalkInv

\* A new attempt begins only once those before it are answered and the answers heard.
LEMMA StartKeepsTalk ==
  ASSUME TalkInv, Free, NEW password \in Passwords, NEW create \in BOOLEAN,
         StartUnlock(password, create)
  PROVE  TalkInv'
<1> DEFINE new == [password |-> password, create |-> create, at |-> "started"]
<1>1. /\ ~busy /\ dialog = "open" /\ dialog' = dialog
      /\ busy' = TRUE /\ attempts' = Append(attempts, new) /\ held' = Len(attempts')
      /\ events' = events
  BY DEF Free, StartUnlock
<1>2. attempts \in Seq(Attempt) /\ new \in Attempt
  BY DEF TalkInv, Attempt
<1>3. /\ attempts' \in Seq(Attempt) /\ Len(attempts') = Len(attempts) + 1
      /\ \A i \in 1..Len(attempts) : attempts'[i] = attempts[i]
  BY <1>1, <1>2
<1>4. held' \in Nat
  BY <1>1, <1>3
<1>5. \A i \in 1..Len(attempts') - 1 : attempts'[i].at \in Done
  BY <1>1, <1>3, <1>2 DEF TalkInv
<1>6. \A k \in 1..Len(events) :
        events[k].of \in 1..Len(attempts') /\ attempts'[events[k].of].at \in Done
  BY <1>1, <1>2, <1>3 DEF TalkInv
<1>7. \A k \in 1..Len(events) : events[k].kind \notin Answer
  BY <1>1 DEF TalkInv
<1> QED
  BY <1>1, <1>3, <1>4, <1>5, <1>6, <1>7 DEF TalkInv

\* Only the last attempt can be under way, and then the dialog is busy and nothing
\* has been answered since it began.
LEMMA UnderWay ==
  ASSUME TalkInv, NEW i \in 1..Len(attempts), attempts[i].at \notin Done
  PROVE  busy /\ i = Len(attempts) /\ \A k \in 1..Len(events) : events[k].kind \notin Answer
<1>1. attempts \in Seq(Attempt)
  BY DEF TalkInv
<1>2. i = Len(attempts)
  BY <1>1 DEF TalkInv
<1>3. busy
  BY DEF TalkInv
<1> QED
  BY <1>2, <1>3 DEF TalkInv

LEMMA MovesAttempts ==
  ASSUME TalkInv, NEW i \in 1..Len(attempts),
         NEW at \in {"started", "creating", "opening", "answered", "finished", "dropped"},
         Moves(i, at)
  PROVE  /\ attempts' \in Seq(Attempt) /\ Len(attempts') = Len(attempts)
         /\ attempts'[i].at = at
         /\ \A j \in 1..Len(attempts) : j # i => attempts'[j] = attempts[j]
<1>1. attempts \in Seq(Attempt) /\ attempts' = [attempts EXCEPT ![i].at = at]
  BY DEF TalkInv, Moves
<1>2. attempts[i] \in Attempt
  BY <1>1
<1>3. [attempts[i] EXCEPT !.at = at] \in Attempt /\ [attempts[i] EXCEPT !.at = at].at = at
  BY <1>2 DEF Attempt
<1>4. attempts' = [attempts EXCEPT ![i] = [attempts[i] EXCEPT !.at = at]]
  BY <1>1
<1>5. attempts' \in Seq(Attempt) /\ Len(attempts') = Len(attempts)
  BY <1>1, <1>3, <1>4
<1> QED
  BY <1>1, <1>3, <1>4, <1>5

LEMMA TwoMore ==
  ASSUME NEW S, NEW s \in Seq(S), NEW x \in S, NEW y \in S
  PROVE  /\ s \o <<x, y>> \in Seq(S) /\ Len(s \o <<x, y>>) = Len(s) + 2
         /\ \A k \in 1..Len(s) : (s \o <<x, y>>)[k] = s[k]
         /\ (s \o <<x, y>>)[Len(s) + 1] = x
         /\ (s \o <<x, y>>)[Len(s) + 2] = y
<1>1. <<x, y>> \in Seq(S) /\ Len(<<x, y>>) = 2 /\ Len(s) \in Nat
  OBVIOUS
<1>2. <<x, y>>[1] = x /\ <<x, y>>[2] = y
  OBVIOUS
<1>3. /\ s \o <<x, y>> \in Seq(S) /\ Len(s \o <<x, y>>) = Len(s) + Len(<<x, y>>)
      /\ \A i \in 1..Len(s) + Len(<<x, y>>) : (s \o <<x, y>>)[i] =
           IF i <= Len(s) THEN s[i] ELSE <<x, y>>[i - Len(s)]
  BY <1>1, ConcatProperties
<1> QED
  BY <1>1, <1>2, <1>3

LEMMA PostedEvents ==
  ASSUME TalkInv, NEW i \in Nat, NEW kind \in Answer,
         events' = Posted(i, <<kind, "quit">>)
  PROVE  /\ events' \in Seq(Events) /\ Len(events') = Len(events) + 2
         /\ \A k \in 1..Len(events) : events'[k] = events[k]
         /\ events'[Len(events) + 1] = [kind |-> kind, of |-> i]
         /\ events'[Len(events) + 2] = [kind |-> "quit", of |-> i]
<1>1. [k \in DOMAIN <<kind, "quit">> |-> [kind |-> <<kind, "quit">>[k], of |-> i]]
        = <<[kind |-> kind, of |-> i], [kind |-> "quit", of |-> i]>>
  OBVIOUS
<1>2. events' = events \o <<[kind |-> kind, of |-> i], [kind |-> "quit", of |-> i]>>
  BY <1>1 DEF Posted
<1>3. /\ events \in Seq(Events)
      /\ [kind |-> kind, of |-> i] \in Events /\ [kind |-> "quit", of |-> i] \in Events
  BY DEF TalkInv, Events
<1>4. PICK a \in Events, b \in Events :
        a = [kind |-> kind, of |-> i] /\ b = [kind |-> "quit", of |-> i]
  BY <1>3
<1>5. events' = events \o <<a, b>>
  BY <1>2, <1>4
<1>6. /\ events \o <<a, b>> \in Seq(Events) /\ Len(events \o <<a, b>>) = Len(events) + 2
      /\ \A k \in 1..Len(events) : (events \o <<a, b>>)[k] = events[k]
      /\ (events \o <<a, b>>)[Len(events) + 1] = a
      /\ (events \o <<a, b>>)[Len(events) + 2] = b
  BY <1>3, TwoMore
<1>7. /\ events' \in Seq(Events) /\ Len(events') = Len(events) + 2
      /\ \A k \in 1..Len(events) : events'[k] = events[k]
      /\ events'[Len(events) + 1] = a /\ events'[Len(events) + 2] = b
  BY <1>5, <1>6
<1> QED
  BY <1>4, <1>7

\* The attempt that is under way is answered, once.
LEMMA AnswersKeepTalk ==
  ASSUME TalkInv, NEW i \in 1..Len(attempts), attempts[i].at \notin Done,
         NEW kind \in Answer, Answers(i, kind)
  PROVE  TalkInv'
<1>1. /\ Moves(i, "answered") /\ events' = Posted(i, <<kind, "quit">>)
      /\ UNCHANGED <<dialog, busy, held>>
  BY DEF Answers
<1>2. busy /\ i = Len(attempts) /\ \A k \in 1..Len(events) : events[k].kind \notin Answer
  BY UnderWay
<1>3. i \in Nat /\ attempts \in Seq(Attempt) /\ events \in Seq(Events)
  BY DEF TalkInv, Events
<1>4. /\ attempts' \in Seq(Attempt) /\ Len(attempts') = Len(attempts)
      /\ attempts'[i].at = "answered"
      /\ \A j \in 1..Len(attempts) : j # i => attempts'[j] = attempts[j]
  BY <1>1, MovesAttempts
<1>5. /\ events' \in Seq(Events) /\ Len(events') = Len(events) + 2
      /\ \A k \in 1..Len(events) : events'[k] = events[k]
      /\ events'[Len(events) + 1] = [kind |-> kind, of |-> i]
      /\ events'[Len(events) + 2] = [kind |-> "quit", of |-> i]
  BY <1>1, <1>3, PostedEvents
<1>6. \A j \in 1..Len(attempts') : attempts'[j].at \in Done
  <2> TAKE j \in 1..Len(attempts')
  <2>1. CASE j = i
    BY <1>4, <2>1 DEF Done
  <2>2. CASE j # i
    <3>1. j \in 1..Len(attempts) - 1
      BY <1>2, <1>3, <1>4, <2>2
    <3> QED
      BY <1>4, <2>2, <3>1 DEF TalkInv
  <2> QED
    BY <2>1, <2>2
<1>7. \A k \in 1..Len(events') :
        /\ events'[k].of \in 1..Len(attempts')
        /\ events'[k].kind \in Answer => k = Len(events) + 1 /\ events'[k].of = Len(attempts')
  <2> TAKE k \in 1..Len(events')
  <2>1. CASE k \in 1..Len(events)
    BY <1>2, <1>4, <1>5, <2>1 DEF TalkInv
  <2>2. CASE k = Len(events) + 1
    BY <1>2, <1>4, <1>5, <2>2
  <2>3. CASE k = Len(events) + 2
    BY <1>2, <1>4, <1>5, <2>3 DEF Answer
  <2> QED
    BY <1>3, <1>5, <2>1, <2>2, <2>3
<1>8. attempts' \in Seq(Attempt) /\ held' \in Nat /\ events' \in Seq(Events) /\ busy' = TRUE
  BY <1>1, <1>2, <1>4, <1>5 DEF TalkInv
<1>9. dialog' = "rejected" => ~busy'
  BY <1>1 DEF TalkInv
<1>10. \A k \in 1..Len(events') : attempts'[events'[k].of].at \in Done
  BY <1>6, <1>7
<1>11. \A j \in 1..Len(attempts') - 1 : attempts'[j].at \in Done
  BY <1>4, <1>6
<1> QED
  BY <1>7, <1>8, <1>9, <1>10, <1>11 DEF TalkInv, Events

\* An attempt goes on, or is dropped, without a word.
LEMMA MovesKeepTalk ==
  ASSUME TalkInv, NEW i \in 1..Len(attempts), attempts[i].at \notin Done,
         NEW at \in {"creating", "opening", "dropped"}, Moves(i, at),
         UNCHANGED <<events, busy, dialog>>, held' \in Nat
  PROVE  TalkInv'
<1>1. busy /\ i = Len(attempts) /\ \A k \in 1..Len(events) : events[k].kind \notin Answer
  BY UnderWay
<1>2. /\ attempts' \in Seq(Attempt) /\ Len(attempts') = Len(attempts)
      /\ \A j \in 1..Len(attempts) : j # i => attempts'[j] = attempts[j]
  BY MovesAttempts
<1>3. \A k \in 1..Len(events) :
        /\ events[k].of \in 1..Len(attempts) /\ events[k].of # i
        /\ attempts'[events[k].of].at \in Done
  BY <1>2 DEF TalkInv
<1>4. attempts \in Seq(Attempt)
  BY DEF TalkInv
<1>5. \A j \in 1..Len(attempts') - 1 : attempts'[j].at \in Done
  <2> TAKE j \in 1..Len(attempts') - 1
  <2>1. Len(attempts) \in Nat
    BY <1>4, LenProperties
  <2>2. j \in 1..Len(attempts) /\ j # i /\ j \in 1..Len(attempts) - 1
    BY <1>1, <1>2, <2>1
  <2> QED
    BY <1>2, <2>2 DEF TalkInv
<1> QED
  BY <1>1, <1>2, <1>3, <1>5 DEF TalkInv

LEMMA WorkerKeepsTalk ==
  ASSUME TalkInv, NEW i \in 1..MaxAttempts, WorkerStep(i)
  PROVE  TalkInv'
<1>1. attempts \in Seq(Attempt) /\ held \in Nat
  BY DEF TalkInv
<1>2. ASSUME RunWorker(i) PROVE TalkInv'
  <2>1. i \in 1..Len(attempts) /\ attempts[i].at = "started"
    BY <1>1, <1>2 DEF RunWorker, At
  <2>2. attempts[i].at \notin Done
    BY <2>1 DEF Done
  <2>3. CASE attempts[i].create /\ stored # NoVault
    <3>1. Answers(i, "failed")
      BY <1>2, <2>3 DEF RunWorker
    <3> QED
      BY <2>1, <2>2, <3>1, AnswersKeepTalk DEF Answer
  <2>4. CASE ~(attempts[i].create /\ stored # NoVault)
    <3>1. PICK at \in {"creating", "opening"} : Moves(i, at)
      BY <1>2, <2>4 DEF RunWorker
    <3>2. UNCHANGED <<events, busy, dialog, held>>
      BY <1>2, <2>4 DEF RunWorker
    <3> QED
      BY <1>1, <2>1, <2>2, <3>1, <3>2, MovesKeepTalk
  <2> QED
    BY <2>3, <2>4
<1>3. ASSUME NEW raises \in BOOLEAN, CreateVault(i, raises) PROVE TalkInv'
  <2>1. i \in 1..Len(attempts) /\ attempts[i].at = "creating"
    BY <1>1, <1>3 DEF CreateVault, At
  <2>2. attempts[i].at \notin Done
    BY <2>1 DEF Done
  <2>3. CASE raises
    <3>1. Answers(i, "failed")
      BY <1>3, <2>3 DEF CreateVault
    <3> QED
      BY <2>1, <2>2, <3>1, AnswersKeepTalk DEF Answer
  <2>4. CASE ~raises
    <3>1. Moves(i, "opening") /\ UNCHANGED <<events, busy, dialog, held>>
      BY <1>3, <2>4 DEF CreateVault
    <3> QED
      BY <1>1, <2>1, <2>2, <3>1, MovesKeepTalk
  <2> QED
    BY <2>3, <2>4
<1>4. ASSUME NEW raises \in BOOLEAN, OpenVault(i, raises) PROVE TalkInv'
  <2>1. i \in 1..Len(attempts) /\ attempts[i].at = "opening"
    BY <1>1, <1>4 DEF OpenVault, At
  <2>2. attempts[i].at \notin Done
    BY <2>1 DEF Done
  <2>3. PICK kind \in Answer : Answers(i, kind)
    BY <1>4 DEF OpenVault, Answer
  <2> QED
    BY <2>1, <2>2, <2>3, AnswersKeepTalk
<1> QED
  BY <1>2, <1>3, <1>4 DEF WorkerStep

\* What is left when the first event has been delivered.
LEMMA TailOfEvents ==
  ASSUME TalkInv, events # <<>>
  PROVE  /\ Tail(events) \in Seq(Events) /\ Len(events) \in Nat /\ Len(events) >= 1
         /\ Len(Tail(events)) = Len(events) - 1
         /\ Head(events) = events[1] /\ events[1] \in Events
         /\ \A k \in 1..Len(Tail(events)) : Tail(events)[k] = events[k + 1] /\ k + 1 \in 1..Len(events)
<1>1. events \in Seq(Events)
  BY DEF TalkInv, Events
<1>2. /\ Tail(events) \in Seq(Events) /\ Len(Tail(events)) = Len(events) - 1
      /\ \A k \in 1..Len(Tail(events)) : Tail(events)[k] = events[k + 1]
  BY <1>1, HeadTailProperties
<1>3. Len(events) \in Nat /\ Len(events) # 0
  BY <1>1, LenProperties, EmptySeq
<1>4. Head(events) = events[1]
  BY <1>1
<1>5. events[1] \in Events
  BY <1>1, <1>3, ElementOfSeq
<1> QED
  BY <1>2, <1>3, <1>4, <1>5

\* The event of a kind that is no answer leaves the others as they are.
LEMMA DeliveryKeepsTalk ==
  ASSUME TalkInv, events # <<>>, events' = Tail(events),
         UNCHANGED <<attempts, busy>>, held' \in Nat, dialog' = "rejected" => ~busy
  PROVE  TalkInv'
<1>1. /\ events' \in Seq(Events)
      /\ \A k \in 1..Len(events') : events'[k] = events[k + 1] /\ k + 1 \in 1..Len(events)
  BY TailOfEvents
<1>2. \A j, k \in 1..Len(events') :
        events'[k].kind \in Answer /\ events'[j].kind \in Answer => j = k
  <2> TAKE j, k \in 1..Len(events')
  <2>1. events'[k].kind \in Answer /\ events'[j].kind \in Answer => j + 1 = k + 1
    BY <1>1 DEF TalkInv
  <2> QED
    BY <1>1, <2>1
<1> QED
  BY <1>1, <1>2 DEF TalkInv, Events

\* After the answer nothing is under way, and no other answer is.
LEMMA LastAnswer ==
  ASSUME TalkInv, events # <<>>, Head(events).kind \in Answer
  PROVE  /\ busy
         /\ \A i \in 1..Len(attempts) : attempts[i].at \in Done
         /\ \A k \in 1..Len(Tail(events)) : Tail(events)[k].kind \notin Answer
<1>1. /\ Len(events) \in Nat /\ Len(events) >= 1 /\ Head(events) = events[1]
      /\ \A k \in 1..Len(Tail(events)) : Tail(events)[k] = events[k + 1] /\ k + 1 \in 1..Len(events)
  BY TailOfEvents
<1>2. 1 \in 1..Len(events) /\ events[1].kind \in Answer
  BY <1>1
<1>3. busy
  BY <1>2 DEF TalkInv
<1>4. events[1].of = Len(attempts) /\ attempts[events[1].of].at \in Done
  BY <1>2 DEF TalkInv
<1>5. \A i \in 1..Len(attempts) : attempts[i].at \in Done
  <2> TAKE i \in 1..Len(attempts)
  <2>1. attempts \in Seq(Attempt)
    BY DEF TalkInv
  <2>2. CASE i = Len(attempts)
    BY <1>4, <2>2
  <2>3. CASE i # Len(attempts)
    BY <2>1, <2>3 DEF TalkInv
  <2> QED
    BY <2>2, <2>3
<1>6. \A k \in 1..Len(Tail(events)) : Tail(events)[k].kind \notin Answer
  <2> SUFFICES ASSUME NEW k \in 1..Len(Tail(events)), Tail(events)[k].kind \in Answer PROVE FALSE
    OBVIOUS
  <2>1. k + 1 \in 1..Len(events) /\ events[k + 1].kind \in Answer
    BY <1>1
  <2>2. k + 1 = 1
    BY <1>2, <2>1 DEF TalkInv
  <2> QED
    BY <1>1, <2>2
<1> QED
  BY <1>3, <1>5, <1>6

LEMMA DeliverKeepsTalk == ASSUME TalkInv, Deliver PROVE TalkInv'
<1>1. ASSUME OnUnlockSucceeded PROVE TalkInv'
  BY <1>1, DeliveryKeepsTalk DEF OnUnlockSucceeded, Delivers, TalkInv
<1>2. ASSUME OnUnlockFailed PROVE TalkInv'
  <2>1. /\ events # <<>> /\ Head(events).kind \in Answer
        /\ events' = Tail(events) /\ busy' = FALSE /\ UNCHANGED <<dialog, held, attempts>>
    BY <1>2 DEF OnUnlockFailed, Delivers, Answer
  <2>2. /\ \A i \in 1..Len(attempts) : attempts[i].at \in Done
        /\ \A k \in 1..Len(Tail(events)) : Tail(events)[k].kind \notin Answer
    BY <2>1, LastAnswer
  <2>3. /\ Tail(events) \in Seq(Events)
        /\ \A k \in 1..Len(Tail(events)) : Tail(events)[k] = events[k + 1] /\ k + 1 \in 1..Len(events)
    BY <2>1, TailOfEvents
  <2> QED
    BY <2>1, <2>2, <2>3 DEF TalkInv, Events
<1>3. ASSUME QuitThread PROVE TalkInv'
  <2> DEFINE who == Head(events).of
             rest == Tail(events)
             last == [kind |-> "finished", of |-> who]
  <2>1. /\ events # <<>> /\ Moves(who, "finished") /\ events' = Append(rest, last)
        /\ UNCHANGED <<dialog, busy, held>>
    BY <1>3 DEF QuitThread, Delivers
  <2>2. /\ rest \in Seq(Events) /\ Len(events) \in Nat /\ Len(events) >= 1
        /\ Len(rest) = Len(events) - 1 /\ Head(events) = events[1] /\ events[1] \in Events
        /\ \A k \in 1..Len(rest) : rest[k] = events[k + 1] /\ k + 1 \in 1..Len(events)
    BY <2>1, TailOfEvents
  <2>3. who \in 1..Len(attempts) /\ attempts[who].at \in Done
    <3>1. 1 \in 1..Len(events) /\ who = events[1].of
      BY <2>2
    <3> QED
      BY <3>1 DEF TalkInv
  <2>4. /\ attempts' \in Seq(Attempt) /\ Len(attempts') = Len(attempts)
        /\ attempts'[who].at = "finished"
        /\ \A j \in 1..Len(attempts) : j # who => attempts'[j] = attempts[j]
    BY <2>1, <2>3, MovesAttempts
  <2>5. \A j \in 1..Len(attempts) : attempts[j].at \in Done => attempts'[j].at \in Done
    BY <2>4 DEF Done
  <2>6. last \in Events /\ last.kind \notin Answer
    BY <2>2 DEF Events, Answer
  <2>7. /\ events' \in Seq(Events) /\ Len(events') = Len(events)
        /\ \A k \in 1..Len(rest) : events'[k] = events[k + 1]
        /\ events'[Len(events)] = last
    BY <2>1, <2>2, <2>6
  <2>8. \A k \in 1..Len(events') :
          /\ events'[k].of \in 1..Len(attempts') /\ attempts'[events'[k].of].at \in Done
          /\ events'[k].kind \in Answer =>
               k + 1 \in 1..Len(events) /\ events'[k] = events[k + 1]
    <3> TAKE k \in 1..Len(events')
    <3>1. CASE k \in 1..Len(rest)
      <4>1. events'[k] = events[k + 1] /\ k + 1 \in 1..Len(events)
        BY <2>2, <2>7, <3>1
      <4> QED
        BY <4>1, <2>4, <2>5 DEF TalkInv
    <3>2. CASE k = Len(events)
      BY <2>3, <2>4, <2>6, <2>7, <3>2 DEF Done
    <3>3. k \in 1..Len(rest) \/ k = Len(events)
      <4>1. Len(events) \in Nat /\ Len(rest) = Len(events) - 1 /\ Len(events') = Len(events)
        BY <2>2, <2>7
      <4> HIDE DEF rest
      <4> QED
        BY <4>1
    <3> QED
      BY <3>1, <3>2, <3>3
  <2>9. \A k \in 1..Len(events') : events'[k].kind \in Answer =>
          /\ events'[k].of = Len(attempts')
          /\ \A j \in 1..Len(events') : events'[j].kind \in Answer => j = k
    <3> TAKE k \in 1..Len(events')
    <3> HAVE events'[k].kind \in Answer
    <3>1. k + 1 \in 1..Len(events) /\ events'[k] = events[k + 1]
      BY <2>8
    <3>2. events'[k].of = Len(attempts')
      BY <2>4, <3>1 DEF TalkInv
    <3>3. ASSUME NEW j \in 1..Len(events'), events'[j].kind \in Answer PROVE j = k
      <4>1. j + 1 \in 1..Len(events) /\ events'[j] = events[j + 1]
        BY <2>8, <3>3
      <4>2. j + 1 = k + 1
        BY <3>1, <3>3, <4>1 DEF TalkInv
      <4> QED
        BY <2>2, <2>7, <4>2
    <3> QED
      BY <3>2, <3>3
  <2>10. ~busy' => /\ \A i \in 1..Len(attempts') : attempts'[i].at \in Done
                   /\ \A k \in 1..Len(events') : events'[k].kind \notin Answer
    BY <2>1, <2>4, <2>5, <2>8 DEF TalkInv
  <2>11. \A i \in 1..Len(attempts') - 1 : attempts'[i].at \in Done
    <3>1. attempts \in Seq(Attempt)
      BY DEF TalkInv
    <3> QED
      BY <2>4, <2>5, <3>1 DEF TalkInv
  <2> QED
    BY <2>1, <2>4, <2>7, <2>8, <2>9, <2>10, <2>11 DEF TalkInv, Events
<1>4. ASSUME ClearWorkerRefs PROVE TalkInv'
  <2>1. /\ events # <<>> /\ events' = Tail(events) /\ held' = 0
        /\ attempts' = [i \in DOMAIN attempts |->
                          IF i = held /\ attempts[i].at = "started"
                          THEN [attempts[i] EXCEPT !.at = "dropped"] ELSE attempts[i]]
        /\ UNCHANGED <<dialog, busy>>
    BY <1>4 DEF ClearWorkerRefs, Delivers
  <2>2. attempts \in Seq(Attempt) /\ DOMAIN attempts = 1..Len(attempts)
    BY DEF TalkInv
  <2>3. CASE held \in 1..Len(attempts) /\ attempts[held].at = "started"
    <3>1. attempts' = [attempts EXCEPT ![held].at = "dropped"]
      BY <2>1, <2>2, <2>3
    <3>2. Moves(held, "dropped")
      BY <3>1 DEF Moves
    <3>3. attempts[held].at \notin Done
      BY <2>3 DEF Done
    <3>4. busy /\ held = Len(attempts) /\ \A k \in 1..Len(events) : events[k].kind \notin Answer
      BY <2>3, <3>3, UnderWay
    <3>5. /\ attempts' \in Seq(Attempt) /\ Len(attempts') = Len(attempts)
          /\ \A j \in 1..Len(attempts) : j # held => attempts'[j] = attempts[j]
      BY <2>3, <3>2, MovesAttempts
    <3>6. /\ Tail(events) \in Seq(Events)
          /\ \A k \in 1..Len(Tail(events)) : Tail(events)[k] = events[k + 1] /\ k + 1 \in 1..Len(events)
      BY <2>1, TailOfEvents
    <3>7. \A k \in 1..Len(events') :
            /\ events'[k].of \in 1..Len(attempts') /\ attempts'[events'[k].of].at \in Done
            /\ events'[k].kind \notin Answer
      <4> TAKE k \in 1..Len(events')
      <4>1. events'[k] = events[k + 1] /\ k + 1 \in 1..Len(events)
        BY <2>1, <3>6
      <4>2. events[k + 1].of \in 1..Len(attempts) /\ attempts[events[k + 1].of].at \in Done
        BY <4>1 DEF TalkInv
      <4>3. events[k + 1].of # held
        BY <3>3, <4>2
      <4> QED
        BY <3>4, <3>5, <4>1, <4>2, <4>3
    <3>8. \A i \in 1..Len(attempts') - 1 : attempts'[i].at \in Done
      <4> TAKE i \in 1..Len(attempts') - 1
      <4>1. Len(attempts) \in Nat
        BY <2>2, LenProperties
      <4>2. i \in 1..Len(attempts) /\ i # held /\ i \in 1..Len(attempts) - 1
        BY <3>4, <3>5, <4>1
      <4> QED
        BY <3>5, <4>2 DEF TalkInv
    <3> QED
      BY <2>1, <3>4, <3>5, <3>6, <3>7, <3>8 DEF TalkInv, Events
  <2>4. CASE ~(held \in 1..Len(attempts) /\ attempts[held].at = "started")
    <3>1. attempts' = attempts
      BY <2>1, <2>2, <2>4
    <3> QED
      BY <2>1, <3>1, DeliveryKeepsTalk DEF TalkInv
  <2> QED
    BY <2>3, <2>4
<1> QED
  BY <1>1, <1>2, <1>3, <1>4 DEF Deliver

LEMMA UserKeepsTalk ==
  ASSUME TalkInv, NEW password \in Passwords,
         Submit(password) \/ Recover(password) \/ CreatedElsewhere(password) \/ Reject \/ DismissFailure
  PROVE  TalkInv'
<1>1. ASSUME Submit(password) PROVE TalkInv'
  <2>1. Free /\ StartUnlock(password, ~exists)
    BY <1>1 DEF Submit
  <2>2. (~exists) \in BOOLEAN
    OBVIOUS
  <2> QED
    BY <2>1, <2>2, StartKeepsTalk
<1>2. ASSUME Recover(password) PROVE TalkInv'
  BY <1>2, StartKeepsTalk DEF Recover, ResetPassword
<1>3. ASSUME Reject PROVE TalkInv'
  BY <1>3 DEF Reject, Free, TalkInv
<1>4. ASSUME CreatedElsewhere(password) \/ DismissFailure PROVE TalkInv'
  BY <1>4, TalkOnly DEF CreatedElsewhere, DismissFailure
<1> QED
  BY <1>1, <1>2, <1>3, <1>4

LEMMA StepKeepsTalk == TalkInv /\ [Next]_vars => TalkInv'
<1> SUFFICES ASSUME TalkInv, [Next]_vars PROVE TalkInv'
  OBVIOUS
<1>1. ASSUME Unlock PROVE TalkInv'
  <2>1. ASSUME Reject \/ DismissFailure PROVE TalkInv'
    <3>1. CASE Reject
      BY <3>1 DEF Reject, Free, TalkInv
    <3>2. CASE DismissFailure
      BY <3>2, TalkOnly DEF DismissFailure
    <3> QED
      BY <2>1, <3>1, <3>2
  <2> QED
    BY <1>1, <2>1, UserKeepsTalk, WorkerKeepsTalk, DeliverKeepsTalk DEF Unlock, UnlockNext
<1>2. ASSUME Enter PROVE TalkInv'
  <2>1. /\ attempts' = <<>> /\ events' = <<>> /\ held' = 0 /\ busy' = FALSE
        /\ Len(attempts') = 0 /\ Len(events') = 0
    BY <1>2 DEF Enter
  <2>2. /\ 1..Len(attempts') = {} /\ 1..Len(attempts') - 1 = {} /\ 1..Len(events') = {}
        /\ attempts' \in Seq(Attempt) /\ events' \in Seq(Events)
    BY <2>1, EmptyRanges
  <2>3. /\ \A i \in 1..Len(attempts') - 1 : attempts'[i].at \in Done
        /\ \A i \in 1..Len(attempts') : attempts'[i].at \in Done
        /\ \A k \in 1..Len(events') : FALSE
    BY <2>2
  <2> QED
    BY <2>1, <2>2, <2>3 DEF TalkInv, Events
<1>3. ASSUME Work \/ UNCHANGED vars PROVE TalkInv'
  BY <1>3, TalkOnly DEF Work, vars, unlockVars
<1> QED
  BY <1>1, <1>2, <1>3 DEF Next

-----------------------------------------------------------------------------
(* The question whether to delete, and the vault. *)

Unique(s) == \A i, j \in 1..Len(s) : s[i].name = s[j].name => i = j

Names2Delete == modal.kind = "delete" => win.current = Nothing \/ win.current.name = modal.name

AskInv ==
  /\ vault \in Seq(View) /\ Unique(vault)
  /\ session = "none" => vault = <<>>
  /\ "current" \in DOMAIN win
  /\ Names2Delete

\* Whatever the widgets do, a window keeps its fields.
LEMMA WidgetsKeepFields ==
  ASSUME NEW w, "current" \in DOMAIN w
  PROVE  /\ \A view : "current" \in DOMAIN ShowDetail(w, view)
         /\ \A view : "current" \in DOMAIN OnSelect(w, view)
         /\ \A row : "current" \in DOMAIN SetCurrentRow(w, row)
         /\ "current" \in DOMAIN Cleared(w)
         /\ "current" \in DOMAIN Filled(w)
<1>1. ASSUME NEW u, "current" \in DOMAIN u, NEW view
      PROVE  "current" \in DOMAIN ShowDetail(u, view)
  BY <1>1 DEF ShowDetail
<1>2. ASSUME NEW u, "current" \in DOMAIN u, NEW view
      PROVE  "current" \in DOMAIN OnSelect(u, view)
  <2>1. "current" \in DOMAIN [u EXCEPT !.revealed = FALSE, !.list = WithSelection(@, view.name)]
    BY <1>2
  <2> QED
    BY <1>1, <2>1 DEF OnSelect
<1>3. ASSUME NEW row PROVE "current" \in DOMAIN SetCurrentRow(w, row)
  BY <1>2 DEF SetCurrentRow
<1>4. "current" \in DOMAIN Cleared(w)
  BY <1>2 DEF Cleared
<1>5. "current" \in DOMAIN Filled(w)
  BY DEF Filled
<1> QED
  BY <1>1, <1>2, <1>3, <1>4, <1>5

\* The filter leaves the entry in the pane, or none.
LEMMA FilterKeepsOrHides ==
  ASSUME NEW w, "current" \in DOMAIN w
  PROVE  /\ "current" \in DOMAIN ApplyFilter(w)
         /\ ApplyFilter(w).current \in {w.current, Nothing}
<1> DEFINE u == IF w.search = w.list.query THEN w ELSE [w EXCEPT !.list = WithQuery(@, w.search)]
<1>1. "current" \in DOMAIN u /\ u.current = w.current
  OBVIOUS
<1> HIDE DEF u
<1>2. Cleared(u).current \in {u.current, Nothing}
  BY <1>1 DEF Cleared, OnSelect, ShowDetail
<1>3. "current" \in DOMAIN Cleared(u)
  BY <1>1, WidgetsKeepFields
<1>4. Filled(Cleared(u)).current = Cleared(u).current
  BY <1>3 DEF Filled
<1>5. "current" \in DOMAIN Filled(Cleared(u))
  BY <1>3, WidgetsKeepFields
<1>6. ApplyFilter(w) = Filled(Cleared(u))
  BY DEF ApplyFilter, u
<1> QED
  BY <1>1, <1>2, <1>4, <1>5, <1>6

LEMMA ReloadKeepsFields ==
  ASSUME NEW w, "current" \in DOMAIN w
  PROVE  /\ \A entries : "current" \in DOMAIN Reload(w, entries)
         /\ \A name : "current" \in DOMAIN Selected(w, name)
         /\ \A query : "current" \in DOMAIN Searching(w, query)
<1>1. ASSUME NEW entries PROVE "current" \in DOMAIN Reload(w, entries)
  <2>1. "current" \in DOMAIN [w EXCEPT !.views = entries]
    OBVIOUS
  <2> QED
    BY <2>1, FilterKeepsOrHides DEF Reload
<1>2. ASSUME NEW name PROVE "current" \in DOMAIN Selected(w, name)
  <2>1. \A row, view : "current" \in DOMAIN ShowDetail(SetCurrentRow(w, row), view)
    BY WidgetsKeepFields
  <2> QED
    BY <2>1 DEF Selected
<1>3. ASSUME NEW query PROVE "current" \in DOMAIN Searching(w, query)
  BY DEF Searching
<1> QED
  BY <1>1, <1>2, <1>3

\* Input that only shows something else leaves the vault alone and asks nothing.
Looks == UNCHANGED <<vault, session, modal>> /\ modal = NoModal /\ "current" \in DOMAIN win'

LEMMA BrowseLooks ==
  ASSUME "current" \in DOMAIN win, Browse
  PROVE  Looks
<1>1. ASSUME NEW w, "current" \in DOMAIN w, Shows(w) PROVE Looks
  BY <1>1 DEF Shows, Used, lock, Looks
<1>2. ASSUME NEW st PROVE "current" \in DOMAIN [win EXCEPT !.list = st]
  OBVIOUS
<1>3. ASSUME NEW query, Type(query) PROVE Looks
  BY <1>1, <1>3, ReloadKeepsFields DEF Type
<1>4. ASSUME NEW row, Pick(row) PROVE Looks
  BY <1>1, <1>4, WidgetsKeepFields DEF Pick
<1>5. ASSUME NEW section, SetSection(section) PROVE Looks
  BY <1>1, <1>2, <1>5, WidgetsKeepFields, FilterKeepsOrHides DEF SetSection
<1>6. ASSUME NEW category, FilterCategory(category) \/ PickCategory(category)
      PROVE Looks
  BY <1>1, <1>2, <1>6, WidgetsKeepFields, FilterKeepsOrHides DEF FilterCategory, PickCategory
<1>7. ASSUME ToggleSort PROVE Looks
  BY <1>1, <1>2, <1>7, FilterKeepsOrHides DEF ToggleSort
<1>8. ASSUME ClearFilters PROVE Looks
  BY <1>1, <1>2, <1>8, ReloadKeepsFields, FilterKeepsOrHides DEF ClearFilters
<1>9. ASSUME NEW page, GoPage(page) PROVE Looks
  BY <1>1, <1>2, <1>9, FilterKeepsOrHides DEF GoPage
<1>10. ASSUME NEW name, JumpToEntry(name) PROVE Looks
  <2> DEFINE cleared == ResetFilters(WithSection(win.list, "Vault"))
             searched == Searching([win EXCEPT !.list = cleared], name)
             jumped == [searched EXCEPT !.list = WithSelection(WithQuery(@, name), name)]
  <2>1. "current" \in DOMAIN searched
    BY <1>2, ReloadKeepsFields
  <2>2. "current" \in DOMAIN jumped
    BY <2>1
  <2>3. "current" \in DOMAIN Selected(ApplyFilter(jumped), name)
    BY <2>2, FilterKeepsOrHides, ReloadKeepsFields
  <2>4. Shows(Selected(ApplyFilter(jumped), name))
    BY <1>10 DEF JumpToEntry
  <2> QED
    BY <1>1, <2>3, <2>4
<1> QED
  BY <1>3, <1>4, <1>5, <1>6, <1>7, <1>8, <1>9, <1>10 DEF Browse

\* One entry of the vault gets another value in one field.
LEMMA SetOnly ==
  ASSUME vault \in Seq(View), Unique(vault), NEW name,
         NEW field \in {"deleted", "favorite", "shared"}, NEW value \in BOOLEAN,
         vault' = Set(name, field, value)
  PROVE  /\ vault' \in Seq(View) /\ Unique(vault') /\ Len(vault') = Len(vault)
         /\ \A i \in 1..Len(vault) :
              /\ vault'[i].name = vault[i].name
              /\ field # "deleted" => vault'[i].deleted = vault[i].deleted
              /\ vault[i].name # name => vault'[i] = vault[i]
<1>1. DOMAIN vault = 1..Len(vault) /\ Len(vault) \in Nat
      /\ \A i \in 1..Len(vault) : vault[i] \in View
  OBVIOUS
<1>2. vault' = [i \in 1..Len(vault) |->
                  IF vault[i].name = name THEN [vault[i] EXCEPT ![field] = value] ELSE vault[i]]
  BY <1>1 DEF Set
<1>3. ASSUME NEW v \in View
      PROVE  /\ [v EXCEPT ![field] = value] \in View
             /\ [v EXCEPT ![field] = value].name = v.name
             /\ field # "deleted" => [v EXCEPT ![field] = value].deleted = v.deleted
  BY DEF View
<1>4. ASSUME NEW i \in 1..Len(vault)
      PROVE  /\ vault'[i] \in View /\ vault'[i].name = vault[i].name
             /\ field # "deleted" => vault'[i].deleted = vault[i].deleted
             /\ vault[i].name # name => vault'[i] = vault[i]
  BY <1>1, <1>2, <1>3
<1>5. vault' \in Seq(View) /\ Len(vault') = Len(vault)
  BY <1>1, <1>2, <1>4
<1> QED
  BY <1>4, <1>5 DEF Unique

\* A step that changes no entry's name, and moves none to the trash but that of the
\* question.
LEMMA SetAsAsked ==
  ASSUME vault \in Seq(View), Unique(vault), NEW name \in Names,
         NEW field \in {"deleted", "favorite", "shared"}, NEW value \in BOOLEAN,
         vault' = Set(name, field, value),
         field = "deleted" /\ value => modal.kind = "delete" /\ ~modal.forever /\ modal.name = name
  PROVE  AsAsked
<1>1. /\ vault' \in Seq(View) /\ Len(vault') = Len(vault) /\ Len(vault) \in Nat
      /\ DOMAIN vault = 1..Len(vault) /\ DOMAIN vault' = 1..Len(vault)
      /\ \A i \in 1..Len(vault) : vault[i] \in View /\ vault'[i].name = vault[i].name
  <2>1. vault' \in Seq(View) /\ Len(vault') = Len(vault)
        /\ \A i \in 1..Len(vault) : vault'[i].name = vault[i].name
    BY SetOnly
  <2> QED
    BY <2>1
<1>2. ASSUME NEW n \in Names PROVE ~Vanished(n)
  BY <1>1 DEF Vanished
<1>3. ASSUME NEW n \in Names, Trashed(n)
      PROVE  modal.kind = "delete" /\ ~modal.forever /\ modal.name = n
  <2>1. PICK i \in 1..Len(vault) : vault[i].name = n /\ ~vault[i].deleted
    BY <1>1, <1>3 DEF Trashed
  <2>2. PICK j \in 1..Len(vault) : vault'[j].name = n /\ vault'[j].deleted
    BY <1>1, <1>3 DEF Trashed
  <2>3. i = j
    BY <1>1, <2>1, <2>2 DEF Unique
  <2>4. field = "deleted" /\ vault[i].name = name
    BY <2>1, <2>2, <2>3, SetOnly
  <2>5. vault'[i] = [vault[i] EXCEPT ![field] = value]
    BY <1>1, <2>4 DEF Set
  <2>6. value
    BY <1>1, <2>2, <2>3, <2>4, <2>5 DEF View
  <2> QED
    BY <2>1, <2>4, <2>6
<1> QED
  BY <1>2, <1>3 DEF AsAsked

\* Taking one entry out leaves the others, in their order.
LEMMA WithoutOnly ==
  ASSUME vault \in Seq(View), Unique(vault), NEW name, \E i \in DOMAIN vault : vault[i].name = name,
         vault' = Without(name)
  PROVE  /\ vault' \in Seq(View) /\ Unique(vault')
         /\ \A k \in 1..Len(vault') : \E i \in 1..Len(vault) : vault'[k] = vault[i]
         /\ \A i \in 1..Len(vault) : vault[i].name # name =>
              \E k \in 1..Len(vault') : vault'[k] = vault[i]
<1> DEFINE i == CHOOSE i \in DOMAIN vault : vault[i].name = name
           before == SubSeq(vault, 1, i - 1)
           after == SubSeq(vault, i + 1, Len(vault))
<1>1. /\ DOMAIN vault = 1..Len(vault) /\ Len(vault) \in Nat
      /\ \A k \in 1..Len(vault) : vault[k] \in View
  OBVIOUS
<1>2. i \in 1..Len(vault) /\ vault[i].name = name
  BY <1>1
<1>3. vault' = before \o after
  BY DEF Without
<1> HIDE DEF i
<1>4. /\ before \in Seq(View) /\ Len(before) = i - 1
      /\ \A k \in 1..i - 1 : before[k] = vault[k]
  BY <1>1, <1>2, SubSeqProperties
<1>5. /\ after \in Seq(View) /\ Len(after) = Len(vault) - i
      /\ \A k \in 1..Len(vault) - i : after[k] = vault[i + k]
  <2>1. i + 1 \in Int /\ Len(vault) \in Int /\ \A k \in i + 1..Len(vault) : vault[k] \in View
    BY <1>1, <1>2
  <2>2. /\ after \in Seq(View)
        /\ Len(after) = IF i + 1 <= Len(vault) THEN Len(vault) - (i + 1) + 1 ELSE 0
        /\ \A k \in 1..Len(vault) - (i + 1) + 1 : after[k] = vault[(i + 1) + k - 1]
    BY <2>1, SubSeqProperties
  <2>3. Len(after) = Len(vault) - i
    BY <1>1, <1>2, <2>2
  <2>4. ASSUME NEW k \in 1..Len(vault) - i PROVE after[k] = vault[i + k]
    <3>1. k \in 1..Len(vault) - (i + 1) + 1 /\ (i + 1) + k - 1 = i + k
      BY <1>1, <1>2
    <3> QED
      BY <2>2, <3>1
  <2> QED
    BY <2>2, <2>3, <2>4
<1> HIDE DEF before, after
<1>6. /\ vault' \in Seq(View) /\ Len(vault') = Len(before) + Len(after)
      /\ \A k \in 1..Len(before) + Len(after) :
           vault'[k] = IF k <= Len(before) THEN before[k] ELSE after[k - Len(before)]
  <2>1. before \in Seq(View) /\ after \in Seq(View)
    BY <1>4, <1>5
  <2>2. /\ before \o after \in Seq(View) /\ Len(before \o after) = Len(before) + Len(after)
        /\ \A k \in 1..Len(before) + Len(after) :
             (before \o after)[k] = IF k <= Len(before) THEN before[k] ELSE after[k - Len(before)]
    BY <2>1, ConcatProperties
  <2> QED
    BY <1>3, <2>2
<1> DEFINE at(k) == IF k <= i - 1 THEN k ELSE k + 1
<1>7. Len(vault') = Len(vault) - 1
  BY <1>1, <1>2, <1>4, <1>5, <1>6
<1>8. \A k \in 1..Len(vault') : at(k) \in 1..Len(vault) /\ vault'[k] = vault[at(k)]
  <2> TAKE k \in 1..Len(vault')
  <2>1. CASE k <= i - 1
    BY <1>1, <1>2, <1>4, <1>6, <1>7, <2>1
  <2>2. CASE k > i - 1
    <3>1. k - (i - 1) \in 1..Len(vault) - i /\ ~(k <= i - 1)
      BY <1>1, <1>2, <1>7, <2>2
    <3>2. vault'[k] = after[k - (i - 1)]
      BY <1>1, <1>2, <1>4, <1>5, <1>6, <1>7, <3>1
    <3>3. after[k - (i - 1)] = vault[k + 1]
      <4>1. after[k - (i - 1)] = vault[i + (k - (i - 1))]
        BY <1>5, <3>1
      <4>2. i + (k - (i - 1)) = k + 1
        BY <1>1, <1>2, <1>7
      <4> QED
        BY <4>1, <4>2
    <3> QED
      BY <1>1, <1>2, <1>7, <3>1, <3>2, <3>3
  <2> QED
    BY <1>1, <1>2, <1>7, <2>1, <2>2
<1>9. Unique(vault')
  <2> SUFFICES ASSUME NEW k \in 1..Len(vault'), NEW l \in 1..Len(vault'),
                      vault'[k].name = vault'[l].name
               PROVE  k = l
    BY DEF Unique
  <2>1. at(k) = at(l)
    BY <1>8 DEF Unique
  <2> QED
    BY <1>1, <1>2, <1>7, <2>1
<1>10. ASSUME NEW j \in 1..Len(vault), vault[j].name # name
       PROVE  \E k \in 1..Len(vault') : vault'[k] = vault[j]
  <2> DEFINE k == IF j < i THEN j ELSE j - 1
  <2>1. j # i
    BY <1>2, <1>10
  <2>2. k \in 1..Len(vault') /\ at(k) = j
    BY <1>1, <1>2, <1>7, <2>1
  <2> HIDE DEF k, at
  <2> QED
    BY <1>8, <2>2
<1> QED
  BY <1>6, <1>8, <1>9, <1>10

LEMMA SameVaultAsAsked ==
  ASSUME vault \in Seq(View), Unique(vault), vault' = vault PROVE AsAsked
<1>1. DOMAIN vault = 1..Len(vault)
  OBVIOUS
<1>2. ASSUME NEW n PROVE ~Vanished(n) /\ ~Trashed(n)
  BY <1>1 DEF Vanished, Trashed, Unique
<1> QED
  BY <1>2 DEF AsAsked

\* What keeps AskInv without a change of the vault.
LEMMA SameVaultKeepsAsk ==
  ASSUME AskInv, vault' = vault, session' = "none" => session = "none",
         "current" \in DOMAIN win', Names2Delete'
  PROVE  AskInv' /\ AsAsked
BY SameVaultAsAsked DEF AskInv, Unique

LEMMA SecretsKeepAsk ==
  ASSUME AskInv, NEW permits \in BOOLEAN, ToggleReveal(permits) \/ CopySecret(permits)
  PROVE  AskInv' /\ AsAsked
<1>1. /\ UNCHANGED <<vault, session, modal>> /\ modal = NoModal
      /\ win' \in {win, Revealed(win, permits)}
  BY DEF ToggleReveal, CopySecret, Used, content, lock
<1>2. "current" \in DOMAIN win'
  BY <1>1 DEF AskInv, Revealed
<1> QED
  BY <1>1, <1>2, SameVaultKeepsAsk DEF Names2Delete, NoModal

\* Of the buttons that open a dialog only one asks whether to delete, and it names
\* the entry in the pane.
LEMMA AsksKeepAsk ==
  ASSUME AskInv,
         AskDelete \/ Ask([kind |-> "add"]) \/ Ask([kind |-> "sync"]) \/ OpenSharingCenter
  PROVE  AskInv' /\ AsAsked
<1>1. ASSUME NEW m, Ask(m) PROVE UNCHANGED <<vault, session, win>> /\ modal' = m
  BY <1>1 DEF Ask, content, lock
<1>2. CASE AskDelete
  <2>1. Ask([kind |-> "delete", name |-> win.current.name, forever |-> win.current.deleted])
    BY <1>2 DEF AskDelete
  <2>2. UNCHANGED <<vault, session, win>> /\ modal'.name = win.current.name
    BY <1>1, <2>1
  <2> QED
    BY <2>2, SameVaultKeepsAsk DEF AskInv, Names2Delete
<1>3. CASE Ask([kind |-> "add"]) \/ Ask([kind |-> "sync"]) \/ OpenSharingCenter
  <2>1. PICK m : Ask(m) /\ m.kind # "delete"
    BY <1>3 DEF OpenSharingCenter
  <2> QED
    BY <1>1, <2>1, SameVaultKeepsAsk DEF AskInv, Names2Delete
<1> QED
  BY <1>2, <1>3

\* What a change of the vault and a new list keep, once no question is open.
LEMMA ChangeKeepsAsk ==
  ASSUME AskInv, NEW entries, NEW raises, NEW w, Change(entries, raises, w),
         entries \in Seq(View), Unique(entries), session = "open", session' = "open",
         "current" \in DOMAIN w, modal' = NoModal
  PROVE  AskInv'
<1>1. vault' = entries /\ win' \in {win, w}
  BY DEF Change
<1>2. "current" \in DOMAIN win'
  BY <1>1 DEF AskInv
<1> QED
  BY <1>1, <1>2 DEF AskInv, Names2Delete, NoModal, Unique

LEMMA SetViews ==
  ASSUME AskInv, NEW name \in Names, NEW field \in {"deleted", "favorite", "shared"},
         NEW value \in BOOLEAN
  PROVE  Set(name, field, value) \in Seq(View) /\ Unique(Set(name, field, value))
<1> DEFINE entries == Set(name, field, value)
<1>1. vault \in Seq(View) /\ Unique(vault)
  BY DEF AskInv
<1>2. DOMAIN vault = 1..Len(vault) /\ Len(vault) \in Nat
      /\ \A i \in 1..Len(vault) : vault[i] \in View
  BY <1>1
<1>3. ASSUME NEW v \in View
      PROVE  [v EXCEPT ![field] = value] \in View /\ [v EXCEPT ![field] = value].name = v.name
  BY DEF View
<1>4. entries = [i \in 1..Len(vault) |->
                   IF vault[i].name = name THEN [vault[i] EXCEPT ![field] = value] ELSE vault[i]]
  BY <1>2 DEF Set
<1> HIDE DEF entries
<1>5. \A i \in 1..Len(vault) : entries[i] \in View /\ entries[i].name = vault[i].name
  BY <1>2, <1>3, <1>4
<1>6. entries \in Seq(View) /\ Len(entries) = Len(vault)
  BY <1>2, <1>4, <1>5
<1>7. Unique(entries)
  BY <1>1, <1>5, <1>6 DEF Unique
<1> QED
  BY <1>6, <1>7 DEF entries

LEMMA MarksKeepAsk ==
  ASSUME AskInv, NEW raises \in BOOLEAN, RestoreEntry(raises) \/ ToggleFavorite(raises)
  PROVE  AskInv' /\ AsAsked
<1>1. modal = NoModal /\ modal' = NoModal /\ session' = session
  BY DEF RestoreEntry, ToggleFavorite, Used, lock
<1>2. CASE ~Stored(win.current.name)
  <2>1. UNCHANGED <<vault, win>>
    BY <1>2 DEF RestoreEntry, ToggleFavorite, NoChange, content
  <2> QED
    BY <1>1, <2>1, SameVaultKeepsAsk DEF AskInv, Names2Delete, NoModal
<1>3. CASE Stored(win.current.name)
  <2>1. session = "open" /\ win.current.name \in Names
    <3>1. \A i \in DOMAIN vault : vault[i] \in View
      BY DEF AskInv
    <3> QED
      BY <1>3, <3>1 DEF Stored, View
  <2>2. PICK field, value, w :
          /\ field \in {"deleted", "favorite"} /\ value \in BOOLEAN
          /\ Change(Set(win.current.name, field, value), raises, w)
          /\ "current" \in DOMAIN w /\ ~(field = "deleted" /\ value)
    <3>1. CASE RestoreEntry(raises)
      <4>1. Change(Set(win.current.name, "deleted", FALSE), raises,
                   Reload(win, Set(win.current.name, "deleted", FALSE)))
        BY <1>3, <3>1 DEF RestoreEntry
      <4>2. "current" \in DOMAIN Reload(win, Set(win.current.name, "deleted", FALSE))
        BY ReloadKeepsFields DEF AskInv
      <4> QED
        BY <4>1, <4>2
    <3>2. CASE ToggleFavorite(raises)
      <4>1. PICK value \in BOOLEAN :
              Change(Set(win.current.name, "favorite", value), raises,
                     Selected(Reload(win, Set(win.current.name, "favorite", value)),
                              win.current.name))
        BY <1>3, <3>2 DEF ToggleFavorite
      <4>2. "current" \in DOMAIN Selected(Reload(win, Set(win.current.name, "favorite", value)),
                                           win.current.name)
        <5>1. "current" \in DOMAIN Reload(win, Set(win.current.name, "favorite", value))
          BY ReloadKeepsFields DEF AskInv
        <5> QED
          BY <5>1, ReloadKeepsFields
      <4> QED
        BY <4>1, <4>2
    <3> QED
      BY <3>1, <3>2
  <2>3. vault' = Set(win.current.name, field, value)
    BY <2>2 DEF Change
  <2>4. AskInv'
    BY <1>1, <2>1, <2>2, SetViews, ChangeKeepsAsk
  <2>5. AsAsked
    BY <2>1, <2>2, <2>3, SetAsAsked DEF AskInv
  <2> QED
    BY <2>4, <2>5
<1> QED
  BY <1>2, <1>3

\* The question named the entry that is in the pane, if one still is.
LEMMA DeleteKeepsAsk ==
  ASSUME AskInv, NEW permits \in BOOLEAN, NEW raises \in BOOLEAN, Delete(permits, raises)
  PROVE  AskInv' /\ AsAsked
<1>1. modal.kind = "delete" /\ modal' = NoModal /\ session' = session
  BY DEF Delete, Answered, lock
<1>2. CASE ~(win.current # Nothing /\ Stored(win.current.name) /\ (modal.forever => permits))
  <2>1. UNCHANGED <<vault, win>>
    BY <1>2 DEF Delete, NoChange, content
  <2> QED
    BY <1>1, <2>1, SameVaultKeepsAsk DEF AskInv, Names2Delete, NoModal
<1>3. CASE win.current # Nothing /\ Stored(win.current.name) /\ (modal.forever => permits)
  <2> DEFINE name == win.current.name
             left == IF modal.forever THEN Without(name) ELSE Set(name, "deleted", TRUE)
  <2>1. Change(left, raises, ShowDetail(Reload(win, left), Nothing))
    BY <1>3 DEF Delete
  <2>2. /\ vault \in Seq(View) /\ Unique(vault) /\ DOMAIN vault = 1..Len(vault)
        /\ \A i \in DOMAIN vault : vault[i] \in View
    BY DEF AskInv
  <2>3. session = "open" /\ modal.name = name /\ \E i \in DOMAIN vault : vault[i].name = name
    BY <1>1, <1>3 DEF Stored, AskInv, Names2Delete
  <2>4. name \in Names
    BY <2>2, <2>3 DEF View
  <2>5. "current" \in DOMAIN ShowDetail(Reload(win, left), Nothing)
    BY ReloadKeepsFields, WidgetsKeepFields DEF AskInv
  <2>6. vault' = left
    BY <2>1 DEF Change
  <2>7. CASE modal.forever
    <3>1. vault' = Without(name)
      BY <2>6, <2>7
    <3> HIDE DEF name
    <3>2. /\ vault' \in Seq(View) /\ Unique(vault')
          /\ \A k \in 1..Len(vault') : \E i \in 1..Len(vault) : vault'[k] = vault[i]
          /\ \A i \in 1..Len(vault) : vault[i].name # name =>
               \E k \in 1..Len(vault') : vault'[k] = vault[i]
      BY <2>2, <2>3, <3>1, WithoutOnly
    <3>3. AskInv'
      BY <1>1, <2>1, <2>3, <2>5, <2>6, <3>2, ChangeKeepsAsk
    <3>4. DOMAIN vault' = 1..Len(vault')
      BY <3>2
    <3>5. \A n \in Names : Vanished(n) => n = name
      BY <2>2, <3>2, <3>4 DEF Vanished
    <3>6. ASSUME NEW n \in Names PROVE ~Trashed(n)
      <4> SUFFICES ASSUME Trashed(n) PROVE FALSE
        OBVIOUS
      <4>1. PICK i \in 1..Len(vault) : vault[i].name = n /\ ~vault[i].deleted
        BY <2>2 DEF Trashed
      <4>2. PICK k \in 1..Len(vault') : vault'[k].name = n /\ vault'[k].deleted
        BY <3>4 DEF Trashed
      <4>3. PICK j \in 1..Len(vault) : vault'[k] = vault[j]
        BY <3>2
      <4> QED
        BY <2>2, <4>1, <4>2, <4>3 DEF Unique
    <3> QED
      BY <1>1, <2>3, <2>7, <3>3, <3>5, <3>6 DEF AsAsked
  <2>8. CASE ~modal.forever
    <3>1. vault' = Set(name, "deleted", TRUE) /\ left = Set(name, "deleted", TRUE)
      BY <2>6, <2>8
    <3> HIDE DEF name, left
    <3>2. AskInv'
      BY <1>1, <2>1, <2>3, <2>4, <2>5, <3>1, SetViews, ChangeKeepsAsk
    <3>3. AsAsked
      BY <1>1, <2>2, <2>3, <2>4, <2>8, <3>1, SetAsAsked
    <3> QED
      BY <3>2, <3>3
  <2> QED
    BY <2>7, <2>8
<1> QED
  BY <1>2, <1>3

LEMMA AddKeepsAsk ==
  ASSUME AskInv, NEW name \in Names, NEW raises \in BOOLEAN, AddEntry(name, raises)
  PROVE  AskInv' /\ AsAsked
<1>1. modal' = NoModal /\ session' = session
  BY DEF AddEntry, Answered, lock
<1>2. CASE ~(session = "open" /\ ~Stored(name))
  <2>1. UNCHANGED <<vault, win>>
    BY <1>2 DEF AddEntry, NoChange, content
  <2> QED
    BY <1>1, <2>1, SameVaultKeepsAsk DEF AskInv, Names2Delete, NoModal
<1>3. CASE session = "open" /\ ~Stored(name)
  <2> DEFINE more == Append(vault, NewEntry(name))
  <2>1. Change(more, raises, Selected(Reload(win, more), name))
    BY <1>3 DEF AddEntry
  <2>2. /\ vault \in Seq(View) /\ Unique(vault) /\ DOMAIN vault = 1..Len(vault)
        /\ NewEntry(name) \in View /\ NewEntry(name).name = name /\ ~NewEntry(name).deleted
    BY DEF AskInv, NewEntry, View
  <2>3. /\ more \in Seq(View) /\ Len(more) = Len(vault) + 1 /\ Len(vault) \in Nat
        /\ \A i \in 1..Len(vault) : more[i] = vault[i]
        /\ more[Len(vault) + 1] = NewEntry(name)
        /\ DOMAIN more = 1..Len(more)
    BY <2>2
  <2> HIDE DEF more
  <2>4. \A i \in 1..Len(vault) : vault[i].name # name
    BY <1>3, <2>2 DEF Stored
  <2>5. Unique(more)
    <3> SUFFICES ASSUME NEW i \in 1..Len(more), NEW j \in 1..Len(more),
                        more[i].name = more[j].name
                 PROVE  i = j
      BY DEF Unique
    <3>1. /\ i \in 1..Len(vault) \/ i = Len(vault) + 1
          /\ j \in 1..Len(vault) \/ j = Len(vault) + 1
      BY <2>3
    <3> QED
      BY <2>2, <2>3, <2>4, <3>1 DEF Unique
  <2>6. "current" \in DOMAIN Selected(Reload(win, more), name)
    <3>1. "current" \in DOMAIN Reload(win, more)
      BY ReloadKeepsFields DEF AskInv
    <3> QED
      BY <3>1, ReloadKeepsFields
  <2>7. vault' = more
    BY <2>1 DEF Change
  <2>8. AskInv'
    BY <1>1, <1>3, <2>1, <2>3, <2>5, <2>6, ChangeKeepsAsk
  <2>9. ASSUME NEW n \in Names PROVE ~Vanished(n)
    BY <2>2, <2>3, <2>7 DEF Vanished
  <2>10. ASSUME NEW n \in Names PROVE ~Trashed(n)
    <3> SUFFICES ASSUME Trashed(n) PROVE FALSE
      OBVIOUS
    <3>1. PICK i \in 1..Len(vault) : vault[i].name = n /\ ~vault[i].deleted
      BY <2>2 DEF Trashed
    <3>2. PICK k \in 1..Len(more) : more[k].name = n /\ more[k].deleted
      BY <2>3, <2>7 DEF Trashed
    <3>3. i \in 1..Len(more) /\ more[i].name = n /\ ~more[i].deleted
      BY <2>3, <3>1
    <3> QED
      BY <2>5, <3>2, <3>3 DEF Unique
  <2> QED
    BY <2>8, <2>9, <2>10 DEF AsAsked
<1> QED
  BY <1>2, <1>3

LEMMA CenterKeepsAsk ==
  ASSUME AskInv, NEW entries \in {vault} \cup {Set(n, "shared", TRUE) : n \in Names},
         CloseSharingCenter(entries)
  PROVE  AskInv' /\ AsAsked
<1>1. modal' = NoModal /\ session' = session
  BY DEF CloseSharingCenter, Answered, lock
<1> DEFINE loaded == IF session = "open" THEN entries ELSE <<>>
           shown == Selected(Reload(win, loaded), modal.name)
<1>2. "current" \in DOMAIN shown
  <2>1. "current" \in DOMAIN Reload(win, loaded)
    BY ReloadKeepsFields DEF AskInv
  <2> QED
    BY <2>1, ReloadKeepsFields
<1>3. CASE entries = vault
  <2>1. win' = shown /\ vault' = vault
    BY <1>3 DEF CloseSharingCenter
  <2> QED
    BY <1>1, <1>2, <2>1, SameVaultKeepsAsk DEF Names2Delete, NoModal
<1>4. CASE entries # vault
  <2>1. session = "open" /\ Change(entries, FALSE, shown)
    BY <1>4 DEF CloseSharingCenter
  <2>2. PICK n \in Names : entries = Set(n, "shared", TRUE)
    BY <1>4
  <2> HIDE DEF shown
  <2>3. AskInv'
    BY <1>1, <1>2, <2>1, <2>2, SetViews, ChangeKeepsAsk
  <2>4. vault' = Set(n, "shared", TRUE)
    BY <2>1, <2>2 DEF Change
  <2> QED
    BY <2>3, <2>4, SetAsAsked DEF AskInv
<1> QED
  BY <1>3, <1>4

LEMMA ActKeepsAsk == ASSUME AskInv, Act PROVE AskInv' /\ AsAsked
<1>1. ASSUME Cancel PROVE AskInv' /\ AsAsked
  <2>1. UNCHANGED <<vault, win, session>> /\ modal' = NoModal
    BY <1>1 DEF Cancel, Answered, NoChange, content, lock
  <2> QED
    BY <2>1, SameVaultKeepsAsk DEF AskInv, Names2Delete, NoModal
<1>2. ASSUME ImportBundle PROVE AskInv' /\ AsAsked
  <2>1. UNCHANGED <<vault, win>> /\ session' = "locked" /\ modal' = NoModal
    BY <1>2 DEF ImportBundle, Answered, NoChange, content
  <2> QED
    BY <2>1, SameVaultKeepsAsk DEF AskInv, Names2Delete, NoModal
<1>3. ASSUME CloseWindow \/ Dismiss PROVE AskInv' /\ AsAsked
  <2>1. UNCHANGED <<vault, win, session, modal>>
    BY <1>3 DEF CloseWindow, Dismiss, content
  <2> QED
    BY <2>1, SameVaultKeepsAsk DEF AskInv, Names2Delete
<1> QED
  BY <1>1, <1>2, <1>3, SecretsKeepAsk, MarksKeepAsk, AsksKeepAsk, DeleteKeepsAsk, AddKeepsAsk,
     CenterKeepsAsk DEF Act

\* The timers fire while the question is open; the filter's may hide the entry it
\* names, and puts no other in its place.
LEMMA TimersKeepAsk == ASSUME AskInv, Time PROVE AskInv' /\ AsAsked
<1>1. ASSUME Second \/ ClearTimeout PROVE AskInv' /\ AsAsked
  <2>1. UNCHANGED <<vault, win, session, modal>>
    BY <1>1 DEF Second, ClearTimeout, content, lock
  <2> QED
    BY <2>1, SameVaultKeepsAsk DEF AskInv, Names2Delete
<1>2. ASSUME Tick PROVE AskInv' /\ AsAsked
  <2>1. UNCHANGED <<vault, win, modal>> /\ (session' = "none" => session = "none")
    BY <1>2 DEF Tick, content
  <2> QED
    BY <2>1, SameVaultKeepsAsk DEF AskInv, Names2Delete
<1>3. ASSUME FilterTimeout PROVE AskInv' /\ AsAsked
  <2>1. /\ UNCHANGED <<vault, session, modal>>
        /\ win' = [ApplyFilter(win) EXCEPT !.filterDue = FALSE]
    BY <1>3 DEF FilterTimeout, content, lock
  <2>2. "current" \in DOMAIN ApplyFilter(win) /\ ApplyFilter(win).current \in {win.current, Nothing}
    BY FilterKeepsOrHides DEF AskInv
  <2>3. "current" \in DOMAIN win' /\ win'.current \in {win.current, Nothing}
    BY <2>1, <2>2
  <2> QED
    BY <2>1, <2>3, SameVaultKeepsAsk DEF AskInv, Names2Delete
<1> QED
  BY <1>1, <1>2, <1>3 DEF Time

LEMMA StepKeepsAsk ==
  ASSUME AskInv, [Next]_vars PROVE AskInv' /\ [AsAsked]_windowVars
<1>1. ASSUME Unlock \/ UNCHANGED vars PROVE AskInv' /\ UNCHANGED windowVars
  BY <1>1 DEF Unlock, vars, windowVars, AskInv, Names2Delete, Unique
<1>2. ASSUME Enter PROVE AskInv' /\ AsAsked
  <2>1. /\ session = "none" /\ session' = "open" /\ vault' \in Contents
        /\ win' = Reload(win, vault') /\ modal' = modal
    BY <1>2 DEF Enter, OpenWindow
  <2>2. vault = <<>> /\ DOMAIN vault = {}
    BY <2>1 DEF AskInv
  <2>3. vault' \in Seq(View) /\ Unique(vault')
    BY <2>1, WindowAssumption DEF Unique
  <2>4. "current" \in DOMAIN win' /\ win'.current \in {win.current, Nothing}
    <3>1. "current" \in DOMAIN [win EXCEPT !.views = vault']
          /\ [win EXCEPT !.views = vault'].current = win.current
      BY DEF AskInv
    <3> QED
      BY <2>1, <3>1, FilterKeepsOrHides DEF Reload
  <2>5. AskInv'
    BY <2>1, <2>3, <2>4 DEF AskInv, Names2Delete
  <2>6. AsAsked
    BY <2>1, <2>2 DEF AsAsked, Trashed
  <2> QED
    BY <2>5, <2>6
<1>3. ASSUME Work PROVE AskInv' /\ AsAsked
  <2>1. ASSUME Browse PROVE AskInv' /\ AsAsked
    <3>1. Looks
      BY <2>1, BrowseLooks DEF AskInv
    <3> QED
      BY <3>1, SameVaultKeepsAsk DEF Looks, Names2Delete, NoModal
  <2> QED
    BY <1>3, <2>1, ActKeepsAsk, TimersKeepAsk DEF Work, WindowNext
<1> QED
  BY <1>1, <1>2, <1>3 DEF Next

LEMMA AskInit == Init => AskInv
<1> SUFFICES ASSUME Init PROVE AskInv
  OBVIOUS
<1>1. vault = <<>> /\ modal = NoModal /\ "current" \in DOMAIN win
  BY DEF Init, WindowInit
<1>2. vault \in Seq(View) /\ 1..Len(vault) = {}
  BY <1>1
<1> QED
  BY <1>1, <1>2 DEF AskInv, Unique, Names2Delete, NoModal

-----------------------------------------------------------------------------
(* The window: what its list and its pane show. *)

Synced(w) ==
  /\ w.search = w.list.query
  /\ w.rows = PageOf(w.views, w.list)
  /\ w.rows = <<>> => Filter(w.views, w.list) = <<>>

\* The pane is empty, or shows the current row with its secret covered or revealed.
PaneIsTheRow(w) ==
  w.current # Nothing =>
    /\ w.item \in 1..Len(w.rows) /\ w.rows[w.item] = w.current
    /\ w.label = Dots \/ (w.label = w.current.name /\ w.revealed)

WellShown(w) ==
  /\ w \in Window /\ Unique(w.views)
  /\ \A k \in 1..Len(w.rows) : \E i \in 1..Len(w.views) : w.rows[k] = w.views[i]
  /\ PaneIsTheRow(w)

LEMMA NothingIsNoView ==
  /\ Nothing \notin View /\ Nothing.name = NoName /\ 0 \notin Names
  /\ \A v \in View : v.name \in Names /\ v.deleted \in BOOLEAN
<1>1. 0 \notin Names
  BY NamesAreNumbers
<1>2. \A v \in View : v.name \in Names
  BY DEF View
<1>3. Nothing.name = 0
  BY DEF Nothing, NoName
<1>4. Nothing \notin View
  BY <1>1, <1>2, <1>3
<1> QED
  BY <1>1, <1>2, <1>3, <1>4 DEF View, NoName

LEMMA WindowFields ==
  ASSUME NEW w \in Window
  PROVE  /\ w.views \in Seq(View) /\ w.list \in ListState /\ w.search \in Queries
         /\ w.filterDue \in BOOLEAN /\ w.rows \in Seq(View) /\ w.item \in Nat
         /\ w.current \in View \cup {Nothing} /\ w.revealed \in BOOLEAN
         /\ w.label \in Names \cup {Dots}
BY DEF Window

\* Another entry in the pane, or none, and another state of the list.
LEMMA PaneTypes ==
  ASSUME NEW w \in Window, NEW view \in View \cup {Nothing}
  PROVE  /\ ShowDetail(w, view) \in Window
         /\ ShowDetail(w, view).current = view
         /\ view # Nothing => ShowDetail(w, view).label = Dots
         /\ ShowDetail(w, view).revealed = w.revealed
         /\ ShowDetail(w, view).list = w.list
         /\ ShowDetail(w, view).views = w.views /\ ShowDetail(w, view).search = w.search
         /\ ShowDetail(w, view).filterDue = w.filterDue /\ ShowDetail(w, view).rows = w.rows
         /\ ShowDetail(w, view).item = w.item
BY DEF ShowDetail, Window

LEMMA OnSelectTypes ==
  ASSUME NEW w \in Window, NEW view \in View \cup {Nothing}
  PROVE  /\ OnSelect(w, view) \in Window
         /\ OnSelect(w, view).current = view
         /\ view # Nothing => OnSelect(w, view).label = Dots
         /\ OnSelect(w, view).revealed = FALSE
         /\ OnSelect(w, view).list = WithSelection(w.list, view.name)
         /\ OnSelect(w, view).views = w.views /\ OnSelect(w, view).search = w.search
         /\ OnSelect(w, view).filterDue = w.filterDue /\ OnSelect(w, view).rows = w.rows
         /\ OnSelect(w, view).item = w.item
<1> DEFINE u == [w EXCEPT !.revealed = FALSE, !.list = WithSelection(@, view.name)]
<1>1. view.name \in Names \cup {NoName}
  BY NothingIsNoView
<1>2. WithSelection(w.list, view.name) \in ListState
  BY <1>1, WindowFields DEF WithSelection, ListState
<1>3. /\ u \in Window /\ u.revealed = FALSE /\ u.list = WithSelection(w.list, view.name)
      /\ u.views = w.views /\ u.search = w.search /\ u.filterDue = w.filterDue
      /\ u.rows = w.rows /\ u.item = w.item
  BY <1>2 DEF Window
<1>4. OnSelect(w, view) = ShowDetail(u, view)
  BY DEF OnSelect
<1> HIDE DEF u
<1> QED
  BY <1>3, <1>4, PaneTypes

LEMMA ClearedTypes ==
  ASSUME NEW w \in Window, w.item = 0 => w.current = Nothing
  PROVE  /\ Cleared(w) \in Window /\ Cleared(w).item = 0 /\ Cleared(w).current = Nothing
         /\ Cleared(w).views = w.views /\ Cleared(w).search = w.search
         /\ Cleared(w).filterDue = w.filterDue
         /\ \A f \in {"section", "category", "sort", "query", "page"} :
              Cleared(w).list[f] = w.list[f]
<1> DEFINE none == [w EXCEPT !.item = 0, !.rows = <<>>]
<1>1. /\ none \in Window /\ none.item = 0 /\ none.views = w.views /\ none.search = w.search
      /\ none.filterDue = w.filterDue /\ none.list = w.list /\ none.current = w.current
  <2>1. <<>> \in Seq(View) /\ 0 \in Nat
    OBVIOUS
  <2> QED
    BY <2>1 DEF Window
<1>2. Cleared(w) = IF w.item = 0 THEN none ELSE OnSelect(none, Nothing)
  BY DEF Cleared
<1> HIDE DEF none
<1>3. CASE w.item = 0
  BY <1>1, <1>2, <1>3
<1>4. CASE w.item # 0
  <2> DEFINE nowhere == OnSelect(none, Nothing)
  <2>1. /\ nowhere \in Window /\ nowhere.current = Nothing
        /\ nowhere.list = WithSelection(w.list, Nothing.name)
        /\ nowhere.views = w.views /\ nowhere.search = w.search
        /\ nowhere.filterDue = w.filterDue
        /\ nowhere.item = none.item
    <3>1. none \in Window /\ Nothing \in View \cup {Nothing}
      BY <1>1
    <3>2. /\ nowhere.views = none.views /\ nowhere.search = none.search
          /\ nowhere.filterDue = none.filterDue /\ nowhere.item = none.item
          /\ nowhere.list = WithSelection(none.list, Nothing.name)
          /\ nowhere \in Window /\ nowhere.current = Nothing
      BY <3>1, OnSelectTypes
    <3> QED
      BY <1>1, <3>2
  <2> HIDE DEF nowhere
  <2>2. \A f \in {"section", "category", "sort", "query", "page"} :
          WithSelection(w.list, Nothing.name)[f] = w.list[f]
    BY WindowFields DEF WithSelection, ListState
  <2> QED
    BY <1>1, <1>2, <1>4, <2>1, <2>2 DEF nowhere
<1> QED
  BY <1>3, <1>4

\* Whatever was on the screen, the filter shows a page that exists of what the
\* search box and the section select, and nothing in the pane.
LEMMA FilterShows ==
  ASSUME NEW w \in Window, Unique(w.views), w.item = 0 => w.current = Nothing
  PROVE  /\ WellShown(ApplyFilter(w)) /\ Synced(ApplyFilter(w))
         /\ ApplyFilter(w).item = 0 /\ ApplyFilter(w).current = Nothing
         /\ ApplyFilter(w).views = w.views /\ ApplyFilter(w).search = w.search
         /\ ApplyFilter(w).filterDue = w.filterDue
<1> DEFINE q == IF w.search = w.list.query THEN w ELSE [w EXCEPT !.list = WithQuery(@, w.search)]
           c == Cleared(q)
           st == Paged(c.views, c.list)
           f == ApplyFilter(w)
<1>1. /\ q \in Window /\ q.search = w.search /\ q.list.query = w.search /\ q.item = w.item
      /\ q.current = w.current /\ q.views = w.views /\ q.filterDue = w.filterDue
  <2>1. w.search # w.list.query => WithQuery(w.list, w.search) \in ListState
    BY WindowFields DEF WithQuery, ListState
  <2>2. w.list \in ListState /\ WithQuery(w.list, w.search).query = w.search
    BY WindowFields DEF WithQuery, ListState
  <2>3. CASE w.search = w.list.query
    BY <2>3
  <2>4. CASE w.search # w.list.query
    BY <2>1, <2>2, <2>4 DEF Window
  <2> QED
    BY <2>3, <2>4
<1> HIDE DEF q
<1>2. /\ c \in Window /\ c.item = 0 /\ c.current = Nothing /\ c.views = w.views
      /\ c.search = w.search /\ c.filterDue = w.filterDue
      /\ \A x \in {"section", "category", "sort", "query", "page"} : c.list[x] = q.list[x]
  BY <1>1, ClearedTypes
<1>3. f = [c EXCEPT !.list = st, !.rows = PageOf(c.views, st)]
  BY DEF ApplyFilter, Filled, q
<1> HIDE DEF c
<1>4. /\ st \in ListState /\ Filter(c.views, st) = Filter(c.views, c.list)
      /\ st.page <= Pages(Len(Filter(c.views, st))) - 1 /\ st.query = c.list.query
  BY <1>2, PagedIsAPage, WindowFields
<1> HIDE DEF st
<1>5. /\ PageOf(c.views, st) \in Seq(View)
      /\ \A k \in 1..Len(PageOf(c.views, st)) :
           \E i \in 1..Len(c.views) : PageOf(c.views, st)[k] = c.views[i]
      /\ PageOf(c.views, st) = <<>> => Filter(c.views, st) = <<>>
  BY <1>2, <1>4, PageHolds, WindowFields
<1>6. /\ f \in Window /\ f.list = st /\ f.rows = PageOf(c.views, st) /\ f.views = w.views
      /\ f.search = w.search /\ f.filterDue = w.filterDue /\ f.item = 0 /\ f.current = Nothing
  BY <1>2, <1>3, <1>4, <1>5 DEF Window
<1> HIDE DEF f
<1>7. Synced(f)
  BY <1>1, <1>2, <1>4, <1>5, <1>6 DEF Synced
<1>8. WellShown(f)
  BY <1>2, <1>5, <1>6 DEF WellShown, PaneIsTheRow
<1> QED
  BY <1>6, <1>7, <1>8 DEF f

\* A row that becomes current is shown with its secret covered; the list stays as it is.
LEMMA RowShows ==
  ASSUME NEW w, WellShown(w), NEW row \in 1..Len(w.rows), row # w.item
  PROVE  LET u == SetCurrentRow(w, row) IN
         /\ WellShown(u) /\ u.views = w.views /\ u.filterDue = w.filterDue
         /\ u.search = w.search /\ u.rows = w.rows
         /\ u.current = w.rows[row] /\ ~u.revealed
         /\ Synced(w) => Synced(u)
<1> DEFINE at == [w EXCEPT !.item = row]
           u == OnSelect(at, w.rows[row])
<1>1. w \in Window /\ w.rows[row] \in View /\ row \in Nat
  BY WindowFields DEF WellShown
<1>2. SetCurrentRow(w, row) = u
  BY DEF SetCurrentRow
<1>3. /\ at \in Window /\ at.item = row /\ at.views = w.views /\ at.rows = w.rows
      /\ at.search = w.search /\ at.filterDue = w.filterDue /\ at.list = w.list
  BY <1>1 DEF Window
<1> HIDE DEF at
<1>4. /\ u \in Window /\ u.current = w.rows[row] /\ u.label = Dots /\ u.revealed = FALSE
      /\ u.list = WithSelection(w.list, w.rows[row].name)
      /\ u.views = w.views /\ u.search = w.search
      /\ u.filterDue = w.filterDue /\ u.rows = w.rows /\ u.item = row
  <2>1. at \in Window /\ w.rows[row] \in View \cup {Nothing} /\ w.rows[row] # Nothing
    BY <1>1, <1>3, NothingIsNoView
  <2>2. /\ u.views = at.views /\ u.search = at.search /\ u.filterDue = at.filterDue
        /\ u.rows = at.rows /\ u.item = at.item
        /\ u.list = WithSelection(at.list, w.rows[row].name)
        /\ u \in Window /\ u.current = w.rows[row] /\ u.label = Dots /\ u.revealed = FALSE
    BY <2>1, OnSelectTypes
  <2> QED
    BY <1>3, <2>2
<1> HIDE DEF u
<1>5. WellShown(u)
  BY <1>1, <1>4 DEF WellShown, PaneIsTheRow
<1>6. ASSUME Synced(w) PROVE Synced(u)
  <2>1. /\ u.list \in ListState /\ w.list \in ListState /\ w.views \in Seq(View)
    BY <1>1, <1>4, WindowFields
  <2>2. /\ u.list.section = w.list.section /\ u.list.category = w.list.category
        /\ u.list.sort = w.list.sort /\ u.list.query = w.list.query
        /\ u.list.page = w.list.page
    BY <1>4, <2>1 DEF WithSelection, ListState
  <2>3. Filter(w.views, u.list) = Filter(w.views, w.list)
    BY <2>1, <2>2, FilterDependsOn
  <2>4. PageOf(w.views, u.list) = PageOf(w.views, w.list)
    BY <2>2, <2>3 DEF PageOf
  <2> QED
    BY <1>4, <1>6, <2>2, <2>3, <2>4 DEF Synced
<1> QED
  BY <1>2, <1>4, <1>5, <1>6

\* An entry that is looked for is shown if the page has it, and nothing if not.
LEMMA SelectShows ==
  ASSUME NEW w, WellShown(w), Synced(w), w.item = 0, w.current = Nothing, NEW name
  PROVE  LET u == Selected(w, name) IN
         /\ WellShown(u) /\ Synced(u) /\ u.views = w.views /\ u.filterDue = w.filterDue
         /\ u.current # Nothing => ~u.revealed
<1> DEFINE at == {i \in DOMAIN w.rows : w.rows[i].name = name}
           row == CHOOSE i \in at : TRUE
           u == SetCurrentRow(w, row)
<1>1. CASE at = {}
  BY <1>1 DEF Selected
<1>2. CASE at # {}
  <2>1. Selected(w, name) = ShowDetail(u, w.rows[row])
    BY <1>2 DEF Selected
  <2>2. w.rows \in Seq(View)
    BY WindowFields DEF WellShown
  <2>3. row \in 1..Len(w.rows)
    BY <1>2, <2>2
  <2> HIDE DEF at, row
  <2>4. /\ WellShown(u) /\ u.views = w.views /\ u.filterDue = w.filterDue
        /\ u.search = w.search /\ u.rows = w.rows
        /\ u.current = w.rows[row] /\ ~u.revealed /\ Synced(u)
    BY <2>3, RowShows
  <2> HIDE DEF u
  <2>5. u \in Window /\ w.rows[row] \in View
    BY <2>2, <2>3, <2>4 DEF WellShown
  <2> DEFINE s == ShowDetail(u, w.rows[row])
  <2>6. /\ s \in Window /\ s.current = w.rows[row] /\ s.label = Dots /\ s.revealed = u.revealed
        /\ s.list = u.list /\ s.views = u.views /\ s.search = u.search
        /\ s.filterDue = u.filterDue /\ s.rows = u.rows /\ s.item = u.item
    BY <2>5, PaneTypes, NothingIsNoView
  <2> HIDE DEF s
  <2>7. Synced(s)
    BY <2>4, <2>6 DEF Synced
  <2>8. WellShown(s)
    BY <2>4, <2>5, <2>6, NothingIsNoView DEF WellShown, PaneIsTheRow
  <2> QED
    BY <2>1, <2>4, <2>6, <2>7, <2>8 DEF s
<1> QED
  BY <1>1, <1>2

\* The list is loaded again, and the entry that was worked on is looked for.
LEMMA ReloadShows ==
  ASSUME NEW w, WellShown(w), NEW entries \in Seq(View), Unique(entries)
  PROVE  /\ WellShown(Reload(w, entries)) /\ Synced(Reload(w, entries))
         /\ Reload(w, entries).item = 0 /\ Reload(w, entries).current = Nothing
         /\ Reload(w, entries).views = entries /\ Reload(w, entries).filterDue = w.filterDue
<1> DEFINE u == [w EXCEPT !.views = entries]
<1>1. /\ u \in Window /\ u.views = entries /\ u.filterDue = w.filterDue
      /\ u.item = w.item /\ u.current = w.current
  BY DEF WellShown, Window
<1>2. w.item = 0 => w.current = Nothing
  BY WindowFields DEF WellShown, PaneIsTheRow
<1> HIDE DEF u
<1> QED
  BY <1>1, <1>2, FilterShows DEF Reload, u

-----------------------------------------------------------------------------
(* The screen and the vault. *)

\* The secret of the entry in the pane is what its label shows, once it is revealed.
Uncovered(w) ==
  w.current # Nothing /\ ~w.current.deleted /\ w.revealed => w.label = w.current.name

\* The entries of `views` that are not in the trash are among `entries`.
LiveIn(views, entries) ==
  \A i \in 1..Len(views) :
    ~views[i].deleted => \E j \in 1..Len(entries) : entries[j].name = views[i].name

AsksForIt ==
  modal.kind = "delete" /\ win.current # Nothing => modal.forever = win.current.deleted

ScreenInv ==
  /\ WellShown(win)
  /\ session # "none" => win.filterDue \/ Synced(win)
  /\ session = "open" =>
       (win.views = vault \/ adrift) /\ LiveIn(win.views, vault) /\ Uncovered(win)
  /\ AsksForIt

screen == <<win, vault, adrift>>

LEMMA SameScreen ==
  ASSUME ScreenInv, UNCHANGED screen,
         session' = session \/ (session # "none" /\ session' = "locked"),
         modal' = modal \/ modal'.kind # "delete"
  PROVE  ScreenInv'
BY DEF ScreenInv, screen, AsksForIt

LEMMA LiveInItself == ASSUME NEW views PROVE LiveIn(views, views)
BY DEF LiveIn

\* An input that shows something else.
LEMMA ShowsScreen ==
  ASSUME ScreenInv, NEW w, Shows(w), WellShown(w), w.filterDue \/ Synced(w),
         w.views = win.views, Uncovered(win) => Uncovered(w)
  PROVE  ScreenInv'
<1>1. win' = w /\ modal' = NoModal /\ UNCHANGED <<vault, adrift, session>>
  BY DEF Shows, Used, lock
<1>2. modal'.kind # "delete"
  BY <1>1 DEF NoModal
<1> QED
  BY <1>1, <1>2 DEF ScreenInv, AsksForIt

\* What may be filtered: any list over the entries that are shown.
Filterable(w) ==
  w \in Window /\ w.views = win.views /\ (w.item = 0 => w.current = Nothing)

LEMMA FilteredScreen ==
  ASSUME ScreenInv, NEW w, Filterable(w), Shows(ApplyFilter(w)) PROVE ScreenInv'
<1>1. Unique(w.views)
  BY DEF ScreenInv, WellShown, Filterable
<1>2. /\ WellShown(ApplyFilter(w)) /\ Synced(ApplyFilter(w))
      /\ ApplyFilter(w).current = Nothing /\ ApplyFilter(w).views = win.views
  BY <1>1, FilterShows DEF Filterable
<1>3. Uncovered(ApplyFilter(w))
  BY <1>2 DEF Uncovered
<1> QED
  BY <1>2, <1>3, ShowsScreen

LEMMA ListStates ==
  ASSUME NEW st \in ListState
  PROVE  /\ \A section \in Sections : WithSection(st, section) \in ListState
         /\ \A category \in Categories \cup {AllCategories} : WithCategory(st, category) \in ListState
         /\ \A category \in Categories : FromDashboard(category) \in ListState
         /\ \A query \in Queries : WithQuery(st, query) \in ListState
         /\ \A page \in Nat : WithPage(st, page) \in ListState
         /\ \A name \in Names : WithSelection(st, name) \in ListState
         /\ ToggledSort(st) \in ListState /\ ResetFilters(st) \in ListState
<1>1. "Vault" \in Sections /\ 0 \in Queries
  BY ListAssumption
<1>2. Fresh \in ListState
  BY <1>1 DEF Fresh, ListState, NoQuery, NoName
<1>3. \A section \in Sections : WithSection(st, section) \in ListState
  BY <1>2 DEF WithSection, ListState
<1>4. ToggledSort(st) \in ListState
  BY DEF ToggledSort, ListState
<1>5. ResetFilters(st) \in ListState
  BY <1>2 DEF ResetFilters, ListState
<1>6. \A category \in Categories : FromDashboard(category) \in ListState
  BY <1>2 DEF FromDashboard, ListState
<1> QED
  BY <1>3, <1>4, <1>5, <1>6
  DEF WithCategory, WithQuery, WithPage, WithSelection, ListState

LEMMA OtherList ==
  ASSUME ScreenInv, NEW st \in ListState
  PROVE  /\ Filterable([win EXCEPT !.list = st])
         /\ Filterable(ShowDetail([win EXCEPT !.list = st], Nothing))
<1> DEFINE u == [win EXCEPT !.list = st]
<1>1. win \in Window /\ (win.item = 0 => win.current = Nothing)
  BY WindowFields DEF ScreenInv, WellShown, PaneIsTheRow
<1>2. /\ u \in Window /\ u.views = win.views /\ u.item = win.item /\ u.current = win.current
  BY <1>1 DEF Window
<1> HIDE DEF u
<1> DEFINE s == ShowDetail(u, Nothing)
<1>3. /\ s \in Window /\ s.current = Nothing /\ s.views = u.views
  <2>1. Nothing \in View \cup {Nothing}
    OBVIOUS
  <2> QED
    BY <1>2, <2>1, PaneTypes
<1> HIDE DEF s
<1>4. Filterable(u) /\ Filterable(s)
  BY <1>1, <1>2, <1>3 DEF Filterable
<1> QED
  BY <1>4 DEF u, s

\* The search box is only filled here; the filter runs later.
LEMMA SearchingTypes ==
  ASSUME NEW w \in Window, NEW query \in Queries
  PROVE  LET u == Searching(w, query) IN
         /\ u \in Window /\ u.views = w.views /\ u.item = w.item /\ u.current = w.current
         /\ u.rows = w.rows /\ u.label = w.label /\ u.revealed = w.revealed /\ u.list = w.list
         /\ u.filterDue \/ query = w.search
BY DEF Searching, Window

LEMMA TypeScreen ==
  ASSUME ScreenInv, NEW query \in Queries, Type(query) PROVE ScreenInv'
<1> DEFINE u == Searching(win, query)
<1>1. win \in Window
  BY DEF ScreenInv, WellShown
<1>2. /\ u \in Window /\ u.views = win.views /\ u.item = win.item /\ u.current = win.current
      /\ u.rows = win.rows /\ u.label = win.label /\ u.revealed = win.revealed
      /\ u.filterDue \/ query = win.search
  BY <1>1, SearchingTypes
<1>3. Shows(u) /\ query # win.search
  BY DEF Type
<1> HIDE DEF u
<1>4. WellShown(u)
  BY <1>2 DEF ScreenInv, WellShown, PaneIsTheRow
<1>5. Uncovered(win) => Uncovered(u)
  BY <1>2 DEF Uncovered
<1> QED
  BY <1>2, <1>3, <1>4, <1>5, ShowsScreen

LEMMA PickScreen ==
  ASSUME ScreenInv, NEW row, Pick(row) PROVE ScreenInv'
<1>1. WellShown(win) /\ win.rows \in Seq(View)
  BY WindowFields DEF ScreenInv, WellShown
<1>2. row \in 1..Len(win.rows) /\ row # win.item /\ Shows(SetCurrentRow(win, row))
  BY <1>1 DEF Pick
<1> DEFINE u == SetCurrentRow(win, row)
<1>3. /\ WellShown(u) /\ u.views = win.views /\ u.filterDue = win.filterDue
      /\ ~u.revealed /\ (Synced(win) => Synced(u))
  BY <1>1, <1>2, RowShows
<1>4. Shows(u)
  BY <1>2
<1> HIDE DEF u
<1>5. Uncovered(u)
  BY <1>3 DEF Uncovered
<1>6. win' = u /\ modal' = NoModal /\ UNCHANGED <<vault, adrift, session>>
  BY <1>4 DEF Shows, Used, lock
<1>7. modal'.kind # "delete"
  BY <1>6 DEF NoModal
<1> QED
  BY <1>3, <1>5, <1>6, <1>7 DEF ScreenInv, AsksForIt

\* The palette's entry is searched for, listed and selected at once.
LEMMA JumpScreen ==
  ASSUME ScreenInv, NEW name \in Names, JumpToEntry(name) PROVE ScreenInv'
<1> DEFINE cleared == ResetFilters(WithSection(win.list, "Vault"))
           at == [win EXCEPT !.list = cleared]
           searched == Searching(at, name)
           jumped == [searched EXCEPT !.list = WithSelection(WithQuery(@, name), name)]
           found == ApplyFilter(jumped)
<1>1. Shows(Selected(found, name))
  BY DEF JumpToEntry
<1>2. "Vault" \in Sections /\ name \in Queries /\ win \in Window /\ Unique(win.views)
  BY ListAssumption DEF ScreenInv, WellShown
<1>3. cleared \in ListState
  BY <1>2, ListStates, WindowFields
<1> HIDE DEF cleared
<1>4. Filterable(at)
  BY <1>3, OtherList
<1> HIDE DEF at
<1>5. /\ searched \in Window /\ searched.views = win.views /\ searched.item = at.item
      /\ searched.current = at.current
  BY <1>2, <1>4, SearchingTypes DEF Filterable
<1> HIDE DEF searched
<1>6. WithSelection(WithQuery(searched.list, name), name) \in ListState
  BY <1>2, <1>5, ListStates, WindowFields
<1>7. Filterable(jumped)
  BY <1>4, <1>5, <1>6 DEF Filterable, Window
<1> HIDE DEF jumped
<1>8. /\ WellShown(found) /\ Synced(found) /\ found.views = win.views
      /\ found.item = 0 /\ found.current = Nothing
  BY <1>2, <1>7, FilterShows DEF Filterable
<1> HIDE DEF found
<1> DEFINE u == Selected(found, name)
<1>9. /\ WellShown(u) /\ Synced(u) /\ u.views = win.views /\ (u.current # Nothing => ~u.revealed)
  BY <1>8, SelectShows
<1>10. Shows(u)
  BY <1>1
<1> HIDE DEF u
<1> QED
  BY <1>9, <1>10, ShowsScreen DEF Uncovered

LEMMA BrowseScreen == ASSUME ScreenInv, Browse PROVE ScreenInv'
<1>1. win \in Window /\ win.list \in ListState
  BY WindowFields DEF ScreenInv, WellShown
<1>2. ASSUME NEW section \in Sections, SetSection(section) PROVE ScreenInv'
  <2> DEFINE there == [win EXCEPT !.list = WithSection(@, section)]
             u == IF section \in Dashboards THEN ShowDetail(there, Nothing) ELSE there
  <2>1. WithSection(win.list, section) \in ListState
    BY <1>1, ListStates
  <2>2. Filterable(u)
    BY <2>1, OtherList
  <2>3. Shows(ApplyFilter(u))
    BY <1>2 DEF SetSection
  <2> HIDE DEF u
  <2> QED
    BY <2>2, <2>3, FilteredScreen
<1>3. ASSUME NEW st \in ListState, Shows(ApplyFilter([win EXCEPT !.list = st])) PROVE ScreenInv'
  BY <1>3, OtherList, FilteredScreen
<1>4. ASSUME NEW category \in Categories, FilterCategory(category) PROVE ScreenInv'
  <2>1. FromDashboard(category) \in ListState
    BY <1>1, ListStates
  <2> QED
    BY <1>4, <2>1, OtherList, FilteredScreen DEF FilterCategory
<1>5. ASSUME NEW category \in Categories \cup {AllCategories}, PickCategory(category)
      PROVE  ScreenInv'
  <2>1. WithCategory(win.list, category) \in ListState
    BY <1>1, ListStates
  <2> QED
    BY <1>3, <1>5, <2>1 DEF PickCategory
<1>6. ASSUME ToggleSort PROVE ScreenInv'
  <2>1. ToggledSort(win.list) \in ListState
    BY <1>1, ListStates
  <2> QED
    BY <1>3, <1>6, <2>1 DEF ToggleSort
<1>7. ASSUME NEW page \in 0..Len(win.views), GoPage(page) PROVE ScreenInv'
  <2>1. page \in Nat
    OBVIOUS
  <2>2. WithPage(win.list, page) \in ListState
    BY <1>1, <2>1, ListStates
  <2> QED
    BY <1>3, <1>7, <2>2 DEF GoPage
<1>8. ASSUME ClearFilters PROVE ScreenInv'
  <2> DEFINE at == [win EXCEPT !.list = ResetFilters(@)]
             u == Searching(at, NoQuery)
  <2>1. ResetFilters(win.list) \in ListState /\ NoQuery \in Queries
    BY <1>1, ListStates, ListAssumption DEF NoQuery
  <2>2. Filterable(at)
    BY <2>1, OtherList
  <2>3. Shows(ApplyFilter(u))
    BY <1>8 DEF ClearFilters
  <2> HIDE DEF at
  <2>4. Filterable(u)
    BY <2>1, <2>2, SearchingTypes DEF Filterable
  <2> HIDE DEF u
  <2> QED
    BY <2>3, <2>4, FilteredScreen
<1> QED
  BY <1>2, <1>4, <1>5, <1>6, <1>7, <1>8, TypeScreen, PickScreen, JumpScreen DEF Browse

-----------------------------------------------------------------------------
(* The buttons, the answers and the screen. *)

\* The entry in the pane is one of those the list was loaded with.
LEMMA CurrentIsListed ==
  ASSUME WellShown(win), win.current # Nothing
  PROVE  /\ win.current \in View
         /\ \E i \in 1..Len(win.views) : win.views[i] = win.current
BY WindowFields DEF WellShown, PaneIsTheRow

\* The buttons of the secret: what is revealed is the secret of the entry shown, since
\* an entry that is shown and not in the trash is in the vault.
LEMMA RevealScreen ==
  ASSUME ScreenInv, NEW permits \in BOOLEAN, ToggleReveal(permits) PROVE ScreenInv'
<1> DEFINE u == Revealed(win, permits)
<1>1. /\ win' = u /\ modal' = NoModal /\ UNCHANGED <<vault, adrift, session>>
      /\ win.current # Nothing /\ ~win.current.deleted
  BY DEF ToggleReveal, Used, Live, content, lock
<1>2. WellShown(win) /\ win \in Window /\ win.current \in View /\ win.current.name \in Names
  BY <1>1, CurrentIsListed, NothingIsNoView DEF ScreenInv, WellShown
<1>3. ~win.revealed => win.label = Dots
  BY <1>1, <1>2 DEF WellShown, PaneIsTheRow
<1>4. /\ u \in Window /\ u.views = win.views /\ u.list = win.list /\ u.search = win.search
      /\ u.filterDue = win.filterDue /\ u.rows = win.rows /\ u.item = win.item
      /\ u.current = win.current
      /\ u.label = Dots \/ (u.label = u.current.name /\ u.revealed)
      /\ u.revealed /\ Stored(win.current.name) => u.label = u.current.name
  BY <1>2, <1>3 DEF Revealed, Window
<1> HIDE DEF u
<1>5. WellShown(u) /\ (Synced(win) => Synced(u))
  BY <1>2, <1>4 DEF WellShown, PaneIsTheRow, Synced
<1>6. session = "open" => Uncovered(u)
  <2> SUFFICES ASSUME session = "open", u.revealed PROVE u.label = u.current.name
    BY DEF Uncovered
  <2>1. PICK i \in 1..Len(win.views) : win.views[i] = win.current
    BY <1>1, <1>2, CurrentIsListed
  <2>2. PICK j \in 1..Len(vault) : vault[j].name = win.current.name
    BY <1>1, <2>1 DEF ScreenInv, LiveIn
  <2>3. ~vault[j].deleted \/ vault[j].deleted
    OBVIOUS
  <2> QED
    BY <1>4, <2>2 DEF Stored
<1>7. modal'.kind # "delete"
  BY <1>1 DEF NoModal
<1> QED
  BY <1>1, <1>4, <1>5, <1>6, <1>7 DEF ScreenInv, AsksForIt

\* A change of the vault: shown, or raised and not shown.
LEMMA ChangeScreen ==
  ASSUME ScreenInv, NEW entries, NEW raises \in BOOLEAN, NEW w, Change(entries, raises, w),
         WellShown(w), Synced(w), w.views = entries, w.current # Nothing => ~w.revealed,
         LiveIn(win.views, entries), session = "open", session' = "open", modal' = NoModal
  PROVE  ScreenInv'
<1>1. vault' = entries /\ adrift' = raises /\ win' = IF raises THEN win ELSE w
  BY DEF Change
<1>2. modal'.kind # "delete"
  BY DEF NoModal
<1>3. CASE raises
  BY <1>1, <1>2, <1>3 DEF ScreenInv, AsksForIt
<1>4. CASE ~raises
  BY <1>1, <1>2, <1>4, LiveInItself DEF ScreenInv, AsksForIt, Uncovered
<1> QED
  BY <1>3, <1>4

\* What a list loaded again shows, with or without an entry that is looked for.
LEMMA ReloadedShows ==
  ASSUME ScreenInv, NEW entries \in Seq(View), Unique(entries)
  PROVE  /\ WellShown(Reload(win, entries)) /\ Synced(Reload(win, entries))
         /\ Reload(win, entries).views = entries /\ Reload(win, entries).current = Nothing
         /\ \A name : LET u == Selected(Reload(win, entries), name) IN
              /\ WellShown(u) /\ Synced(u) /\ u.views = entries
              /\ u.current # Nothing => ~u.revealed
<1> DEFINE r == Reload(win, entries)
<1>1. /\ WellShown(r) /\ Synced(r) /\ r.item = 0 /\ r.current = Nothing /\ r.views = entries
  BY ReloadShows DEF ScreenInv
<1> HIDE DEF r
<1>2. ASSUME NEW name
      PROVE  LET u == Selected(r, name) IN
             /\ WellShown(u) /\ Synced(u) /\ u.views = entries
             /\ u.current # Nothing => ~u.revealed
  BY <1>1, SelectShows
<1> QED
  BY <1>1, <1>2 DEF r

LEMMA SetKeepsNames ==
  ASSUME AskInv, ScreenInv, session = "open", NEW name \in Names,
         NEW field \in {"deleted", "favorite", "shared"}, NEW value \in BOOLEAN
  PROVE  LiveIn(win.views, Set(name, field, value))
<1>1. vault \in Seq(View)
  BY DEF AskInv
<1>2. DOMAIN vault = 1..Len(vault) /\ Len(vault) \in Nat
      /\ \A i \in 1..Len(vault) : vault[i] \in View
  BY <1>1
<1> DEFINE entries == Set(name, field, value)
<1>3. entries = [i \in 1..Len(vault) |->
                   IF vault[i].name = name THEN [vault[i] EXCEPT ![field] = value] ELSE vault[i]]
  BY <1>2 DEF Set
<1>4. \A v \in View : [v EXCEPT ![field] = value].name = v.name
  BY DEF View
<1> HIDE DEF entries
<1>5. Len(entries) = Len(vault) /\ \A i \in 1..Len(vault) : entries[i].name = vault[i].name
  BY <1>2, <1>3, <1>4
<1>6. LiveIn(win.views, vault)
  BY DEF ScreenInv
<1> HIDE DEF entries
<1>7. LiveIn(win.views, entries)
  BY <1>5, <1>6 DEF LiveIn
<1> QED
  BY <1>7 DEF entries

LEMMA StoredIsNamed ==
  ASSUME AskInv, NEW name, Stored(name) PROVE name \in Names /\ session = "open"
<1>1. vault \in Seq(View)
  BY DEF AskInv
<1>2. \A i \in DOMAIN vault : vault[i] \in View
  BY <1>1
<1> QED
  BY <1>2, NothingIsNoView DEF Stored

LEMMA MarksScreen ==
  ASSUME AskInv, ScreenInv, NEW raises \in BOOLEAN, RestoreEntry(raises) \/ ToggleFavorite(raises)
  PROVE  ScreenInv'
<1>1. modal' = NoModal /\ modal'.kind # "delete" /\ session' = session
  <2>1. modal = NoModal /\ modal' = modal /\ session' = session
    BY DEF RestoreEntry, ToggleFavorite, Used, lock
  <2> QED
    BY <2>1 DEF NoModal
<1>2. CASE ~Stored(win.current.name)
  <2>1. UNCHANGED screen
    BY <1>2 DEF RestoreEntry, ToggleFavorite, NoChange, content, screen
  <2> QED
    BY <1>1, <2>1, SameScreen
<1>3. CASE Stored(win.current.name)
  <2> DEFINE name == win.current.name
  <2>1. session = "open" /\ name \in Names
    BY <1>3, StoredIsNamed
  <2>2. CASE RestoreEntry(raises)
    <3> DEFINE restored == Set(name, "deleted", FALSE)
    <3>1. Change(restored, raises, Reload(win, restored))
      BY <1>3, <2>2 DEF RestoreEntry
    <3>2. restored \in Seq(View) /\ Unique(restored) /\ LiveIn(win.views, restored)
      BY <2>1, SetViews, SetKeepsNames
    <3> HIDE DEF restored
    <3> QED
      BY <1>1, <2>1, <3>1, <3>2, ReloadedShows, ChangeScreen
  <2>3. CASE ToggleFavorite(raises)
    <3>1. PICK value \in BOOLEAN :
            Change(Set(name, "favorite", value), raises,
                   Selected(Reload(win, Set(name, "favorite", value)), name))
      BY <1>3, <2>3 DEF ToggleFavorite
    <3> DEFINE marked == Set(name, "favorite", value)
               u == Selected(Reload(win, marked), name)
    <3>2. marked \in Seq(View) /\ Unique(marked) /\ LiveIn(win.views, marked)
      BY <2>1, SetViews, SetKeepsNames
    <3>3. Change(marked, raises, u)
      BY <3>1
    <3> HIDE DEF marked
    <3>4. WellShown(u) /\ Synced(u) /\ u.views = marked /\ (u.current # Nothing => ~u.revealed)
      BY <3>2, ReloadedShows
    <3> HIDE DEF u
    <3> QED
      BY <1>1, <2>1, <3>2, <3>3, <3>4, ChangeScreen
  <2> QED
    BY <2>2, <2>3
<1> QED
  BY <1>2, <1>3

\* What is deleted for good was in the trash, also on the screen.
LEMMA DeleteScreen ==
  ASSUME AskInv, ScreenInv, NEW permits \in BOOLEAN, NEW raises \in BOOLEAN,
         Delete(permits, raises)
  PROVE  ScreenInv'
<1>1. /\ modal.kind = "delete" /\ modal' = NoModal /\ modal'.kind # "delete"
      /\ session' = session
  BY DEF Delete, Answered, lock, NoModal
<1>2. CASE ~(win.current # Nothing /\ Stored(win.current.name) /\ (modal.forever => permits))
  <2>1. UNCHANGED screen
    BY <1>2 DEF Delete, NoChange, content, screen
  <2> QED
    BY <1>1, <2>1, SameScreen
<1>3. CASE win.current # Nothing /\ Stored(win.current.name) /\ (modal.forever => permits)
  <2> DEFINE name == win.current.name
             left == IF modal.forever THEN Without(name) ELSE Set(name, "deleted", TRUE)
             u == ShowDetail(Reload(win, left), Nothing)
  <2>1. Change(left, raises, u)
    BY <1>3 DEF Delete
  <2>2. session = "open" /\ name \in Names /\ \E i \in DOMAIN vault : vault[i].name = name
    BY <1>3, StoredIsNamed DEF Stored
  <2>3. left \in Seq(View) /\ Unique(left) /\ LiveIn(win.views, left)
    <3>1. CASE ~modal.forever
      <4>1. left = Set(name, "deleted", TRUE)
        BY <3>1
      <4> HIDE DEF left, name
      <4> QED
        BY <2>2, <4>1, SetViews, SetKeepsNames
    <3>2. CASE modal.forever
      <4>1. vault' = left /\ left = Without(name)
        BY <2>1, <3>2 DEF Change
      <4>2. vault \in Seq(View) /\ Unique(vault)
        BY DEF AskInv
      <4>3. PICK c \in 1..Len(win.views) : win.views[c] = win.current
        BY <1>3, CurrentIsListed DEF ScreenInv
      <4>4. win.views[c].name = name /\ win.views[c].deleted
        BY <1>1, <1>3, <3>2, <4>3 DEF ScreenInv, AsksForIt
      <4> HIDE DEF left, name
      <4>5. /\ left \in Seq(View) /\ Unique(left)
            /\ \A i \in 1..Len(vault) : vault[i].name # name =>
                 \E k \in 1..Len(left) : left[k] = vault[i]
        BY <2>2, <4>1, <4>2, WithoutOnly
      <4>6. ASSUME NEW i \in 1..Len(win.views), ~win.views[i].deleted
            PROVE  \E k \in 1..Len(left) : left[k].name = win.views[i].name
        <5>1. win.views[i].name # name
          BY <4>4, <4>6 DEF ScreenInv, WellShown, Unique
        <5>2. PICK j \in 1..Len(vault) : vault[j].name = win.views[i].name
          BY <2>2, <4>6 DEF ScreenInv, LiveIn
        <5> QED
          BY <4>5, <5>1, <5>2
      <4> QED
        BY <4>5, <4>6 DEF LiveIn
    <3> QED
      BY <3>1, <3>2
  <2> DEFINE r == Reload(win, left)
  <2>4. u = ShowDetail(r, Nothing)
    OBVIOUS
  <2> HIDE DEF left, u, name
  <2>5. /\ WellShown(r) /\ Synced(r) /\ r.views = left /\ r.current = Nothing
    BY <2>3, ReloadedShows
  <2> HIDE DEF r
  <2>6. u = [r EXCEPT !.current = Nothing]
    BY <2>4 DEF ShowDetail
  <2>7. u = r
    BY <2>5, <2>6 DEF WellShown, Window
  <2> QED
    BY <1>1, <2>1, <2>2, <2>3, <2>5, <2>7, ChangeScreen
<1> QED
  BY <1>2, <1>3

LEMMA AppendKeeps ==
  ASSUME AskInv, NEW name \in Names, ~Stored(name), session = "open"
  PROVE  LET more == Append(vault, NewEntry(name)) IN
         /\ more \in Seq(View) /\ Unique(more)
         /\ \A views : LiveIn(views, vault) => LiveIn(views, more)
<1> DEFINE more == Append(vault, NewEntry(name))
<1>1. /\ vault \in Seq(View) /\ Unique(vault) /\ DOMAIN vault = 1..Len(vault)
      /\ NewEntry(name) \in View /\ NewEntry(name).name = name
  BY DEF AskInv, NewEntry, View
<1>2. /\ more \in Seq(View) /\ Len(more) = Len(vault) + 1 /\ Len(vault) \in Nat
      /\ \A i \in 1..Len(vault) : more[i] = vault[i]
      /\ more[Len(vault) + 1] = NewEntry(name)
  BY <1>1
<1> HIDE DEF more
<1>3. \A i \in 1..Len(vault) : vault[i].name # name
  BY <1>1 DEF Stored
<1>4. Unique(more)
  <2> SUFFICES ASSUME NEW i \in 1..Len(more), NEW j \in 1..Len(more),
                      more[i].name = more[j].name
               PROVE  i = j
    BY DEF Unique
  <2>1. /\ i \in 1..Len(vault) \/ i = Len(vault) + 1
        /\ j \in 1..Len(vault) \/ j = Len(vault) + 1
    BY <1>2
  <2> QED
    BY <1>1, <1>2, <1>3, <2>1 DEF Unique
<1>5. ASSUME NEW views, LiveIn(views, vault) PROVE LiveIn(views, more)
  BY <1>2, <1>5 DEF LiveIn
<1> QED
  BY <1>2, <1>4, <1>5 DEF more

LEMMA AddScreen ==
  ASSUME AskInv, ScreenInv, NEW name \in Names, NEW raises \in BOOLEAN, AddEntry(name, raises)
  PROVE  ScreenInv'
<1>1. modal' = NoModal /\ modal'.kind # "delete" /\ session' = session
  BY DEF AddEntry, Answered, lock, NoModal
<1>2. CASE ~(session = "open" /\ ~Stored(name))
  <2>1. UNCHANGED screen
    BY <1>2 DEF AddEntry, NoChange, content, screen
  <2> QED
    BY <1>1, <2>1, SameScreen
<1>3. CASE session = "open" /\ ~Stored(name)
  <2> DEFINE more == Append(vault, NewEntry(name))
             u == Selected(Reload(win, more), name)
  <2>1. Change(more, raises, u)
    BY <1>3 DEF AddEntry
  <2>2. more \in Seq(View) /\ Unique(more) /\ LiveIn(win.views, more)
    BY <1>3, AppendKeeps DEF ScreenInv
  <2> HIDE DEF more
  <2>3. WellShown(u) /\ Synced(u) /\ u.views = more /\ (u.current # Nothing => ~u.revealed)
    BY <2>2, ReloadedShows
  <2> HIDE DEF u
  <2> QED
    BY <1>1, <1>3, <2>1, <2>2, <2>3, ChangeScreen
<1> QED
  BY <1>2, <1>3

LEMMA CenterScreen ==
  ASSUME AskInv, ScreenInv, NEW entries \in {vault} \cup {Set(n, "shared", TRUE) : n \in Names},
         CloseSharingCenter(entries)
  PROVE  ScreenInv'
<1>1. modal' = NoModal /\ modal'.kind # "delete" /\ session' = session
  BY DEF CloseSharingCenter, Answered, lock, NoModal
<1> DEFINE loaded == IF session = "open" THEN entries ELSE <<>>
           u == Selected(Reload(win, loaded), modal.name)
<1>2. vault \in Seq(View) /\ Unique(vault)
  BY DEF AskInv
<1>3. <<>> \in Seq(View) /\ Unique(<<>>)
  BY DEF Unique
<1>4. CASE entries = vault
  <2>1. win' = u /\ vault' = vault /\ adrift' = FALSE
    BY <1>4 DEF CloseSharingCenter
  <2>2. loaded \in Seq(View) /\ Unique(loaded) /\ (session = "open" => loaded = vault)
    BY <1>2, <1>3, <1>4
  <2> HIDE DEF loaded
  <2>3. WellShown(u) /\ Synced(u) /\ u.views = loaded /\ (u.current # Nothing => ~u.revealed)
    BY <2>2, ReloadedShows
  <2> HIDE DEF u
  <2> QED
    BY <1>1, <2>1, <2>2, <2>3, LiveInItself DEF ScreenInv, AsksForIt, Uncovered
<1>5. CASE entries # vault
  <2>1. session = "open" /\ Change(entries, FALSE, u)
    BY <1>5 DEF CloseSharingCenter
  <2>2. PICK n \in Names : entries = Set(n, "shared", TRUE)
    BY <1>5
  <2>3. entries \in Seq(View) /\ Unique(entries) /\ LiveIn(win.views, entries)
    BY <2>1, <2>2, SetViews, SetKeepsNames
  <2>4. loaded = entries
    BY <2>1
  <2> HIDE DEF loaded
  <2>5. WellShown(u) /\ Synced(u) /\ u.views = entries /\ (u.current # Nothing => ~u.revealed)
    BY <2>3, <2>4, ReloadedShows
  <2> HIDE DEF u
  <2> QED
    BY <1>1, <2>1, <2>3, <2>5, ChangeScreen
<1> QED
  BY <1>4, <1>5

-----------------------------------------------------------------------------
(* The screen through every step. *)

LEMMA ActScreen == ASSUME AskInv, ScreenInv, Act PROVE ScreenInv'
<1>1. ASSUME NEW permits \in BOOLEAN, CopySecret(permits) PROVE ScreenInv'
  <2>1. UNCHANGED screen /\ session' = session /\ modal' = modal
    BY <1>1 DEF CopySecret, Used, screen, content, lock
  <2> QED
    BY <2>1, SameScreen
<1>2. ASSUME NEW m, Ask(m), m.kind # "delete" PROVE ScreenInv'
  <2>1. UNCHANGED screen /\ session' = session /\ modal'.kind # "delete"
    BY <1>2 DEF Ask, screen, content, lock
  <2> QED
    BY <2>1, SameScreen
<1>3. ASSUME AskDelete PROVE ScreenInv'
  <2>1. Ask([kind |-> "delete", name |-> win.current.name, forever |-> win.current.deleted])
    BY <1>3 DEF AskDelete
  <2>2. UNCHANGED screen /\ session' = session /\ modal'.forever = win.current.deleted
    BY <2>1 DEF Ask, screen, content, lock
  <2> QED
    BY <2>2 DEF ScreenInv, screen, AsksForIt
<1>4. ASSUME OpenSharingCenter PROVE ScreenInv'
  BY <1>2, <1>4 DEF OpenSharingCenter
<1>5. ASSUME Cancel PROVE ScreenInv'
  <2>1. UNCHANGED screen /\ session' = session /\ modal' = NoModal
    BY <1>5 DEF Cancel, Answered, NoChange, screen, content, lock
  <2> QED
    BY <2>1, SameScreen DEF NoModal
<1>6. ASSUME ImportBundle PROVE ScreenInv'
  <2>1. UNCHANGED screen /\ session = "open" /\ session' = "locked" /\ modal' = NoModal
    BY <1>6 DEF ImportBundle, Answered, NoChange, screen, content
  <2> QED
    BY <2>1, SameScreen DEF NoModal
<1>7. ASSUME CloseWindow \/ Dismiss PROVE ScreenInv'
  <2>1. UNCHANGED screen /\ session' = session /\ modal' = modal
    BY <1>7 DEF CloseWindow, Dismiss, screen, content
  <2> QED
    BY <2>1, SameScreen
<1>8. Ask([kind |-> "add"]) \/ Ask([kind |-> "sync"]) => ScreenInv'
  BY <1>2
<1> QED
  BY <1>1, <1>3, <1>4, <1>5, <1>6, <1>7, <1>8, RevealScreen, MarksScreen, DeleteScreen,
     AddScreen, CenterScreen DEF Act

\* The timers: the filter may empty the pane, the tick may lock.
LEMMA TimeScreen == ASSUME TimeInv, ScreenInv, Time PROVE ScreenInv'
<1>1. ASSUME Second \/ ClearTimeout PROVE ScreenInv'
  <2>1. UNCHANGED screen /\ session' = session /\ modal' = modal
    BY <1>1 DEF Second, ClearTimeout, screen, content, lock
  <2> QED
    BY <2>1, SameScreen
<1>2. ASSUME Tick PROVE ScreenInv'
  <2>1. /\ UNCHANGED screen /\ modal' = modal /\ session # "none"
        /\ session' = session \/ session' = "locked"
    BY <1>2 DEF Tick, screen, content, TimeInv
  <2> QED
    BY <2>1, SameScreen
<1>3. ASSUME FilterTimeout PROVE ScreenInv'
  <2> DEFINE f == ApplyFilter(win)
             u == [f EXCEPT !.filterDue = FALSE]
  <2>1. /\ win' = u /\ UNCHANGED <<vault, adrift, session, modal>>
    BY <1>3 DEF FilterTimeout, content, lock
  <2>2. win \in Window /\ Unique(win.views) /\ (win.item = 0 => win.current = Nothing)
    BY WindowFields DEF ScreenInv, WellShown, PaneIsTheRow
  <2>3. /\ WellShown(f) /\ Synced(f) /\ f.item = 0 /\ f.current = Nothing /\ f.views = win.views
    BY <2>2, FilterShows
  <2> HIDE DEF f
  <2>4. /\ u \in Window /\ u.views = win.views /\ u.current = Nothing /\ u.rows = f.rows
        /\ u.list = f.list /\ u.search = f.search
    BY <2>3 DEF WellShown, Window
  <2> HIDE DEF u
  <2>5. WellShown(u) /\ Synced(u) /\ Uncovered(u)
    BY <2>3, <2>4 DEF WellShown, PaneIsTheRow, Synced, Uncovered
  <2> QED
    BY <2>1, <2>4, <2>5 DEF ScreenInv, AsksForIt
<1> QED
  BY <1>1, <1>2, <1>3 DEF Time

LEMMA ScreenInit == Init => ScreenInv
<1> SUFFICES ASSUME Init PROVE ScreenInv
  OBVIOUS
<1>1. /\ vault = <<>> /\ modal = NoModal /\ session = "none"
      /\ win = [views |-> <<>>, list |-> Fresh, search |-> NoQuery, filterDue |-> FALSE,
                rows |-> <<>>, item |-> 0, current |-> Nothing, revealed |-> FALSE, label |-> Dots]
  BY DEF Init, WindowInit
<1>2. Fresh \in ListState /\ NoQuery \in Queries /\ <<>> \in Seq(View)
  <2>1. "Vault" \in Sections /\ 0 \in Queries
    BY ListAssumption
  <2> QED
    BY <2>1 DEF Fresh, ListState, NoQuery, NoName
<1>3. win \in Window
  BY <1>1, <1>2 DEF Window
<1>4. 1..Len(win.views) = {} /\ 1..Len(win.rows) = {} /\ win.current = Nothing
  BY <1>1
<1> QED
  BY <1>1, <1>3, <1>4 DEF ScreenInv, WellShown, PaneIsTheRow, Unique, AsksForIt, NoModal

LEMMA StepKeepsScreen ==
  ASSUME TimeInv, AskInv, ScreenInv, [Next]_vars PROVE ScreenInv'
<1>1. ASSUME Unlock \/ UNCHANGED vars PROVE ScreenInv'
  <2>1. UNCHANGED screen /\ session' = session /\ modal' = modal
    BY <1>1 DEF Unlock, vars, windowVars, screen
  <2> QED
    BY <2>1, SameScreen
<1>2. ASSUME Enter PROVE ScreenInv'
  <2>1. /\ session = "none" /\ session' = "open" /\ vault' \in Contents
        /\ win' = Reload(win, vault') /\ modal' = modal
    BY <1>2 DEF Enter, OpenWindow
  <2>2. vault' \in Seq(View) /\ Unique(vault')
    BY <2>1, WindowAssumption DEF Unique
  <2>3. /\ WellShown(win') /\ Synced(win') /\ win'.views = vault' /\ win'.current = Nothing
    BY <2>1, <2>2, ReloadedShows
  <2>4. LiveIn(win'.views, vault')
    BY <2>3, LiveInItself
  <2> QED
    BY <2>1, <2>3, <2>4 DEF ScreenInv, AsksForIt, Uncovered
<1>3. ASSUME Work PROVE ScreenInv'
  BY <1>3, BrowseScreen, ActScreen, TimeScreen DEF Work, WindowNext
<1> QED
  BY <1>1, <1>2, <1>3 DEF Next

\* Only a copy puts a secret into the clipboard.
LEMMA CopiesOnly ==
  ASSUME TimeInv, [Next]_vars, Copied PROVE \E permits \in BOOLEAN : CopySecret(permits)
<1>1. clip.age \in Nat /\ clip = [of |-> clip.of, age |-> clip.age]
  BY DEF TimeInv
<1>2. clip' # clip /\ clip' # NoClip
  <2>1. clip' = clip => clip'.of = clip.of /\ clip'.age = clip.age
    OBVIOUS
  <2>2. NoClip.of = NoName
    BY DEF NoClip
  <2> QED
    BY <1>1, <2>1, <2>2 DEF Copied
<1>3. ~Second
  <2> SUFFICES ASSUME Second PROVE FALSE
    OBVIOUS
  <2>1. clip' = [clip EXCEPT !.age = @ + 1]
    BY <1>2 DEF Second
  <2>2. clip'.of = clip.of /\ clip'.age = clip.age + 1
    BY <1>1, <2>1
  <2> QED
    BY <1>1, <2>2 DEF Copied
<1>4. ~Time
  BY <1>2, <1>3 DEF Time, FilterTimeout, ClearTimeout, Tick, clipboard
<1>5. ~Browse
  <2>1. Quiet => clip' = clip
    BY DEF Quiet
  <2> QED
    BY <1>2, <2>1, BrowseIsQuiet
<1>6. ~Enter /\ ~Unlock /\ ~UNCHANGED vars
  BY <1>2 DEF Enter, OpenWindow, Unlock, vars, windowVars, clipboard
<1>7. Act
  BY <1>4, <1>5, <1>6 DEF Next, Work, WindowNext
<1>8. ASSUME NEW kind, Answered(kind) PROVE FALSE
  BY <1>2, <1>8 DEF Answered, clipboard
<1>9. ASSUME NEW m, Ask(m) PROVE FALSE
  BY <1>2, <1>9 DEF Ask, clipboard
<1>10. ~(AskDelete \/ Ask([kind |-> "add"]) \/ Ask([kind |-> "sync"]) \/ OpenSharingCenter)
  BY <1>9 DEF AskDelete, OpenSharingCenter
<1>11. ~(Cancel \/ ImportBundle \/ CloseWindow \/ Dismiss)
  BY <1>2, <1>8 DEF Cancel, ImportBundle, CloseWindow, Dismiss, clipboard
<1>12. ASSUME NEW permits \in BOOLEAN, NEW raises \in BOOLEAN, Delete(permits, raises) PROVE FALSE
  BY <1>8, <1>12 DEF Delete
<1>13. ASSUME NEW name, NEW raises \in BOOLEAN, AddEntry(name, raises) PROVE FALSE
  BY <1>8, <1>13 DEF AddEntry
<1>14. ASSUME NEW entries, CloseSharingCenter(entries) PROVE FALSE
  BY <1>8, <1>14 DEF CloseSharingCenter
<1>15. ASSUME NEW raises \in BOOLEAN, RestoreEntry(raises) \/ ToggleFavorite(raises) PROVE FALSE
  BY <1>2, <1>15 DEF RestoreEntry, ToggleFavorite, clipboard
<1>16. ASSUME NEW permits \in BOOLEAN, ToggleReveal(permits) PROVE FALSE
  BY <1>2, <1>16 DEF ToggleReveal, clipboard
<1> QED
  BY <1>7, <1>10, <1>11, <1>12, <1>13, <1>14, <1>15, <1>16 DEF Act

LEMMA CopyIsShown ==
  ASSUME ScreenInv, NEW permits \in BOOLEAN, CopySecret(permits), RevealFirst
  PROVE  win.current.name = clip'.of /\ win.label = clip'.of
<1>1. /\ session = "open" /\ win.current # Nothing /\ ~win.current.deleted /\ win.revealed
      /\ clip'.of = win.current.name
  BY DEF CopySecret, Stored, Live
<1> QED
  BY <1>1 DEF ScreenInv, Uncovered

-----------------------------------------------------------------------------
(* Types. *)
Kinds == {"none", "delete", "add", "center", "sync"}

\* The types that ScreenInv, AskInv and TimeInv do not give.
DeskTypes ==
  /\ session \in {"none", "open", "locked"} /\ open \in BOOLEAN
  /\ locked \in {"no", "told", "yes"} /\ tickDue \in BOOLEAN /\ adrift \in BOOLEAN
  /\ lastSelected \in Names \cup {NoName, Unset}
  /\ modal.kind \in Kinds
  /\ modal.kind = "center" => modal.name \in Names \cup {NoName, Unset}
  /\ clip.of \in Names \cup {NoName}
  /\ changes \in 0..MaxChanges /\ moves \in 0..MaxMoves

LEMMA BrowseShows == Browse => \E w : Shows(w)
BY DEF Browse, Type, Pick, SetSection, FilterCategory, PickCategory, ToggleSort, ClearFilters,
   GoPage, JumpToEntry

LEMMA BrowseTypes == ASSUME DeskTypes, Browse PROVE DeskTypes'
<1>1. PICK w : Shows(w)
  BY BrowseShows
<1>2. /\ moves < MaxMoves /\ moves' = moves + 1
      /\ UNCHANGED <<changes, adrift, session, open, locked, lastSelected, modal, clip, tickDue>>
  BY <1>1 DEF Shows, Used, lock, clipboard
<1>3. moves' \in 0..MaxMoves
  BY <1>2 DEF DeskTypes
<1> QED
  BY <1>2, <1>3 DEF DeskTypes

\* A change of the vault counts, and says whether it raised.
LEMMA ChangeTypes ==
  ASSUME DeskTypes, NEW entries, NEW raises \in BOOLEAN, NEW w, Change(entries, raises, w)
  PROVE  changes' \in 0..MaxChanges /\ moves' \in 0..MaxMoves /\ adrift' \in BOOLEAN
BY DEF DeskTypes, Change

LEMMA NoChangeTypes ==
  ASSUME DeskTypes, NoChange
  PROVE  changes' \in 0..MaxChanges /\ moves' \in 0..MaxMoves /\ adrift' \in BOOLEAN
BY DEF DeskTypes, NoChange, content

LEMMA CurrentIsNamed == ScreenInv => win.current.name \in Names \cup {NoName}
BY NothingIsNoView, WindowFields DEF ScreenInv, WellShown

LEMMA SecretTypes ==
  ASSUME DeskTypes, ScreenInv, NEW permits \in BOOLEAN, ToggleReveal(permits) \/ CopySecret(permits)
  PROVE  DeskTypes'
<1>1. clip'.of \in Names \cup {NoName}
  <2>1. ToggleReveal(permits) => clip' = clip
    BY DEF ToggleReveal, clipboard
  <2>2. CopySecret(permits) => clip'.of = win.current.name
    BY DEF CopySecret
  <2> QED
    BY <2>1, <2>2, CurrentIsNamed DEF DeskTypes
<1>2. UNCHANGED <<session, open, locked, tickDue, adrift, lastSelected, modal, changes, moves>>
  BY DEF ToggleReveal, CopySecret, content, lock
<1> QED
  BY <1>1, <1>2 DEF DeskTypes

\* What an answer or a button leaves alone, and what it may select.
LEMMA SelectTypes ==
  ASSUME DeskTypes, UNCHANGED <<lock, clipboard, tickDue>>, modal' = modal \/ modal' = NoModal,
         changes' \in 0..MaxChanges /\ moves' \in 0..MaxMoves /\ adrift' \in BOOLEAN,
         lastSelected' \in Names \cup {NoName, Unset}
  PROVE  DeskTypes'
BY DEF DeskTypes, lock, clipboard, NoModal, Kinds

LEMMA AnsweredTypes ==
  ASSUME NEW kind, Answered(kind) PROVE modal' = NoModal /\ UNCHANGED <<clipboard, tickDue>>
BY DEF Answered

LEMMA MarksTypes ==
  ASSUME DeskTypes, ScreenInv, NEW raises \in BOOLEAN, RestoreEntry(raises) \/ ToggleFavorite(raises)
  PROVE  DeskTypes'
<1>1. UNCHANGED <<lock, clipboard, tickDue>> /\ modal' = modal
  BY DEF RestoreEntry, ToggleFavorite
<1>2. lastSelected' \in {lastSelected, win.current.name}
  BY DEF RestoreEntry, ToggleFavorite
<1>3. NoChange \/ \E entries, w : Change(entries, raises, w)
  BY DEF RestoreEntry, ToggleFavorite
<1>4. changes' \in 0..MaxChanges /\ moves' \in 0..MaxMoves /\ adrift' \in BOOLEAN
  BY <1>3, ChangeTypes, NoChangeTypes
<1>5. lastSelected' \in Names \cup {NoName, Unset}
  BY <1>2, CurrentIsNamed DEF DeskTypes
<1> QED
  BY <1>1, <1>4, <1>5, SelectTypes

\* What an answer changes: no more than one change of the vault, and what is selected.
AnswerTypes ==
  /\ UNCHANGED <<lock, clipboard, tickDue>> /\ modal' = NoModal
  /\ \/ NoChange
     \/ \E entries, w : \E raises \in BOOLEAN : Change(entries, raises, w)
     \/ adrift' = FALSE /\ UNCHANGED <<changes, moves>>
  /\ lastSelected' \in Names \cup {NoName, Unset}

LEMMA AnswersTypes ==
  ASSUME DeskTypes, ScreenInv,
         \/ \E permits, raises \in BOOLEAN : Delete(permits, raises)
         \/ \E name \in Names, raises \in BOOLEAN : AddEntry(name, raises)
         \/ \E entries : CloseSharingCenter(entries)
  PROVE  DeskTypes'
<1>1. AnswerTypes
  <2>1. ASSUME NEW permits \in BOOLEAN, NEW raises \in BOOLEAN, Delete(permits, raises)
        PROVE  AnswerTypes
    <3>1. UNCHANGED <<lock, clipboard, tickDue>> /\ modal' = NoModal
      BY <2>1, AnsweredTypes DEF Delete
    <3>2. NoChange \/ \E entries, w : Change(entries, raises, w)
      BY <2>1 DEF Delete
    <3>3. lastSelected' \in {lastSelected, NoName}
      BY <2>1 DEF Delete
    <3> QED
      BY <3>1, <3>2, <3>3 DEF AnswerTypes, DeskTypes
  <2>2. ASSUME NEW name \in Names, NEW raises \in BOOLEAN, AddEntry(name, raises)
        PROVE  AnswerTypes
    <3>1. UNCHANGED <<lock, clipboard, tickDue>> /\ modal' = NoModal
      BY <2>2, AnsweredTypes DEF AddEntry
    <3>2. NoChange \/ \E entries, w : Change(entries, raises, w)
      BY <2>2 DEF AddEntry
    <3>3. lastSelected' \in {lastSelected, name}
      BY <2>2 DEF AddEntry
    <3> QED
      BY <3>1, <3>2, <3>3 DEF AnswerTypes, DeskTypes
  <2>3. ASSUME NEW entries, CloseSharingCenter(entries) PROVE AnswerTypes
    <3>1. UNCHANGED <<lock, clipboard, tickDue>> /\ modal' = NoModal /\ modal.kind = "center"
      BY <2>3, AnsweredTypes DEF CloseSharingCenter, Answered
    <3>2. \/ adrift' = FALSE /\ UNCHANGED <<changes, moves>>
          \/ \E w : Change(entries, FALSE, w)
      BY <2>3 DEF CloseSharingCenter
    <3>3. lastSelected' = modal.name
      BY <2>3 DEF CloseSharingCenter
    <3> QED
      BY <3>1, <3>2, <3>3 DEF AnswerTypes, DeskTypes
  <2> QED
    BY <2>1, <2>2, <2>3
<1>2. changes' \in 0..MaxChanges /\ moves' \in 0..MaxMoves /\ adrift' \in BOOLEAN
  BY <1>1, ChangeTypes, NoChangeTypes DEF AnswerTypes, DeskTypes
<1> QED
  BY <1>1, <1>2, SelectTypes DEF AnswerTypes

LEMMA AsksTypes ==
  ASSUME DeskTypes, ScreenInv,
         AskDelete \/ Ask([kind |-> "add"]) \/ Ask([kind |-> "sync"]) \/ OpenSharingCenter
  PROVE  DeskTypes'
<1>1. \E m : Ask(m) /\ m.kind \in Kinds
               /\ (m.kind = "center" => m.name \in Names \cup {NoName, Unset})
  <2>1. CASE AskDelete
    BY <2>1 DEF AskDelete, Kinds
  <2>2. CASE Ask([kind |-> "add"]) \/ Ask([kind |-> "sync"])
    BY <2>2 DEF Kinds
  <2>3. CASE OpenSharingCenter
    <3> DEFINE name == IF win.current # Nothing THEN win.current.name ELSE lastSelected
    <3>1. Ask([kind |-> "center", name |-> name])
      BY <2>3 DEF OpenSharingCenter
    <3>2. name \in Names \cup {NoName, Unset}
      BY CurrentIsNamed DEF DeskTypes
    <3> HIDE DEF name
    <3> QED
      BY <3>1, <3>2 DEF Kinds
  <2> QED
    BY <2>1, <2>2, <2>3
<1>2. UNCHANGED <<session, open, locked, tickDue, adrift, lastSelected, clip, changes, moves>>
  BY <1>1 DEF Ask, content, lock, clipboard
<1>3. modal'.kind \in Kinds /\ (modal'.kind = "center" => modal'.name \in Names \cup {NoName, Unset})
  BY <1>1 DEF Ask
<1> QED
  BY <1>2, <1>3 DEF DeskTypes

LEMMA LeavesTypes ==
  ASSUME DeskTypes, Cancel \/ ImportBundle \/ CloseWindow \/ Dismiss PROVE DeskTypes'
<1>1. UNCHANGED <<adrift, changes, moves, lastSelected, clip, tickDue>>
  BY AnsweredTypes DEF Cancel, ImportBundle, CloseWindow, Dismiss, NoChange, content, clipboard
<1>2. modal' = modal \/ modal' = NoModal
  BY AnsweredTypes DEF Cancel, ImportBundle, CloseWindow, Dismiss
<1>3. /\ session' = session \/ session' = "locked"
      /\ open' = open \/ open' = FALSE
      /\ locked' = locked \/ locked' = "yes"
  BY DEF Cancel, ImportBundle, CloseWindow, Dismiss, lock
<1>4. open' \in BOOLEAN
  BY <1>3 DEF DeskTypes
<1>5. /\ modal'.kind \in Kinds
      /\ modal'.kind = "center" => modal'.name \in Names \cup {NoName, Unset}
  BY <1>2 DEF DeskTypes, NoModal, Kinds
<1> QED
  BY <1>1, <1>3, <1>4, <1>5 DEF DeskTypes

LEMMA TimeTypes == ASSUME DeskTypes, TimeInv, Time PROVE DeskTypes'
<1>1. UNCHANGED <<adrift, changes, moves, lastSelected, modal, open>>
  BY DEF Time, Second, FilterTimeout, ClearTimeout, Tick, content, lock
<1>2. session' \in {session, "locked"} /\ locked' \in {locked, "told"} /\ tickDue' \in BOOLEAN
  BY DEF Time, Second, FilterTimeout, ClearTimeout, Tick, lock, DeskTypes
<1>3. clip'.of \in {clip.of, NoName}
  <2>1. clip' = clip \/ clip' = NoClip \/ clip' = [clip EXCEPT !.age = @ + 1]
    BY DEF Time, Second, FilterTimeout, ClearTimeout, Tick, clipboard
  <2>2. [clip EXCEPT !.age = @ + 1].of = clip.of /\ NoClip.of = NoName
    BY DEF TimeInv, NoClip
  <2> QED
    BY <2>1, <2>2
<1> QED
  BY <1>1, <1>2, <1>3 DEF DeskTypes

LEMMA StepKeepsTypes ==
  ASSUME TimeInv, ScreenInv, DeskTypes, [Next]_vars PROVE DeskTypes'
<1>1. ASSUME Unlock \/ UNCHANGED vars PROVE DeskTypes'
  BY <1>1 DEF Unlock, vars, windowVars, DeskTypes
<1>2. ASSUME Enter PROVE DeskTypes'
  BY <1>2 DEF Enter, OpenWindow, clipboard, DeskTypes
<1>3. ASSUME Act PROVE DeskTypes'
  BY <1>3, SecretTypes, MarksTypes, AnswersTypes, AsksTypes, LeavesTypes DEF Act
<1> QED
  BY <1>1, <1>2, <1>3, BrowseTypes, TimeTypes DEF Next, Work, WindowNext

LEMMA TypesInit == Init => DeskTypes
<1> SUFFICES ASSUME Init PROVE DeskTypes
  OBVIOUS
<1>1. modal.kind = "none" /\ clip.of = NoName
  BY DEF Init, WindowInit, NoModal, NoClip
<1>2. changes \in 0..MaxChanges /\ moves \in 0..MaxMoves
  BY DEF Init, WindowInit
<1>3. /\ session = "none" /\ open = FALSE /\ locked = "no" /\ tickDue = FALSE /\ adrift = FALSE
      /\ lastSelected = Unset
  BY DEF Init, WindowInit
<1> QED
  BY <1>1, <1>2, <1>3 DEF DeskTypes, Kinds

-----------------------------------------------------------------------------
(* What the dialog refers to. *)

Working == {"started", "creating", "opening"}

DialogInv ==
  /\ stored \in Passwords \cup {NoVault} /\ dialog \in {"open", "accepted", "rejected"}
  /\ exists \in BOOLEAN /\ told \in BOOLEAN
  /\ Len(attempts) <= MaxAttempts /\ held <= Len(attempts)
  /\ outcome \in 0..Len(attempts) /\ recovered \in 0..MaxRecovered
  /\ BusyForAReason

LEMMA DialogDomains ==
  TalkInv => DOMAIN attempts = 1..Len(attempts) /\ DOMAIN events = 1..Len(events)
             /\ Len(attempts) \in Nat /\ Len(events) \in Nat
             /\ \A i \in 1..Len(attempts) : attempts[i] \in Attempt
BY DEF TalkInv

LEMMA DialogInit == Init => DialogInv
<1> SUFFICES ASSUME Init PROVE DialogInv
  OBVIOUS
<1>1. /\ attempts = <<>> /\ held = 0 /\ outcome = 0 /\ recovered = 0 /\ busy = FALSE
      /\ dialog = "open" /\ stored \in Passwords \cup {NoVault} /\ told = FALSE
      /\ exists = (stored # NoVault)
  BY DEF Init, UnlockInit
<1>2. Len(attempts) = 0
  BY <1>1
<1>3. exists \in BOOLEAN
  BY <1>1, Zenon
<1>4. /\ recovered \in 0..MaxRecovered /\ Len(attempts) <= MaxAttempts
      /\ held <= Len(attempts) /\ outcome \in 0..Len(attempts)
  BY <1>1, <1>2
<1>5. BusyForAReason /\ told \in BOOLEAN
  BY <1>1 DEF BusyForAReason
<1>6. dialog \in {"open", "accepted", "rejected"}
  BY <1>1
<1> QED
  BY <1>1, <1>3, <1>4, <1>5, <1>6 DEF DialogInv

LEMMA StartDialog ==
  ASSUME TalkInv, DialogInv, Free, NEW password \in Passwords, NEW create,
         StartUnlock(password, create),
         stored' \in Passwords \cup {NoVault}, recovered' \in 0..MaxRecovered,
         create \in BOOLEAN
  PROVE  DialogInv'
<1> DEFINE new == [password |-> password, create |-> create, at |-> "started"]
<1>1. /\ attempts' = Append(attempts, new) /\ held' = Len(attempts') /\ Len(attempts) < MaxAttempts
      /\ UNCHANGED <<dialog, exists, told, outcome>>
  BY DEF StartUnlock
<1>2. attempts \in Seq(Attempt) /\ new \in Attempt /\ Len(attempts) \in Nat
  BY DialogDomains DEF TalkInv, Attempt
<1>3. /\ Len(attempts') = Len(attempts) + 1 /\ DOMAIN attempts' = 1..Len(attempts) + 1
      /\ attempts'[Len(attempts) + 1].at = "started"
  BY <1>1, <1>2
<1>4. BusyForAReason'
  BY <1>2, <1>3 DEF BusyForAReason
<1> QED
  BY <1>1, <1>2, <1>3, <1>4 DEF DialogInv

\* A step of a worker, which stays at work or posts its answer.
LEMMA WorkerDialog ==
  ASSUME TalkInv, DialogInv, NEW i \in 1..MaxAttempts, WorkerStep(i)
  PROVE  DialogInv'
<1>1. i \in 1..Len(attempts) /\ attempts[i].at \in Working /\ attempts[i].password \in Passwords
  BY DialogDomains DEF WorkerStep, RunWorker, CreateVault, OpenVault, At, Working, Attempt
<1>2. /\ UNCHANGED <<dialog, exists, told, outcome, recovered, held, busy>>
      /\ stored' \in {stored, attempts[i].password}
  BY DEF WorkerStep, RunWorker, CreateVault, OpenVault, Answers
<1>3. (\E kind \in Answer : Answers(i, kind)) \/ \E at \in Working : Moves(i, at)
  BY DEF WorkerStep, RunWorker, CreateVault, OpenVault, Answer, Working
<1>4. PICK at \in {"started", "creating", "opening", "answered", "finished", "dropped"} : Moves(i, at)
  BY <1>3 DEF Answers, Working
<1>5. Len(attempts') = Len(attempts) /\ DOMAIN attempts' = 1..Len(attempts)
  BY <1>1, <1>4, MovesAttempts
<1>6. BusyForAReason'
  <2>1. CASE \E kind \in Answer : Answers(i, kind)
    <3>1. PICK kind \in Answer : Answers(i, kind)
      BY <2>1
    <3>2. events' = Posted(i, <<kind, "quit">>) /\ i \in Nat
      BY <3>1 DEF Answers
    <3>3. /\ events' \in Seq(Events) /\ Len(events') = Len(events) + 2
          /\ events'[Len(events) + 1] = [kind |-> kind, of |-> i]
      BY <3>2, PostedEvents
    <3>4. Len(events) + 1 \in DOMAIN events' /\ events'[Len(events) + 1].kind \in Answer
      BY <3>3, DialogDomains
    <3> QED
      BY <3>4 DEF BusyForAReason, Answer
  <2>2. CASE \E to \in Working : Moves(i, to)
    <3>1. PICK to \in Working : Moves(i, to)
      BY <2>2
    <3>2. attempts'[i].at = to
      BY <1>1, <3>1, MovesAttempts DEF Working
    <3> QED
      BY <1>1, <1>5, <3>1, <3>2 DEF BusyForAReason, Working
  <2> QED
    BY <1>3, <2>1, <2>2
<1> QED
  BY <1>1, <1>2, <1>5, <1>6 DEF DialogInv

\* What is delivered: an answer ends the wait, and nothing else does.
LEMMA DeliverDialog == ASSUME TalkInv, DialogInv, Deliver PROVE DialogInv'
<1>1. /\ events # <<>> /\ UNCHANGED <<stored, exists, recovered>>
  BY DEF Deliver, OnUnlockSucceeded, OnUnlockFailed, QuitThread, ClearWorkerRefs, Delivers
<1>2. /\ Tail(events) \in Seq(Events) /\ Len(events) \in Nat /\ Len(events) >= 1
      /\ Len(Tail(events)) = Len(events) - 1 /\ Head(events) = events[1]
      /\ \A k \in 1..Len(Tail(events)) : Tail(events)[k] = events[k + 1] /\ k + 1 \in 1..Len(events)
  BY <1>1, TailOfEvents
<1>3. events[1].of \in 1..Len(attempts) /\ attempts[events[1].of].at \in Done
  <2>1. 1 \in 1..Len(events)
    BY <1>2
  <2> QED
    BY <2>1 DEF TalkInv
<1>4. ASSUME OnUnlockSucceeded PROVE DialogInv'
  <2>1. /\ dialog' = "accepted" /\ outcome' = events[1].of /\ UNCHANGED <<attempts, held, told>>
    BY <1>2, <1>4 DEF OnUnlockSucceeded
  <2> QED
    BY <1>1, <1>3, <2>1, DialogDomains DEF DialogInv, BusyForAReason
<1>5. ASSUME OnUnlockFailed PROVE DialogInv'
  <2>1. /\ busy' = FALSE /\ told' = TRUE /\ UNCHANGED <<dialog, held, attempts, outcome>>
    BY <1>5 DEF OnUnlockFailed
  <2> QED
    BY <1>1, <2>1 DEF DialogInv, BusyForAReason
<1>6. ASSUME Head(events).kind \notin Answer,
             events' = Tail(events) \/ \E s \in Events : events' = Append(Tail(events), s),
             NEW k \in DOMAIN events, events[k].kind \in Answer
      PROVE  \E j \in DOMAIN events' : events'[j].kind \in Answer
  <2>1. k \in 2..Len(events)
    BY <1>2, <1>6, DialogDomains
  <2>2. k - 1 \in 1..Len(Tail(events)) /\ Tail(events)[k - 1] = events[k]
    BY <1>2, <2>1
  <2>3. k - 1 \in DOMAIN events' /\ events'[k - 1] = Tail(events)[k - 1]
    BY <1>2, <1>6, <2>2
  <2> QED
    BY <1>6, <2>2, <2>3
<1>7. ASSUME QuitThread PROVE DialogInv'
  <2> DEFINE who == events[1].of
             last == [kind |-> "finished", of |-> who]
  <2>1. /\ Moves(who, "finished") /\ events' = Append(Tail(events), last)
        /\ Head(events).kind = "quit" /\ UNCHANGED <<dialog, busy, held, told, outcome>>
    BY <1>2, <1>7 DEF QuitThread, Delivers
  <2>2. /\ Len(attempts') = Len(attempts) /\ DOMAIN attempts' = 1..Len(attempts)
        /\ \A j \in 1..Len(attempts) : j # who => attempts'[j] = attempts[j]
    BY <1>3, <2>1, MovesAttempts
  <2>3. last \in Events
    BY <1>3, DialogDomains DEF Events
  <2>4. \A k \in DOMAIN events : events[k].kind \in Answer =>
          \E j \in DOMAIN events' : events'[j].kind \in Answer
    BY <1>6, <2>1, <2>3 DEF Answer
  <2>5. \A j \in 1..Len(attempts) : attempts[j].at \notin Done => attempts'[j] = attempts[j]
    BY <1>3, <2>2
  <2>6. BusyForAReason'
    <3>1. \A j \in 1..Len(attempts) :
            attempts[j].at \in Working \cup {"dropped"} => attempts'[j].at = attempts[j].at
      BY <2>5 DEF Working, Done
    <3> QED
      BY <2>1, <2>2, <2>4, <3>1, DialogDomains
      DEF DialogInv, BusyForAReason, Dropped, Working, Answer
  <2> QED
    BY <1>1, <2>1, <2>2, <2>6 DEF DialogInv
<1>8. ASSUME ClearWorkerRefs PROVE DialogInv'
  <2>1. /\ events' = Tail(events) /\ held' = 0 /\ Head(events).kind = "finished"
        /\ attempts' = [i \in DOMAIN attempts |->
                          IF i = held /\ attempts[i].at = "started"
                          THEN [attempts[i] EXCEPT !.at = "dropped"] ELSE attempts[i]]
        /\ UNCHANGED <<dialog, busy, told, outcome>>
    BY <1>8 DEF ClearWorkerRefs, Delivers
  <2>2. Len(attempts') = Len(attempts) /\ DOMAIN attempts' = 1..Len(attempts)
    BY <2>1, DialogDomains
  <2>3. \A k \in DOMAIN events : events[k].kind \in Answer =>
          \E j \in DOMAIN events' : events'[j].kind \in Answer
    BY <1>6, <2>1 DEF Answer
  <2>4. \A j \in 1..Len(attempts) :
          attempts[j].at \in Working \cup {"dropped"} =>
            attempts'[j].at \in {attempts[j].at, "dropped"}
    BY <2>1, DialogDomains DEF Attempt
  <2>5. BusyForAReason'
    BY <2>1, <2>2, <2>3, <2>4, DialogDomains
    DEF DialogInv, BusyForAReason, Dropped, Working, Answer
  <2> QED
    BY <1>1, <2>1, <2>2, <2>5, DialogDomains DEF DialogInv
<1> QED
  BY <1>4, <1>5, <1>7, <1>8 DEF Deliver

LEMMA StepKeepsDialog ==
  ASSUME TalkInv, DialogInv, [Next]_vars PROVE DialogInv'
<1>1. ASSUME NEW password \in Passwords, Submit(password) PROVE DialogInv'
  <2> DEFINE create == ~exists
  <2>1. create \in BOOLEAN
    OBVIOUS
  <2>2. Free /\ StartUnlock(password, create) /\ UNCHANGED <<stored, recovered>>
    BY <1>1 DEF Submit
  <2> HIDE DEF create
  <2> QED
    BY <2>1, <2>2, StartDialog DEF DialogInv
<1>2. ASSUME NEW password \in Passwords, Recover(password) PROVE DialogInv'
  <2>1. recovered' \in 0..MaxRecovered
    BY <1>2 DEF Recover, ResetPassword, DialogInv
  <2> QED
    BY <1>2, <2>1, StartDialog DEF Recover, ResetPassword
<1>3. ASSUME NEW password \in Passwords, CreatedElsewhere(password) PROVE DialogInv'
  BY <1>3 DEF CreatedElsewhere, DialogInv, BusyForAReason, Dropped
<1>4. ASSUME Reject \/ DismissFailure PROVE DialogInv'
  <2>1. /\ UNCHANGED <<stored, exists, busy, held, attempts, events, outcome, recovered>>
        /\ dialog' = dialog \/ (dialog' = "rejected" /\ ~busy)
    BY <1>4 DEF Reject, DismissFailure, Free
  <2>2. told' \in BOOLEAN
    BY <1>4 DEF Reject, DismissFailure, DialogInv
  <2>3. BusyForAReason'
    BY <2>1 DEF DialogInv, BusyForAReason, Dropped
  <2> QED
    BY <2>1, <2>2, <2>3 DEF DialogInv
<1>5. ASSUME Enter PROVE DialogInv'
  <2>1. /\ exists' = TRUE /\ busy' = FALSE /\ held' = 0 /\ attempts' = <<>> /\ outcome' = 0
        /\ recovered' = 0 /\ UNCHANGED <<stored, dialog, told>>
    BY <1>5 DEF Enter
  <2>2. /\ recovered' \in 0..MaxRecovered /\ Len(attempts') <= MaxAttempts
        /\ held' <= Len(attempts') /\ outcome' \in 0..Len(attempts')
    <3>1. Len(attempts') = 0
      BY <2>1
    <3> QED
      BY <2>1, <3>1
  <2>3. exists' \in BOOLEAN /\ BusyForAReason'
    BY <2>1 DEF BusyForAReason
  <2>4. stored' = stored /\ dialog' = dialog /\ told' = told
    BY <2>1
  <2>5. /\ stored' \in Passwords \cup {NoVault} /\ dialog' \in {"open", "accepted", "rejected"}
        /\ told' \in BOOLEAN
    BY <2>4 DEF DialogInv
  <2> QED
    BY <2>2, <2>3, <2>5 DEF DialogInv
<1>6. ASSUME Work \/ UNCHANGED vars PROVE DialogInv'
  BY <1>6 DEF Work, vars, unlockVars, DialogInv, BusyForAReason, Dropped
<1> QED
  BY <1>1, <1>2, <1>3, <1>4, <1>5, <1>6, WorkerDialog, DeliverDialog DEF Next, Unlock, UnlockNext

-----------------------------------------------------------------------------
(* Theorems. *)

LEMMA TimeHolds == Spec => []TimeInv
<1> QED
  BY TimeInit, StepKeepsTime, PTL DEF Spec

LEMMA TalkHolds == Spec => []TalkInv
<1> QED
  BY TalkInit, StepKeepsTalk, PTL DEF Spec

LEMMA AskHolds == Spec => []AskInv
<1>1. AskInv /\ [Next]_vars => AskInv'
  BY StepKeepsAsk
<1> QED
  BY <1>1, AskInit, PTL DEF Spec

LEMMA ScreenHolds == Spec => []ScreenInv
<1>1. TimeInv /\ AskInv /\ ScreenInv /\ [Next]_vars => ScreenInv'
  BY StepKeepsScreen
<1> QED
  BY <1>1, ScreenInit, TimeHolds, AskHolds, PTL DEF Spec

LEMMA TypesHold == Spec => []DeskTypes
<1>1. TimeInv /\ ScreenInv /\ DeskTypes /\ [Next]_vars => DeskTypes'
  BY StepKeepsTypes
<1> QED
  BY <1>1, TypesInit, TimeHolds, ScreenHolds, PTL DEF Spec

LEMMA DialogHolds == Spec => []DialogInv
<1>1. TalkInv /\ DialogInv /\ [Next]_vars => DialogInv'
  BY StepKeepsDialog
<1> QED
  BY <1>1, DialogInit, TalkHolds, PTL DEF Spec

\* Every variable of the dialog and the window keeps its type, whatever the attempts,
\* the events, the timers and the widgets do; the counts that bound a run included.
THEOREM DesktopTypes == Spec => []TypeOK
<1>1. TalkInv /\ DialogInv => UnlockTypeOK
  <2> SUFFICES ASSUME TalkInv, DialogInv PROVE UnlockTypeOK
    OBVIOUS
  <2>1. /\ attempts \in Seq(Attempt) /\ Len(attempts) \in Nat /\ Len(attempts) <= MaxAttempts
        /\ events \in Seq(Events) /\ DOMAIN events = 1..Len(events)
    BY DialogDomains DEF TalkInv, DialogInv, Events
  <2>2. \A k \in 1..Len(events) : events[k] \in Event
    <3> TAKE k \in 1..Len(events)
    <3>1. events[k] \in Events /\ events[k].of \in 1..Len(attempts)
      BY <2>1 DEF TalkInv
    <3>2. events[k].of \in 1..MaxAttempts
      BY <2>1, <3>1
    <3> QED
      BY <3>1, <3>2 DEF Events, Event, Answer
  <2>3. events \in Seq(Event)
    BY <2>1, <2>2
  <2>4. held \in 0..Len(attempts) /\ busy \in BOOLEAN
    BY <2>1 DEF TalkInv, DialogInv
  <2> QED
    BY <2>1, <2>3, <2>4 DEF DialogInv, UnlockTypeOK
<1>2. TimeInv /\ AskInv /\ ScreenInv /\ DeskTypes => WindowTypeOK
  <2> SUFFICES ASSUME TimeInv, AskInv, ScreenInv, DeskTypes PROVE WindowTypeOK
    OBVIOUS
  <2>1. vault \in Seq(View) /\ \A i, j \in DOMAIN vault : vault[i].name = vault[j].name => i = j
    <3>1. vault \in Seq(View) /\ Unique(vault)
      BY DEF AskInv
    <3>2. DOMAIN vault = 1..Len(vault)
      BY <3>1
    <3> QED
      BY <3>1, <3>2 DEF Unique
  <2>2. win \in Window
    BY DEF ScreenInv, WellShown
  <2> QED
    BY <2>1, <2>2 DEF TimeInv, DeskTypes, Kinds, WindowTypeOK
<1>3. TimeInv /\ TalkInv /\ AskInv /\ ScreenInv /\ DeskTypes /\ DialogInv => TypeOK
  BY <1>1, <1>2 DEF TypeOK
<1> QED
  BY <1>3, TimeHolds, TalkHolds, AskHolds, ScreenHolds, TypesHold, DialogHolds, PTL

\* Whatever is open above the window, and whichever timer fires first, a window
\* that was left alone for as long as the settings say is locked (_tick,
\* check_auto_lock).
THEOREM IdleIsLocked == Spec => []LocksWhenIdle
<1>1. TimeInv => LocksWhenIdle
  BY DEF TimeInv
<1> QED
  BY <1>1, TimeHolds, PTL

\* For every delay and any number of copies, timers of earlier copies included: no
\* secret outstays the settings in the clipboard, nor a lock (copy_secret,
\* check_auto_lock).
THEOREM ClipboardCleared == Spec => []ClipboardIsBrief
<1>1. TimeInv => ClipboardIsBrief
  <2> SUFFICES ASSUME TimeInv PROVE ClipboardIsBrief
    OBVIOUS
  <2>1. locked # "no" => clip = NoClip
    BY DEF TimeInv
  <2>2. ASSUME open, clip # NoClip PROVE clip.age <= ClearSeconds
    <3>1. PICK t \in timers : t + clip.age <= ClearSeconds
      BY <2>2 DEF TimeInv, Covered
    <3> QED
      BY <3>1 DEF TimeInv
  <2>3. NoClip.age <= ClearSeconds
    BY DEF NoClip
  <2> QED
    BY <2>1, <2>2, <2>3 DEF ClipboardIsBrief
<1> QED
  BY <1>1, TimeHolds, PTL

\* For any number of attempts, however their threads and the dialog's event loop
\* interleave: a dialog that was closed has no attempt on its way (reject, which
\* _busy guards).
THEOREM NobodyUnlocksUnseen == Spec => []NoSessionIsLost
<1>1. TalkInv => NoSessionIsLost
  <2> SUFFICES ASSUME TalkInv, dialog = "rejected"
               PROVE  /\ \A i \in DOMAIN attempts : attempts[i].at \in {"answered", "finished"}
                      /\ \A k \in DOMAIN events : events[k].kind # "succeeded"
    BY DEF NoSessionIsLost
  <2>1. DOMAIN attempts = 1..Len(attempts) /\ DOMAIN events = 1..Len(events)
    BY DEF TalkInv
  <2> QED
    BY <2>1 DEF TalkInv, Done, Answer
<1> QED
  BY <1>1, TalkHolds, PTL

\* For any vault and any filter, and whatever timer fires while the question is open:
\* only the entry the question named is deleted or moved to the trash (delete_entry,
\* _apply_filter).
THEOREM DeletesAsAsked == Spec => DeletesWhatWasAsked
<1>1. AskInv /\ [Next]_vars => [AsAsked]_windowVars
  BY StepKeepsAsk
<1>2. Spec => [][AsAsked]_windowVars
  BY <1>1, AskHolds, PTL DEF Spec
<1> QED
  BY <1>2 DEF DeletesWhatWasAsked

\* For any number of attempts: a dialog whose controls are disabled has an attempt on
\* its way or an answer to come, unless the worker was collected before it was called
\* (_set_busy, _on_unlock_failed, _clear_worker_refs).
THEOREM NotBusyForNothing == Spec => []BusyForAReason
<1>1. DialogInv => BusyForAReason
  BY DEF DialogInv
<1> QED
  BY <1>1, DialogHolds, PTL

\* For any vault, filter and page: the pane shows the row that is chosen, and the
\* table the page of the vault the filter leaves, unless the filter's timer is about
\* to fire (_apply_filter, _on_select).
THEOREM ScreenTrue == Spec => []ScreenIsTrue
<1>1. TimeInv /\ ScreenInv => ScreenIsTrue
  <2> SUFFICES ASSUME TimeInv, ScreenInv PROVE DetailIsTheRow /\ ListIsCurrent
    BY DEF ScreenIsTrue
  <2>1. win.rows \in Seq(View)
    BY WindowFields DEF ScreenInv, WellShown
  <2>2. DOMAIN win.rows = 1..Len(win.rows)
    BY <2>1
  <2>3. DetailIsTheRow
    BY <2>2 DEF ScreenInv, WellShown, PaneIsTheRow, DetailIsTheRow
  <2>4. ListIsCurrent
    BY DEF ScreenInv, Synced, ListIsCurrent
  <2> QED
    BY <2>3, <2>4
<1> QED
  BY <1>1, TimeHolds, ScreenHolds, PTL

\* For any vault, also after a failed change or a reload: under the settings that ask
\* to reveal first, what is copied is the secret of the entry in the pane, and was on
\* the screen (toggle_reveal, copy_secret).
THEOREM CopiedWasShown == Spec => WhatIsCopiedWasShown
<1> DEFINE Shown == Copied /\ RevealFirst => win.current.name = clip'.of /\ win.label = clip'.of
<1>1. TimeInv /\ ScreenInv /\ [Next]_vars => [Shown]_windowVars
  BY CopiesOnly, CopyIsShown
<1>2. Spec => [][Shown]_windowVars
  BY <1>1, TimeHolds, ScreenHolds, PTL DEF Spec
<1> QED
  BY <1>2 DEF WhatIsCopiedWasShown

=============================================================================
