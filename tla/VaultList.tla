------------------------------ MODULE VaultList ------------------------------
(***************************************************************************)
(* The list of the desktop's window as it is computed: the state of its    *)
(* view model (section, category, order, query, page, highlighted entry),  *)
(* what every navigation makes of it, and the page of entries it shows.    *)
(***************************************************************************)
EXTENDS Integers, Sequences, FiniteSets

CONSTANTS Names,      \* names of entries, numbered in alphabetical order
          Categories, \* names of categories
          CategoryOf, \* CategoryOf[n]: the category of the entry named n
          Sections,   \* the sections of the sidebar
          Queries,    \* what is typed into the search box; a name finds its entry
          PageSize    \* how many entries a page shows

ASSUME NamesAreNumbers == Names \subseteq Nat \ {0}
ASSUME ListAssumption ==
  /\ CategoryOf \in [Names -> Categories]
  /\ "Vault" \in Sections
  /\ Sections \subseteq {"Vault", "Categories", "Favorites", "Zero Trust", "Shared", "Trash"}
  /\ Names \subseteq Queries /\ 0 \in Queries
  /\ PageSize \in Nat \ {0}

NoName == 0
NoQuery == 0
AllCategories == "All categories"
Dashboards == {"Categories", "Zero Trust"}

\* The read model of an entry; `shared` is whether it has labels or grants.
View == [name : Names, deleted : BOOLEAN, favorite : BOOLEAN, shared : BOOLEAN]

ListState ==
  [section : Sections, category : Categories \cup {AllCategories}, sort : {"recent", "name"},
   query : Queries, page : Nat, selected : Names \cup {NoName}]

Fresh == [section |-> "Vault", category |-> AllCategories, sort |-> "recent",
          query |-> NoQuery, page |-> 0, selected |-> NoName]

\* A dashboard forgets the filters, any other section the page alone.
WithSection(st, section) ==
  IF section \in Dashboards THEN [Fresh EXCEPT !.section = section]
  ELSE [st EXCEPT !.section = section, !.page = 0]

WithCategory(st, category) == [st EXCEPT !.category = category, !.page = 0]
FromDashboard(category) == [Fresh EXCEPT !.category = category]
WithQuery(st, query) == [st EXCEPT !.query = query, !.page = 0]
ToggledSort(st) ==
  [st EXCEPT !.sort = IF @ = "recent" THEN "name" ELSE "recent", !.page = 0]
WithPage(st, page) == [st EXCEPT !.page = page]
WithSelection(st, name) == [st EXCEPT !.selected = name]
ResetFilters(st) == [Fresh EXCEPT !.section = st.section, !.selected = st.selected]

InSection(view, section) ==
  /\ section # "Zero Trust"
  /\ (section = "Trash") = view.deleted
  /\ section = "Favorites" => view.favorite
  /\ section = "Shared" => view.shared

\* The positions of the entries that section, category and query select.
Kept(views, st) ==
  {i \in DOMAIN views :
     /\ InSection(views[i], st.section)
     /\ st.category # AllCategories => CategoryOf[views[i].name] = st.category
     /\ st.query # NoQuery => views[i].name = st.query}

\* By name or in the vault's order; the sort is stable.
Precedes(views, st, i, j) ==
  IF st.sort = "name" /\ views[i].name # views[j].name
  THEN views[i].name < views[j].name ELSE i < j

\* Each kept entry is listed after the kept ones that precede it.
Filter(views, st) ==
  LET kept == Kept(views, st)
      Row(i) == 1 + Cardinality({j \in kept : Precedes(views, st, j, i)})
  IN  [k \in 1..Cardinality(kept) |-> views[CHOOSE i \in kept : Row(i) = k]]

Pages(n) == IF n = 0 THEN 1 ELSE (n + PageSize - 1) \div PageSize

\* Slip: the page is left where it was.
PagedAsIs(views, st) == st

\* The page is brought within bounds before it is shown.
Paged(views, st) ==
  LET last == Pages(Len(Filter(views, st))) - 1 IN
  IF st.page > last THEN WithPage(st, last) ELSE st

PageOf(views, st) ==
  LET found == Filter(views, st)
      first == st.page * PageSize
      end == IF first + PageSize < Len(found) THEN first + PageSize ELSE Len(found)
  IN  SubSeq(found, first + 1, end)

=============================================================================
