----------------------------- MODULE Directory -----------------------------
(* The lists administrators, providers and customers page through: a tab    *)
(* filters the rows by status, a sort orders them, getPagination cuts them. *)
(* A list filters in the database, in memory after mapping each row to the  *)
(* status it is shown with, or in both.                                     *)
(*                                                                          *)
(* One table at a time; its rows are a sequence in the order of creation,   *)
(* created_at being unique, and fewer than the 10000 that a list kept in    *)
(* memory reads.  A payment's amount is Full.  Sorts: by creation, or by    *)
(* the figure the list adds up or shows; not by a name or a status.         *)
EXTENDS Integers, Sequences, FiniteSets, SequencesExt

CONSTANTS
  MaxListed,      \* bound of the model: rows of the table
  Full,           \* a payment's amount
  MaxPageLimit    \* MAX_PAGE_LIMIT: 100

ASSUME DirectoryAssumption == {MaxListed, Full, MaxPageLimit} \subseteq Nat \ {0}

VARIABLES
  table,     \* the table the lists are of
  listed,    \* its rows
  aged       \* how many of them, the oldest, were created over thirty days ago

directoryVars == <<table, listed, aged>>

UserStatuses == {"PENDING", "APPROVED", "REJECTED", "SUSPENDED", "BLOCKED"}
GiftStatuses == {"ACTIVE", "INACTIVE", "OUT_OF_STOCK"}
StatusOf == [providers |-> UserStatuses, users |-> UserStatuses, items |-> GiftStatuses,
             payments |-> {"PENDING", "PROCESSING", "SUCCEEDED", "FAILED", "CANCELLED", "REFUNDED"}]

\* figure: revenue, total spent or sales.  refunded: the sum over the payment's refund
\* requests; adminRefund: the refund status in its metadata.
PlainRow(statuses) == [status : statuses, figure : 0..1]
PaidRow == [status : StatusOf.payments, refunded : 0..Full,
            adminRefund : {"NONE", "PARTIALLY_REFUNDED", "REFUNDED"}]
ListedRow == IF table = "payments" THEN PaidRow ELSE PlainRow(StatusOf[table])

DirectoryInit == table \in DOMAIN StatusOf /\ listed = <<>> /\ aged = 0

NewListed ==
  IF table = "payments" THEN {[status |-> "PENDING", refunded |-> 0, adminRefund |-> "NONE"]}
  ELSE [status : IF table = "items" THEN {"ACTIVE"} ELSE {"PENDING", "APPROVED"}, figure : {0}]

AddRow ==
  /\ Len(listed) < MaxListed
  /\ \E row \in NewListed : listed' = Append(listed, row)
  /\ UNCHANGED <<table, aged>>

\* The account's lifecycle, the item's status, and what it earns.
ChangeRow(i) ==
  /\ table # "payments"
  /\ \E row \in PlainRow(StatusOf[table]) :
       row.figure >= listed[i].figure /\ listed' = [listed EXCEPT ![i] = row]
  /\ UNCHANGED <<table, aged>>

SettleRow(i) ==
  /\ table = "payments" /\ listed[i].status \in {"PENDING", "PROCESSING"}
  /\ \E s \in {"PROCESSING", "SUCCEEDED", "FAILED", "CANCELLED"} :
       listed' = [listed EXCEPT ![i].status = s]
  /\ UNCHANGED <<table, aged>>

\* A refund request on the payment, or the administrator's refund.
Repaid(row, amount) ==
  IF row.refunded + amount = Full
  THEN [row EXCEPT !.status = "REFUNDED", !.refunded = Full, !.adminRefund = "REFUNDED"]
  ELSE [row EXCEPT !.refunded = @ + amount, !.adminRefund = "PARTIALLY_REFUNDED"]

RefundListed(i) ==
  /\ table = "payments" /\ listed[i].status = "SUCCEEDED"
  /\ \E amount \in 1 .. Full - listed[i].refunded :
       listed' = [listed EXCEPT ![i] = Repaid(@, amount)]
  /\ UNCHANGED <<table, aged>>

RequestOnRow(i) ==
  /\ table = "payments" /\ listed[i].status = "SUCCEEDED"
  /\ \E amount \in 1 .. Full - listed[i].refunded :
       listed' = [listed EXCEPT ![i].refunded = @ + amount]
  /\ UNCHANGED <<table, aged>>

\* Thirty days have passed since the next row was created.
RowAges ==
  /\ table = "payments" /\ aged < Len(listed)
  /\ aged' = aged + 1
  /\ UNCHANGED <<table, listed>>

DirectoryNext ==
  \/ AddRow
  \/ RowAges
  \/ \E i \in 1..Len(listed) : ChangeRow(i) \/ SettleRow(i) \/ RefundListed(i) \/ RequestOnRow(i)

DirectorySpec == DirectoryInit /\ [][DirectoryNext]_directoryVars

-----------------------------------------------------------------------------
(* The status a row is shown with. *)

\* toStatus of providers, of users and of a provider's items.
ToStatus(row) == row.status

\* The platform's analytics: any refund request makes the payment a refunded one.
AnalyticsStatus(row) ==
  CASE row.status = "REFUNDED" \/ row.refunded > 0 -> "REFUNDED"
    [] row.status = "SUCCEEDED" -> "COMPLETED"
    [] row.status \in {"FAILED", "CANCELLED"} -> "FAILED"
    [] OTHER -> "PENDING"

AdminStatus(row) ==
  CASE row.adminRefund = "PARTIALLY_REFUNDED" -> "PARTIALLY_REFUNDED"
    [] row.status = "REFUNDED" \/ row.refunded >= Full -> "REFUNDED"
    [] row.refunded > 0 -> "PARTIALLY_REFUNDED"
    [] row.status = "SUCCEEDED" -> "SUCCESS"
    [] row.status \in {"FAILED", "CANCELLED"} -> "FAILED"
    [] OTHER -> "PENDING"

CustomerStatus(row) ==
  CASE row.status = "SUCCEEDED" -> "SUCCESS"
    [] row.status \in {"FAILED", "REFUNDED", "CANCELLED"} -> row.status
    [] OTHER -> "PENDING"

-----------------------------------------------------------------------------
(* Tabs: where is what the database selects, shown what the memory filter   *)
(* compares with the tab.                                                   *)

\* statusWhere of providers and of users.
StatusWhere(tab, row) == tab = "ALL" \/ row.status = tab

\* Mutant: a payment in processing is no pending one.
MutantPaymentWhere(tab, row) ==
  CASE tab = "COMPLETED" -> row.status = "SUCCEEDED"
    [] tab = "PENDING" -> row.status = "PENDING"
    [] tab = "FAILED" -> row.status \in {"FAILED", "CANCELLED"}
    [] OTHER -> TRUE

PaymentWhere(tab, row) ==
  CASE tab = "COMPLETED" -> row.status = "SUCCEEDED"
    [] tab = "PENDING" -> row.status \in {"PENDING", "PROCESSING"}
    [] tab = "FAILED" -> row.status \in {"FAILED", "CANCELLED"}
    [] OTHER -> TRUE

ListsOf == [providers |-> {"providers"}, users |-> {"users"}, items |-> {"items"},
            payments |-> {"analytics", "admin", "customer"}]

\* The statuses the query of each list may ask for.
ProviderTabs == UserStatuses
UserTabs == UserStatuses
ItemTabs == GiftStatuses
AnalyticsTabs == {"COMPLETED", "PENDING", "FAILED", "REFUNDED"}
AdminTabs == {"SUCCESS", "PENDING", "FAILED", "REFUNDED", "PARTIALLY_REFUNDED"}
CustomerTabs == {"SUCCESS", "FAILED", "PENDING", "REFUNDED", "CANCELLED"}
Tabs == [providers |-> ProviderTabs, users |-> UserTabs, items |-> ItemTabs,
         analytics |-> AnalyticsTabs, admin |-> AdminTabs, customer |-> CustomerTabs]

Shown(list, i) ==
  CASE list = "analytics" -> AnalyticsStatus(listed[i])
    [] list = "admin" -> AdminStatus(listed[i])
    [] list = "customer" -> CustomerStatus(listed[i])
    [] OTHER -> ToStatus(listed[i])

\* range: the last thirty days, unless the query is dated; its dates then take in all rows.
Dates(list) == IF list \in {"analytics", "admin"} THEN BOOLEAN ELSE {FALSE}
InRange(dated, i) == dated \/ i > aged

Where(list, tab, dated, i) ==
  CASE list \in {"providers", "users"} -> StatusWhere(tab, listed[i])
    [] list = "analytics" -> InRange(dated, i) /\ PaymentWhere(tab, listed[i])
    [] list = "admin" -> InRange(dated, i)
    [] OTHER -> TRUE

Matches(list, tab, i) == tab = "ALL" \/ Shown(list, i) = tab

Selected(list, tab, dated) ==
  {i \in 1..Len(listed) : /\ Where(list, tab, dated, i)
                          /\ list \notin {"providers", "users"} => Matches(list, tab, i)}

-----------------------------------------------------------------------------
(* Sorts and pages. *)

Sorts == [by : {"createdAt", "figure"}, ascending : BOOLEAN]

Directed(sort, a, b) == IF sort.ascending THEN a < b ELSE b < a
Figure(i) == IF table = "payments" THEN Full ELSE listed[i].figure

\* arrival[i]: the place at which a query hands over the row.  That of a provider's items
\* asks for no order, the others for the newest first; where creation sorts the rows, it
\* makes no difference.
Arrivals(list, sort) ==
  IF list = "items" /\ sort.by = "figure" THEN Injection(1..Len(listed), 1..Len(listed))
  ELSE {[i \in 1..Len(listed) |-> Len(listed) + 1 - i]}

\* Rows with the same figure stay as they come, or are put newest first, which is the same.
Before(sort, arrival, i, j) ==
  IF sort.by = "createdAt" THEN Directed(sort, i, j)
  ELSE \/ Directed(sort, Figure(i), Figure(j))
       \/ Figure(i) = Figure(j) /\ arrival[i] < arrival[j]

\* The k-th row is the one with k - 1 rows before it.
Sorted(list, tab, dated, sort, arrival) ==
  LET rows == Selected(list, tab, dated)
      Ahead(i) == {j \in rows : Before(sort, arrival, j, i)}
  IN  [k \in 1..Cardinality(rows) |-> CHOOSE i \in rows : Cardinality(Ahead(i)) = k - 1]

GetPagination(page, requested) ==
  LET limit == IF requested <= MaxPageLimit THEN requested ELSE MaxPageLimit
  IN  [skip |-> (page - 1) * limit, take |-> limit]

Page(found, page, limit) ==
  LET cut == GetPagination(page, limit)
  IN  SubSeq(found, cut.skip + 1, IF cut.skip + cut.take <= Len(found)
                                  THEN cut.skip + cut.take ELSE Len(found))

\* Math.ceil(total / limit)
TotalPages(total, limit) ==
  LET take == GetPagination(1, limit).take IN (total + take - 1) \div take

\* An export has no pages: the tab's rows newest first, or as the administrator sorts them.
NewestFirst == [by |-> "createdAt", ascending |-> FALSE]
Export(list, tab, dated, sort, arrival) ==
  Sorted(list, tab, dated, IF list = "admin" THEN sort ELSE NewestFirst, arrival)

\* The provider lookup, and what the platform's statistics call inactive.
ProviderLookup(isActive) ==
  {i \in 1..Len(listed) :
     listed[i].status \in IF isActive THEN {"APPROVED"} ELSE {"BLOCKED", "SUSPENDED", "REJECTED"}}
InactiveProviders ==
  {i \in 1..Len(listed) : listed[i].status \in {"BLOCKED", "SUSPENDED", "REJECTED"}}

-----------------------------------------------------------------------------
DirectoryTypeOK ==
  table \in DOMAIN StatusOf /\ listed \in Seq(ListedRow) /\ aged \in 0..Len(listed)

\* The rows a tab is for: a payment of over thirty days ago is on the administrator's pages
\* and in the platform's analytics only if dates are asked.
AsksFor(list, tab, dated, i) ==
  /\ tab \in {"ALL", Shown(list, i)}
  /\ list \in {"analytics", "admin"} /\ ~dated => i > aged

\* Nothing orders a provider's items with the same sales: their order may change from page
\* to page.
InTie(list, sort, rows, i) ==
  /\ list = "items" /\ sort.by = "figure"
  /\ \E j \in rows \ {i} : Figure(j) = Figure(i)

PlacesIn(pages, i) ==
  {place \in (DOMAIN pages) \X (1..MaxListed) :
     place[2] <= Len(pages[place[1]]) /\ pages[place[1]][place[2]] = i}

\* arrivals[p]: how the query of page p hands the rows over.
PagesCover(list, tab, dated, sort, limit, arrivals) ==
  LET rows == Selected(list, tab, dated)
      pages == [p \in DOMAIN arrivals |->
                  Page(Sorted(list, tab, dated, sort, arrivals[p]), p, limit)]
  IN  /\ \A i \in 1..Len(listed) :
           /\ AsksFor(list, tab, dated, i) /\ ~InTie(list, sort, rows, i) =>
                Cardinality(PlacesIn(pages, i)) = 1
           /\ ~AsksFor(list, tab, dated, i) => PlacesIn(pages, i) = {}
      /\ sort = NewestFirst =>
           \A arrival \in Arrivals(list, sort) :
             FlattenSeq(pages) = Export(list, tab, dated, sort, arrival)

\* Whatever the list, the sort and the page size, and however each page's query hands the
\* rows over, going through the pages of the tab named by the status a row is shown with
\* meets the row exactly once, as does going through the pages of ALL, and no other tab
\* has it; but for the default range and for the items in a tie by sales.  The export of a
\* tab is its pages, newest first.  The active and the inactive lookup of providers have
\* those of the tabs they stand for.  (An empty list has no pages.)
PagesCoverTheList ==
  listed # << >> =>
    /\ \A list \in ListsOf[table] :
         \A tab \in Tabs[list] \cup {"ALL"}, dated \in Dates(list),
            sort \in Sorts, limit \in 1..MaxPageLimit + 1 :
           LET count == TotalPages(Cardinality(Selected(list, tab, dated)), limit)
           IN  \A arrivals \in [1..count -> Arrivals(list, sort)] :
                 PagesCover(list, tab, dated, sort, limit, arrivals)
    /\ table = "providers" =>
         /\ ProviderLookup(TRUE) = Selected("providers", "APPROVED", FALSE)
         /\ ProviderLookup(FALSE) = InactiveProviders
         /\ Selected("providers", "ALL", FALSE) =
              ProviderLookup(TRUE) \cup ProviderLookup(FALSE)
                \cup Selected("providers", "PENDING", FALSE)
=============================================================================
