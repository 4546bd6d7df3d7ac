----------------------------- MODULE Pagination -----------------------------
(***************************************************************************)
(* Query parameters and pages: PaginateQueryFilter (store/paginate.go) and *)
(* GetUserFeedFilter (store/filters.go), as operators without state.       *)
(*                                                                         *)
(* A parameter is a number, a member of a small set, Absent, or Malformed  *)
(* (a text that its conversion refuses).  The integers of the program have *)
(* a width: MaxInt is the largest of them.                                 *)
(***************************************************************************)
EXTENDS Integers

CONSTANTS MaxInt,           \* the largest int, 2^63 - 1 in the program
          MaxPageSize,      \* 100 in the program
          DefaultPageSize,  \* 20 in the program
          Absent,           \* a parameter that is not given, or empty
          Malformed         \* a parameter that does not convert

ASSUME WidthAssumption == MaxInt \in Nat \ {0}
ASSUME SizesAssumption == /\ MaxPageSize \in 1..MaxInt
                          /\ DefaultPageSize \in 1..MaxPageSize
ASSUME ParameterAssumption == Absent # Malformed /\ {Absent, Malformed} \cap Int = {}

SortSafelist == {"created_at", "-created_at"}

Ints == -MaxInt - 1..MaxInt

\* Two's complement, in the width of the program's int.
Wrapped(n) == ((n + MaxInt + 1) % (2 * (MaxInt + 1))) - (MaxInt + 1)

CeilDiv(a, b) == (a + b - 1) \div b

-----------------------------------------------------------------------------
\* What Parse records with AddFieldError before it validates.
ConversionFails(q) ==
    \/ q.page # Absent /\ q.page \notin Ints
    \/ q.page_size # Absent /\ q.page_size \notin Ints
    \/ q.sort # Absent /\ q.sort \notin SortSafelist

\* A value that does not convert leaves the handler's default in place.
Page(q) == IF q.page \in Ints THEN q.page ELSE 1
PageSize(q) == IF q.page_size \in Ints THEN q.page_size ELSE DefaultPageSize
Sort(q) == IF q.sort \in SortSafelist THEN q.sort ELSE "created_at"

\* The gte and lte tags; only they decide whether recorded errors are returned.
StructValid(q) == Page(q) >= 1 /\ PageSize(q) \in 1..MaxPageSize

\* ParseFilters, and the tag of Until: gtfield fails when Since is nil.
FiltersValid(q) ==
    /\ Malformed \notin {q.since, q.until}
    /\ q.until # Absent => q.since # Absent /\ q.until > q.since

Accepted(q) == StructValid(q) /\ FiltersValid(q)

Descending(q) == Sort(q) = "-created_at"

-----------------------------------------------------------------------------
Limit(size) == size

\* A page counted from 0, and an offset in pages instead of rows.
OffsetOfNextPage(page, size) == Wrapped(page * size)
OffsetInPages(page, size) == page - 1

Offset(page, size) == Wrapped((page - 1) * size)

\* The true product is out of range.
OffsetOverflows(page, size) == (page - 1) * size > MaxInt

NoMetadata == [current_page |-> 0, page_size |-> 0, first_page |-> 0,
               last_page |-> 0, total_records |-> 0]

MetadataOf(total, page, size) ==
    [current_page |-> page, page_size |-> size, first_page |-> 1,
     last_page |-> CeilDiv(total, size), total_records |-> total]

\* Without math.Ceil.
LastPageRoundedDown(total, page, size) ==
    IF total = 0 THEN NoMetadata
    ELSE [MetadataOf(total, page, size) EXCEPT !.last_page = total \div size]

\* Nothing to describe without a row.
calculateMetadata(total, page, size) ==
    IF total = 0 THEN NoMetadata ELSE MetadataOf(total, page, size)
=============================================================================
