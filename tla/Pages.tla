------------------------------- MODULE Pages -------------------------------
(***************************************************************************)
(* Offset pagination: what PaginationHelper makes of a requested page and  *)
(* of a total, and which rows ORDER BY ... OFFSET ... LIMIT ... selects.   *)
(*                                                                         *)
(* The order of a query is a set of pairs, <<x, y>> if x comes before y:   *)
(* the sort key, and whatever the database does with rows of the same key. *)
(***************************************************************************)
EXTENDS Integers, FiniteSets

CONSTANTS NaN,              \* what Number() makes of a value it cannot read
          DefaultPageSize,  \* 15 in the code
          MaxPageSize       \* 100 in the code

ASSUME PagesAssumption ==
  /\ NaN \notin Int
  /\ DefaultPageSize \in 1 .. MaxPageSize
  /\ MaxPageSize \in Nat \ {0}

AtLeastOne(n) == IF n < 1 THEN 1 ELSE n
AtMostMax(n) == IF n > MaxPageSize THEN MaxPageSize ELSE n

(* PaginationHelper.parse: the page and the size that are used.            *)
ParsedPage(page) == AtLeastOne(IF page = NaN THEN 1 ELSE page)
ParsedSize(size) ==
  AtMostMax(AtLeastOne(IF size = NaN THEN DefaultPageSize ELSE size))

(* Mutant of Offset: pages counted from zero.                              *)
OffsetFromZero(page, size) == page * size

Offset(page, size) == (page - 1) * size

(* PaginationHelper.createResult: the number of pages, rounded up.         *)
TotalPages(total, size) == (total + size - 1) \div size
HasNext(page, size, total) == page < TotalPages(total, size)

(* The place of x among the rows, from 1 on, and the rows of a page; the   *)
(* order of the rows is a set of pairs.                                    *)
Place(x, rows, before) ==
  Cardinality({y \in rows : y = x \/ <<y, x>> \in before})

PageOf(rows, before, page, size) ==
  {x \in rows : /\ Offset(page, size) < Place(x, rows, before)
                /\ Place(x, rows, before) <= Offset(page, size) + size}
============================================================================
