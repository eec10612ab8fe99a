--------------------------------- MODULE Paging ---------------------------------
(***************************************************************************)
(* How the contracts list their storage: a query returns the first keys    *)
(* beyond the one it is given, at most as many as its limit, and a reader  *)
(* continues from the last key of the page it got.  Keys are ordered, so   *)
(* an instance for TLC has numbers for addresses.                          *)
(***************************************************************************)
EXTENDS Integers, FiniteSets

CONSTANTS
  DEFAULT_LIMIT,   \* entries of a page when the query gives no limit
  MAX_LIMIT        \* the most entries of a page

ASSUME PagingAssumption ==
  DEFAULT_LIMIT \in Nat \ {0} /\ MAX_LIMIT \in Nat /\ DEFAULT_LIMIT <= MAX_LIMIT

\* Options are sets of at most one value
align_limit(limit) ==
  LET asked == IF limit = {} THEN DEFAULT_LIMIT ELSE CHOOSE n \in limit : TRUE
  IN IF asked < MAX_LIMIT THEN asked ELSE MAX_LIMIT

\* Bound::exclusive
after_inclusive(k, start_after) == \A s \in start_after : k >= s   \* mutant: inclusive
after(k, start_after) == \A s \in start_after : k > s
before(k, start_before) == \A s \in start_before : k < s

\* .range(..).take(limit), ascending and descending
page(keys, start_after, limit) ==
  LET rest == {k \in keys : after(k, start_after)}
      n == align_limit(limit)
  IN {k \in rest : Cardinality({j \in rest : j < k}) < n}
reverse_page(keys, start_before, limit) ==
  LET rest == {k \in keys : before(k, start_before)}
      n == align_limit(limit)
  IN {k \in rest : Cardinality({j \in rest : j > k}) < n}

-----------------------------------------------------------------------------
\* A reader asks for pages until it gets an empty one

\* The last and the first key of a page, {} of an empty one
Last(keys) == {k \in keys : \A j \in keys : j <= k}
First(keys) == {k \in keys : \A j \in keys : j >= k}

\* The pages of a list, as the query list(start_after) returns them
Pages(list(_), count) ==
  LET p[i \in 0 .. count] ==
        IF i = 0 THEN list({})
        ELSE LET last == Last(p[i - 1]) IN IF last = {} THEN {} ELSE list(last)
  IN p
ReversePages(list(_), count) ==
  LET p[i \in 0 .. count] ==
        IF i = 0 THEN list({})
        ELSE LET first == First(p[i - 1]) IN IF first = {} THEN {} ELSE list(first)
  IN p

\* The pages show exactly these keys, none of them twice
Shows(pages, keys) ==
  LET shown == {<<i, pages[i]>> : i \in DOMAIN pages}
  IN /\ UNION {x[2] : x \in shown} = keys
     /\ \A x, y \in shown : x # y => x[2] \cap y[2] = {}
=============================================================================
