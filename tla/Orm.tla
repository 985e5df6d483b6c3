--------------------------------- MODULE Orm ---------------------------------
(****************************************************************************)
(* app/repositories/orm.py: the queries that requests make, over a table    *)
(* that is a set of rows (records).  Only definitions.                      *)
(*                                                                          *)
(* A filter is a record [column, operator, value]; of the operators, the    *)
(* two that these requests use.  Text is a sequence of code points.         *)
(****************************************************************************)
EXTENDS Integers, SequencesExt

CONSTANT Null       \* NULL: no row, no limit

Percent == 37
Underscore == 95
Backslash == 92

\* SQLite's LIKE takes the letters of ASCII in either case.
Folded(c) == IF c \in 65..90 THEN c + 32 ELSE c

\* SQLite's LIKE: % is any text, _ any character, and no character escapes them,
\* as the query says no ESCAPE.  reached[j]: how much of the text the first j characters
\* of the pattern can stand for.
Like(text, pattern) ==
    LET reached[j \in 0..Len(pattern)] ==
            IF j = 0 THEN {0}
            ELSE IF pattern[j] = Percent
              THEN {i \in 0..Len(text) : \E k \in reached[j - 1] : k <= i}
            ELSE {i \in 1..Len(text) :
                    /\ i - 1 \in reached[j - 1]
                    /\ pattern[j] = Underscore \/ Folded(pattern[j]) = Folded(text[i])}
    IN  Len(text) \in reached[Len(pattern)]

\* _build_where: all filters have to hold.
Where(row, filters) ==
    \A f \in filters :
        \/ f.operator = "eq"   /\ row[f.column] = f.value
        \/ f.operator = "like" /\ Like(row[f.column], f.value)

\* select: one of the rows, or none.
Select(table, filters) ==
    IF \E row \in table : Where(row, filters)
      THEN CHOOSE row \in table : Where(row, filters)
      ELSE Null

\* Text is ordered by its code points.
TextBefore(a, b) ==
    \/ IsStrictPrefix(a, b)
    \/ \E i \in DOMAIN a \cap DOMAIN b :
           a[i] < b[i] /\ \A j \in 1..(i - 1) : a[j] = b[j]

\* select_all, _apply_ordering and _apply_pagination: ascending in a column that tells
\* the rows apart.
SelectAll(table, filters, order_by, limit) ==
    LET found == {row \in table : Where(row, filters)}
        Rank(row) == Cardinality({r \in found : TextBefore(r[order_by], row[order_by])})
        ordered == [i \in 1..Cardinality(found) |-> CHOOSE row \in found : Rank(row) = i - 1]
    IN  IF limit = Null \/ limit >= Len(ordered) THEN ordered ELSE SubSeq(ordered, 1, limit)

\* The pattern of a prefix in bucket_get: its wildcards behind backslashes.
Escaped(prefix) ==
    FlattenSeq([i \in DOMAIN prefix |->
        IF prefix[i] \in {Percent, Underscore, Backslash}
          THEN <<Backslash, prefix[i]>> ELSE <<prefix[i]>>])

=============================================================================
