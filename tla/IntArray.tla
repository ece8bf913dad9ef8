----------------------------- MODULE IntArray -----------------------------
(***************************************************************************)
(* Arrays of ids: common/arraydef.rs and the ranges of                     *)
(* common/arrayparser.rs.  Ids are u32 and their sums wrap (release        *)
(* builds).                                                                *)
(***************************************************************************)
EXTENDS Integers, Sequences, FiniteSets, FiniteSetsExt, SequencesExt

CONSTANT U32  \* the number of values of a u32

ASSUME U32Assumption == U32 \in Nat \ {0}

Plus(a, b) == (a + b) % U32

IntRange(start, count, step) == [start |-> start, count |-> count, step |-> step]

\* IntRange::iter: (start .. start + count).step_by(step).
ids_of(r) ==
    LET end == Plus(r.start, r.count)
        n == IF end > r.start THEN (end - r.start + r.step - 1) \div r.step ELSE 0
    IN  [k \in 1 .. n |-> r.start + (k - 1) * r.step]

iter(ranges) == FlattenSeq([k \in DOMAIN ranges |-> ids_of(ranges[k])])

\* Mutant: a range is also extended by an id behind a gap.
extend_late(ranges, id) ==
    LET at == {k \in DOMAIN ranges : id >= Plus(ranges[k].start, ranges[k].count)}
    IN  IF at # {} THEN [ranges EXCEPT ![Min(at)].count = Plus(@, 1)]
                   ELSE Append(ranges, IntRange(id, 1, 1))

\* The body of the loop of from_ids.
extend(ranges, id) ==
    LET at == {k \in DOMAIN ranges : id = Plus(ranges[k].start, ranges[k].count)}
    IN  IF at # {} THEN [ranges EXCEPT ![Min(at)].count = Plus(@, 1)]
                   ELSE Append(ranges, IntRange(id, 1, 1))

from_ids(ids) == FoldLeft(extend, <<>>, ids)

\* A range typed as "v", "v-w" or "v-w:x" is <<v, w, x>>; the result is empty if
\* it is not a range.
p_range(range) ==
    LET v == range[1]
        w == range[2]
        x == range[3]
    IN  CASE w = {} /\ x = {} -> {IntRange(v, 1, 1)}
          [] w # {} /\ x = {} /\ Max(w) >= v -> {IntRange(v, Plus(Max(w) - v, 1), 1)}
          [] w # {} /\ x # {} /\ Max(w) >= v /\ Max(x) <= Max(w) - v /\ Max(x) > 0 ->
                 {IntRange(v, Plus(Max(w) - v, 1), Max(x))}
          [] OTHER -> {}

\* Every range of the list must be one.
p_ranges(typed) ==
    IF \E k \in DOMAIN typed : p_range(typed[k]) = {} THEN {}
    ELSE {[k \in DOMAIN typed |-> CHOOSE r \in p_range(typed[k]) : TRUE]}

\* Mutant: only equal starts count as an overlap.
is_overlapping_starts(ranges) ==
    \E i, j \in DOMAIN ranges : i # j /\ ranges[i].start = ranges[j].start

is_overlapping(ranges) ==
    LET ids == iter(ranges) IN \E i, j \in DOMAIN ids : i # j /\ ids[i] = ids[j]

\* parse_array: the array, or nothing for an error.
parse_array(typed) == {ranges \in p_ranges(typed) : ~ is_overlapping(ranges)}
============================================================================
