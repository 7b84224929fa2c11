---- MODULE LineMerge ----
(***************************************************************************)
(* The three-way merge of line-based history files (src/src/line_merge.rs).*)
(* A line is a logical record: split_lines has joined its continuation     *)
(* lines, so a line is a model value with a time stamp, 0 for none.  The   *)
(* differ (the `similar' crate) is external: an alignment is any longest   *)
(* set of equal lines of base and other in the same order.                 *)
(***************************************************************************)
EXTENDS Naturals, Sequences, FiniteSets, SequencesExt

CONSTANT Stamp(_)   \* parse_extended_history_timestamp

Ordered(A) == \A p, q \in A : p # q => (p[1] < q[1] <=> p[2] < q[2]) /\ p[1] # q[1] /\ p[2] # q[2]
CommonRuns(base, other) ==
    {A \in SUBSET {<<i, j>> \in (DOMAIN base) \X (DOMAIN other) : base[i] = other[j]} : Ordered(A)}
capture_diff_slices(base, other) ==
    LET runs == CommonRuns(base, other)
    IN  {A \in runs : \A B \in runs : Cardinality(B) <= Cardinality(A)}

(* aggregate_segments: a Change segment is what lies between two           *)
(* neighbouring equal lines: a range of base and the lines put in its      *)
(* place.  An insertion has an empty range.                                *)
After(A, p, base, other) ==
    LET later == {q \in A : q[1] > p[1]}
    IN  IF later = {} THEN <<Len(base) + 1, Len(other) + 1>>
        ELSE CHOOSE q \in later : \A r \in later : q[1] <= r[1]
Changes(A, base, other) ==
    {[range |-> p[1] + 1 .. After(A, p, base, other)[1] - 1,
      lines |-> SubSeq(other, p[2] + 1, After(A, p, base, other)[2] - 1)] : p \in A \cup {<<0, 0>>}}

ranges_overlap(a, b) == a \cap b # {}
has_conflict(local, remote) ==
    \E l \in local, r \in remote :
        l.lines # <<>> /\ r.lines # <<>> /\ ranges_overlap(l.range, r.range)

Pick(s, I) == [n \in 1 .. Cardinality(I) |-> s[CHOOSE i \in I : Cardinality({j \in I : j < i}) = n - 1]]
Kept(A) == {p[1] : p \in A}

\* policy_a_survivors: a base line stays if either side keeps it.
\* Mutant: a base line stays only if both sides keep it.
survivors_of_both(base, L, R) == Pick(base, Kept(L) \cap Kept(R))
policy_a_survivors(base, L, R) == Pick(base, Kept(L) \cup Kept(R))
changed_other_lines(A, other) == Pick(other, DOMAIN other \ {p[2] : p \in A})

\* The stable sort by time stamp, once any line has one.
Sorted(s) ==
    LET before(i, j) == Stamp(s[i]) < Stamp(s[j]) \/ (Stamp(s[i]) = Stamp(s[j]) /\ i < j)
    IN  [n \in DOMAIN s |-> s[CHOOSE i \in DOMAIN s : Cardinality({j \in DOMAIN s : before(j, i)}) = n - 1]]

Conflict == <<"conflict">>
merge(base, local, remote, L, R) ==
    IF has_conflict(Changes(L, base, local), Changes(R, base, remote)) THEN Conflict
    ELSE LET all == policy_a_survivors(base, L, R) \o changed_other_lines(L, local)
                    \o changed_other_lines(R, remote)
         IN  IF \E s \in {base, local, remote} : \E i \in DOMAIN s : Stamp(s[i]) # 0 THEN Sorted(all) ELSE all
====
