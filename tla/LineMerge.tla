----------------------------- MODULE LineMerge ------------------------------
(***************************************************************************)
(* The text merge of suture-core (engine/merge.rs): two diffs against the  *)
(* base by longest common subsequence, what each side did at every line of *)
(* the base, and one walk over the base that takes what only one side did. *)
(*                                                                         *)
(* A text is a sequence of lines.  Every result stands for its lines and   *)
(* for whether there was a conflict; the markers written around one, and   *)
(* the counters, are left out.                                             *)
(***************************************************************************)
EXTENDS Integers, Sequences, TLC

CONSTANT LcsDpThreshold  \* above it the diff is not by dynamic programming

ASSUME LcsDpThresholdAssumption == LcsDpThreshold \in Nat

-----------------------------------------------------------------------------
(* Diffs: sequences of kept, inserted and deleted lines *)

Keep(line) == [type |-> "keep", line |-> line]
Insertion(line) == [type |-> "insert", line |-> line]
Deletion(line) == [type |-> "delete", line |-> line]

\* The table: the length of a longest common subsequence of the first i lines of one
\* text and the first j of the other.
Lcs(base, mod) ==
    LET dp[i \in 0..Len(base), j \in 0..Len(mod)] ==
            IF i = 0 \/ j = 0 THEN 0
            ELSE IF base[i] = mod[j] THEN dp[i-1, j-1] + 1
            ELSE IF dp[i-1, j] >= dp[i, j-1] THEN dp[i-1, j] ELSE dp[i, j-1]
    IN  dp

\* diff_lines_dp: the table is read back from its end; a match is taken first, then an
\* insertion where the table allows it.
DiffDp(base, mod) ==
    LET dp == Lcs(base, mod)
        B[i \in 0..Len(base), j \in 0..Len(mod)] ==
            IF i = 0 /\ j = 0 THEN <<>>
            ELSE IF i > 0 /\ j > 0 /\ base[i] = mod[j] THEN Append(B[i-1, j-1], Keep(base[i]))
            ELSE IF j > 0 /\ (i = 0 \/ dp[i, j-1] >= dp[i-1, j])
                 THEN Append(B[i, j-1], Insertion(mod[j]))
            ELSE Append(B[i-1, j], Deletion(base[i]))
    IN  B[Len(base), Len(mod)]

\* The greedy pairs of diff_lines_linear: every line of the base with the first equal
\* one of the other text that is not taken, or 0.
Matches(base, mod) ==
    LET M[i \in 0..Len(base)] ==
            IF i = 0 THEN <<>>
            ELSE LET free == {j \in DOMAIN mod : mod[j] = base[i] /\ \A k \in 1..i-1 : M[i-1][k] # j}
                 IN  Append(M[i-1], IF free = {} THEN 0 ELSE CHOOSE j \in free : \A k \in free : j <= k)
    IN  M[Len(base)]

\* diff_lines_linear: at a pair the lines before it are deleted or inserted and the
\* position in the other text moves on by one, also when the pairs cross.
DiffLinear(base, mod) ==
    LET match == Matches(base, mod)
        LeftOver(from) == [j \in 1..Len(mod) - from |-> Insertion(mod[from + j])]
        Upto(from, to) == [j \in 1..(IF to > from THEN to - from ELSE 0) |-> Insertion(mod[from + j])]
        Pending(i) == LET last == {k \in 0..i : k = 0 \/ match[k] # 0}
                      IN  CHOOSE k \in last : \A l \in last : l <= k
        Deletions(from, to) == [k \in 1..to - from |-> Deletion(base[from + k])]
        W[i \in 0..Len(base)] ==
            IF i = 0 THEN [out |-> <<>>, mi |-> 0]
            ELSE IF match[i] = 0 THEN W[i-1]
            ELSE LET s == W[i-1]
                     to == match[i] - 1
                 IN  [out |-> s.out \o Deletions(Pending(i-1), i - 1) \o Upto(s.mi, to)
                                    \o <<Keep(base[i])>>,
                      mi |-> 1 + (IF to > s.mi THEN to ELSE s.mi)]
        end == W[Len(base)]
    IN  end.out \o Deletions(Pending(Len(base)), Len(base))
                \o (IF end.mi < Len(mod) THEN LeftOver(end.mi) ELSE <<>>)

DiffLines(base, mod) ==
    IF base = <<>> \/ mod = <<>> \/ (Len(base) <= LcsDpThreshold /\ Len(mod) <= LcsDpThreshold)
    THEN DiffDp(base, mod) ELSE DiffLinear(base, mod)

\* The text a diff makes, and the part of it that is kept.
Rebuilt(diff) == SelectSeq(diff, LAMBDA c : c.type # "delete")
Kept(diff)    == SelectSeq(diff, LAMBDA c : c.type = "keep")

-----------------------------------------------------------------------------
(* What a side does at the lines of the base *)

\* One step of build_change_map, line by line: a run of deletions makes an entry at its
\* first line, insertions after it belong to that entry, others to the line they precede.
Change(s, c) ==
    CASE c.type = "keep" -> [s EXCEPT !.base = @ + 1, !.deleting = FALSE, !.last = -1]
      [] c.type = "delete" ->
            IF s.deleting THEN [s EXCEPT !.map[s.last].deleted = @ + 1, !.base = @ + 1]
            ELSE [s EXCEPT !.map = (s.base :> [deleted |-> 1, inserted |-> <<>>]) @@ @,
                           !.last = s.base, !.deleting = TRUE, !.base = @ + 1]
      [] c.type = "insert" ->
            LET at == IF s.last >= 0 THEN s.last ELSE s.base
            IN  IF at \in DOMAIN s.map
                THEN [s EXCEPT !.map[at].inserted = Append(@, c.line), !.deleting = FALSE]
                ELSE [s EXCEPT !.map = (at :> [deleted |-> 0, inserted |-> <<c.line>>]) @@ @,
                               !.deleting = FALSE]

\* build_change_map: lines are counted from 0.
ChangeMap(diff) ==
    LET C[i \in 0..Len(diff)] ==
            IF i = 0 THEN [map |-> <<>>, base |-> 0, last |-> -1, deleting |-> FALSE]
            ELSE Change(C[i-1], diff[i])
    IN  C[Len(diff)].map

-----------------------------------------------------------------------------
(* The merge *)

Took(lines, advance) == [lines |-> lines, advance |-> advance, clean |-> TRUE]

\* What the walk does at line i of the base: the actions of both sides there are used
\* up.  Of two actions with the same lines the first one's advance counts.
At(ours, theirs, i) ==
    LET mine == i \in DOMAIN ours
        its  == i \in DOMAIN theirs
    IN  IF ~mine /\ ~its THEN Took(<<>>, 0)
        ELSE IF ~its THEN Took(ours[i].inserted, ours[i].deleted)
        ELSE IF ~mine THEN Took(theirs[i].inserted, theirs[i].deleted)
        ELSE IF ours[i].inserted = theirs[i].inserted THEN Took(ours[i].inserted, ours[i].deleted)
        ELSE [lines |-> ours[i].inserted \o theirs[i].inserted, clean |-> FALSE,
              advance |-> IF ours[i].deleted >= theirs[i].deleted
                          THEN ours[i].deleted ELSE theirs[i].deleted]

\* Variant of Walk: what is inserted before a line takes its place.
WalkOver(base, ours, theirs) ==
    LET W[i \in 0..Len(base)] ==
            LET step == At(ours, theirs, i)
                here == IF i \in DOMAIN ours \cup DOMAIN theirs THEN step.lines ELSE SubSeq(base, i + 1, i + 1)
                rest == W[i + (IF step.advance = 0 THEN 1 ELSE step.advance)]
            IN  IF i = Len(base) THEN [lines |-> step.lines, clean |-> step.clean]
                ELSE [lines |-> here \o rest.lines, clean |-> step.clean /\ rest.clean]
    IN  W[0]

\* The walk: where nothing is deleted the line of the base follows; actions at lines
\* that are jumped over are never looked at.
Walk(base, ours, theirs) ==
    LET W[i \in 0..Len(base)] ==
            LET step == At(ours, theirs, i)
                here == IF step.advance = 0 THEN step.lines \o SubSeq(base, i + 1, i + 1) ELSE step.lines
                rest == W[i + (IF step.advance = 0 THEN 1 ELSE step.advance)]
            IN  IF i = Len(base) THEN [lines |-> step.lines, clean |-> step.clean]
                ELSE [lines |-> here \o rest.lines, clean |-> step.clean /\ rest.clean]
    IN  W[0]

\* three_way_merge_lines
MergeLines(base, ours, theirs) ==
    IF ours = theirs \/ base = theirs THEN [lines |-> ours, clean |-> TRUE]
    ELSE IF base = ours THEN [lines |-> theirs, clean |-> TRUE]
    ELSE Walk(base, ChangeMap(DiffLines(base, ours)), ChangeMap(DiffLines(base, theirs)))
=============================================================================
