------------------------------- MODULE Merges -------------------------------
(***************************************************************************)
(* What the algorithms of suture-core and of the drivers promise: file     *)
(* trees and changes (FileTrees), texts (LineMerge) and items of documents *)
(* (DriverMerge).  subject is the input a property is about: the inputs it *)
(* leaves open are quantified over.                                        *)
(***************************************************************************)
EXTENDS FileTrees, LineMerge, DriverMerge, FiniteSetsExt

CONSTANT Text       \* the texts that are compared and merged

VARIABLES matter,    \* what the input is for
          subject

NoSubject == matter = "none" /\ subject = <<>>

Changes ==
    UNION {{Create(p, x), Modify(p, x), Delete(p), Move(p, q)} : p, q \in Path, x \in Blob}

\* The inputs of each algorithm.
Trees   == matter = "trees"   /\ subject \in Tree
Pairs   == matter = "changes" /\ subject \in Changes
Texts   == matter = "texts"   /\ subject \in Text \X Text
Items   == matter = "items"   /\ subject \in Drivers \X (Item \cup {Absent})

-----------------------------------------------------------------------------
(* Trees and changes *)

\* diff_trees: carrying the differences out on the old tree gives the new one, and no
\* path is in two of them, renames counted at both ends.
DiffRebuilds ==
    matter = "trees" => \A new \in Tree :
        /\ Synced(subject, subject, new) = new
        /\ \A d, e \in Diff(subject, new) : d # e =>
               LET Ends(x) == IF x.type = "renamed" THEN {x.path, x.from} ELSE {x.path}
               IN  Ends(d) \cap Ends(e) = {}

\* commute: changes that commute may be applied in either order.
CommuteSound ==
    matter = "changes" => \A d \in Changes, t \in Tree :
        Commute(subject, d) => Applied(Applied(t, subject), d) = Applied(Applied(t, d), subject)

\* The precondition of a change.
Applies(t, c) == (c.op = "create") = (t[c.path] = NoFile)

\* compose: where both changes of one path apply, their composition does what they do
\* one after the other.  (A move composed with anything is the later change alone.)
ComposeSound ==
    matter = "changes" => \A d \in Changes, t \in Tree :
        /\ d.path = subject.path /\ "move" \notin {d.op, subject.op}
        /\ Applies(t, subject) /\ Applies(Applied(t, subject), d)
        => Applied(t, Compose(subject, d)) = Applied(Applied(t, subject), d)

\* The two rules by which changes of files are put together hold for every tree.
ChangesCombine == CommuteSound /\ ComposeSound

-----------------------------------------------------------------------------
(* Texts *)

Lines(changes) == [i \in DOMAIN changes |-> changes[i].line]

\* A common subsequence as long as any.
LongestCommon(a, b) ==
    LET Sub(s) == {[i \in 1..Cardinality(I) |-> s[CHOOSE x \in I : Cardinality({y \in I : y < x}) = i - 1]] :
                    I \in SUBSET DOMAIN s}
    IN  Max({Len(s) : s \in Sub(a) \cap Sub(b)})

\* diff_lines: what it keeps and deletes is the base, what it keeps and inserts is the
\* other text, and it keeps as much as can be kept.
DiffTransforms ==
    matter = "texts" =>
        LET base == subject[1]
            mod  == subject[2]
            diff == DiffLines(base, mod)
        IN  /\ Lines(Rebuilt(diff)) = mod
            /\ Lines(SelectSeq(diff, LAMBDA c : c.type # "insert")) = base
            /\ Len(Kept(diff)) = LongestCommon(base, mod)

\* "Returns a list of changes that transform `base` into `modified`" (merge.rs:24), for
\* whichever way the texts are compared; LcsDpThreshold says from where on it is the
\* greedy one.
DiffGivesModified ==
    matter = "texts" => Lines(Rebuilt(DiffLines(subject[1], subject[2]))) = subject[2]

Count(s, v) == Cardinality({i \in DOMAIN s : s[i] = v})

\* The places of the base where a change map does something: where it inserts, and
\* the lines it deletes.
Places(map) == UNION {i..i + map[i].deleted : i \in DOMAIN map}

\* three_way_merge_lines: edits of the two sides in different places are all in the
\* merge, once, and there is no conflict.
ApartEditsCombine ==
    matter = "texts" => \A theirs \in Text :
        LET base == subject[1]
            ours == subject[2]
            merged == MergeLines(base, ours, theirs)
        IN  Places(ChangeMap(DiffLines(base, ours))) \cap Places(ChangeMap(DiffLines(base, theirs))) = {}
            => /\ merged.clean
               /\ \A v \in UNION {{s[i] : i \in DOMAIN s} : s \in {base, ours, theirs, merged.lines}} :
                      Count(merged.lines, v) + Count(base, v) = Count(ours, v) + Count(theirs, v)

\* Texts are compared without loss and edits in different places are put together.
TextsCombine == DiffTransforms /\ ApartEditsCombine

\* "auto-merge if possible, otherwise conflict markers" (merge.rs:225): a line that only
\* one side has is in a merge without conflict.
CleanMergeKeepsLines ==
    matter = "texts" => \A theirs \in Text :
        LET base == subject[1]
            ours == subject[2]
            merged == MergeLines(base, ours, theirs)
        IN  merged.clean => \A i \in DOMAIN theirs :
                Count(base, theirs[i]) = 0 => Count(merged.lines, theirs[i]) > 0

-----------------------------------------------------------------------------
(* Items of documents *)

\* No driver loses an edit in a document it says it merged: what one side added or
\* changed, as far as the driver looks at it, is there when the other side left the
\* item alone, and also when the other side deleted it, but for the drivers that drop
\* such edits.
EditsSurvive ==
    matter = "items" => \A o \in Item, t \in {subject[2], Absent} :
        LET driver == subject[1]
            b == subject[2]
            edited == b = Absent \/ (IF driver \in KeyOnly THEN o.key # b.key ELSE o # b)
        IN  /\ edited
            /\ driver \in DropEdits \cup {"image"} => t # Absent
            /\ driver = "image" => b # Absent
            => \A result \in {DriverMerges(driver, b, o, t), DriverMerges(driver, b, t, o)} :
                   Holds(driver, result, o)

\* "Slide removed by one, modified by other: conflict (return None)" (merge_slides of
\* suture-driver-pptx/src/lib.rs:257).
SlideConflicts ==
    matter = "items" /\ subject[1] = "slide" =>
        \A o \in Item : LET b == subject[2]
                       IN  b \notin {o, Absent} => ~DriverMerges("slide", b, o, Absent).clean

\* It does not matter which side is ours, but to the drivers that prefer one.
SidesSymmetric ==
    matter = "items" /\ subject[1] \notin Partial =>
        \A o, t \in Item \cup {Absent} :
            LET b == subject[2]
                one == DriverMerges(subject[1], b, o, t)
                two == DriverMerges(subject[1], b, t, o)
            IN  {b, o, t} # {Absent} =>
                    /\ one.clean = two.clean
                    /\ {one.items[i] : i \in DOMAIN one.items} = {two.items[i] : i \in DOMAIN two.items}

\* Merging documents is fair to both sides: nobody's edit is lost, and it does not matter
\* who merges.
SidesKept == EditsSurvive /\ SidesSymmetric

-----------------------------------------------------------------------------

\* What is done on two sides is put together without loss, be it changes of files, lines
\* of a text or items of a document.
BothSidesCombine == ChangesCombine /\ TextsCombine /\ SidesKept
=============================================================================
