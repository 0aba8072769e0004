------------------------------ MODULE RaftLog ------------------------------
(***************************************************************************)
(* The in-memory log of a Raft node: suture-raft/src/log.rs, RaftLog.      *)
(*                                                                         *)
(* A log is a record: the retained entries and the index and term of the   *)
(* last compacted one.  Entries carry their absolute index, but the code   *)
(* finds them by position, index - snapshot_index - 1 counting from 0.     *)
(***************************************************************************)
EXTENDS Integers, Sequences

EmptyLog == [entries |-> << >>, snapshot_index |-> 0, snapshot_term |-> 0]

\* term_for's Option::None.
NoTerm == -1

LastIndex(log) == log.snapshot_index + Len(log.entries)

LastTerm(log) ==
    IF log.entries = << >> THEN log.snapshot_term
    ELSE log.entries[Len(log.entries)].term

\* Is there a retained entry at this index?  (get)
HasEntry(log, index) == index > log.snapshot_index /\ index <= LastIndex(log)
EntryAt(log, index)  == log.entries[index - log.snapshot_index]

TermFor(log, index) ==
    IF index = log.snapshot_index /\ log.snapshot_index > 0 THEN log.snapshot_term
    ELSE IF HasEntry(log, index) THEN EntryAt(log, index).term
    ELSE NoTerm

\* Variant: the first entry asked for is left out.
EntriesFromSkipsOne(log, index) ==
    IF HasEntry(log, index)
    THEN SubSeq(log.entries, index + 1 - log.snapshot_index, Len(log.entries))
    ELSE << >>

\* For an index at or below the snapshot the position underflows: a release
\* build wraps around and returns nothing.
EntriesFrom(log, index) ==
    IF HasEntry(log, index)
    THEN SubSeq(log.entries, index - log.snapshot_index, Len(log.entries))
    ELSE << >>

\* append: the new entry gets the next index.
Append1(log, term, command) ==
    [log EXCEPT !.entries =
        Append(@, [index |-> LastIndex(log) + 1, term |-> term, command |-> command])]

\* append_entry: the entry goes to the end, whatever index it carries.
AppendEntry(log, entry) == [log EXCEPT !.entries = Append(@, entry)]

TruncateFrom(log, index) ==
    IF HasEntry(log, index)
    THEN [log EXCEPT !.entries = SubSeq(@, 1, index - log.snapshot_index - 1)]
    ELSE log

\* Variant: the snapshot index is one too small.
CompactOffByOne(log, last_index) ==
    IF last_index <= log.snapshot_index \/ log.entries = << >> THEN log
    ELSE LET kept == IF last_index >= LastIndex(log) THEN Len(log.entries)
                     ELSE last_index - log.snapshot_index
         IN  [entries        |-> SubSeq(log.entries, kept + 1, Len(log.entries)),
              snapshot_index |-> log.entries[kept].index - 1,
              snapshot_term  |-> log.entries[kept].term]

\* compact: drop the entries up to last_index, at most all of them.
Compact(log, last_index) ==
    IF last_index <= log.snapshot_index \/ log.entries = << >> THEN log
    ELSE LET kept == IF last_index >= LastIndex(log) THEN Len(log.entries)
                     ELSE last_index - log.snapshot_index
             last == log.entries[kept]
         IN  [entries        |-> SubSeq(log.entries, kept + 1, Len(log.entries)),
              snapshot_index |-> IF last_index >= LastIndex(log) THEN last.index
                                 ELSE last_index,
              snapshot_term  |-> last.term]

SetSnapshot(log, index, term) ==
    IF index > log.snapshot_index
    THEN [entries |-> << >>, snapshot_index |-> index, snapshot_term |-> term]
    ELSE log
=============================================================================
