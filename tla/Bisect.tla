------------------------------- MODULE Bisect -------------------------------
(***************************************************************************)
(* `suture bisect run' and `suture bisect start', the search for the       *)
(* commit that broke something (suture-cli/src/cmd/bisect.rs).             *)
(*                                                                         *)
(* Commits are their places in the log of HEAD, the newest at 0.  Those up *)
(* to `first' are bad, older ones are good, and the test always says so.   *)
(***************************************************************************)
EXTENDS Integers

CONSTANTS Oldest,   \* the place of the oldest commit
          NoCommit

ASSUME OldestAssumption == Oldest \in Nat \ {0}

VARIABLES
    by,     \* "run", "start": the session is automatic, or by hand
    older,  \* current_good: a place the session takes to be good
    newer,  \* current_bad
    at,     \* where `reset --hard' has put the branch
    answer, \* the commit reported as the first bad one
    stage,  \* "testing", "done", "panicked", "ended"
    first   \* the first bad commit

bisectVars == <<by, older, newer, at, answer, stage, first>>

\* The user names a good commit and, newer than it, a bad one.
BisectInit ==
    /\ older \in 1..Oldest /\ newer \in 0..(older - 1)
    /\ first \in newer..(older - 1)
    /\ by \in {"run", "start"}
    /\ at = 0 /\ answer = NoCommit /\ stage = "testing"

NoBisect ==
    /\ older = 1 /\ newer = 0 /\ first = 0 /\ by = "run"
    /\ at = 0 /\ answer = NoCommit /\ stage = "ended"

Remaining == IF older > newer + 1 THEN older - (newer + 1) ELSE 0
Midpoint  == (older + newer) \div 2
Good(c)   == c > first

Testing(mode) == stage = "testing" /\ by = mode /\ (mode = "start" => at \leq newer)

\* `bisect run' puts the branch on the commit in the middle, tests it, and leaves it out
\* of what is left.
RunGood ==
    /\ Testing("run") /\ Remaining > 0 /\ Good(Midpoint)
    /\ at' = Midpoint
    /\ older' = Midpoint - 1
    /\ UNCHANGED <<by, newer, answer, stage, first>>
RunBad ==
    /\ Testing("run") /\ Remaining > 0 /\ ~Good(Midpoint)
    /\ at' = Midpoint
    /\ newer' = Midpoint + 1
    /\ UNCHANGED <<by, older, answer, stage, first>>

\* The commit before the last good one is reported and the branch put back; at the
\* newest commit there is none before it.
Report ==
    /\ Testing("run") /\ Remaining = 0
    /\ IF older = 0
       THEN stage' = "panicked" /\ UNCHANGED <<at, answer>>
       ELSE stage' = "done" /\ answer' = older - 1 /\ at' = 0
    /\ UNCHANGED <<by, older, newer, first>>

\* The test command cannot be started, or the user stops the session.
CannotTest ==
    /\ Testing("run") /\ Remaining > 0
    /\ stage' = "done" /\ at' = 0
    /\ UNCHANGED <<by, older, newer, answer, first>>
Interrupted ==
    /\ Testing("run") /\ stage' = "ended"
    /\ UNCHANGED <<by, older, newer, at, answer, first>>

\* `bisect start' answers with the commit to test.  The user resets to it, calls `bisect
\* start' again as it says for the outcome, and has put the branch back before that or has
\* not: then a newer bad commit is not found in the history.
StartReports(c) == stage' = "done" /\ answer' = c /\ UNCHANGED <<by, older, newer, at, first>>
StartGood ==
    /\ Testing("start") /\ Remaining > 0 /\ Good(Midpoint)
    /\ IF Midpoint > newer + 1
       THEN newer' = Midpoint /\ at' \in {0, Midpoint} /\ UNCHANGED <<by, older, answer, stage, first>>
       ELSE StartReports(Midpoint)
StartBad ==
    /\ Testing("start") /\ Remaining > 0 /\ ~Good(Midpoint)
    /\ IF Midpoint < older - 1
       THEN older' = Midpoint /\ at' \in {0, Midpoint} /\ UNCHANGED <<by, newer, answer, stage, first>>
       ELSE StartReports(Midpoint)
NotFound ==
    /\ stage = "testing" /\ by = "start" /\ at > newer
    /\ stage' = "ended"
    /\ UNCHANGED <<by, older, newer, at, answer, first>>
StartLast == Testing("start") /\ Remaining = 0 /\ StartReports(newer + 1)

BisectNext ==
    \/ RunGood \/ RunBad \/ Report \/ CannotTest \/ Interrupted
    \/ StartGood \/ StartBad \/ StartLast \/ NotFound

BisectSpec == BisectInit /\ [][BisectNext]_bisectVars

-----------------------------------------------------------------------------
\* "Bisect midpoint narrowing now correctly adjusts bounds based on test results"
\* (CHANGELOG.md:1010): the commit that `bisect run' reports is the first bad one.
BisectFindsFirst == by = "run" /\ answer # NoCommit => answer = first

\* "Restore the original branch to its original state" (bisect.rs:230): a session that
\* nobody stops leaves the branch where it was.
BranchRestored == stage \in {"done", "panicked"} /\ by = "run" => at = 0
=============================================================================
