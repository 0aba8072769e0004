------------------------------- MODULE Limits --------------------------------
(***************************************************************************)
(* What the services refuse: requests beyond a rate, by a count per window *)
(* in memory (suture-platform/src/rate_limit.rs, check_rate_limit of       *)
(* suture-hub/src/server.rs), and merges beyond a month's quota, by a      *)
(* counter in the database (suture-platform/src/merge_api.rs and           *)
(* billing.rs).  Requests run concurrently; the limiter's lock makes a     *)
(* check one step, recording a merge and checking the quota are two.       *)
(***************************************************************************)
EXTENDS Naturals, Sequences, FiniteSets

CONSTANTS Window,      \* the length of a window, in ticks of the clock
          RateLimit,   \* requests per window
          Quota,       \* merges per month
          MergeRequest,  \* the requests for a merge that run at a time
          MaxTime, MaxMerges   \* bounds on the clock and on the merges asked for

ASSUME WindowAssumption == Window \in Nat \ {0}

\* Every service lets something through; a quota of zero is none.
ASSUME LimitAssumption == RateLimit \in Nat \ {0} /\ Quota \in Nat

VARIABLES now,       \* the clock
          window,    \* the counts in memory: [start, count], or none
          allowed,   \* the times at which a request was allowed
          used,      \* merges_used of this month
          asked,     \* merges asked for so far
          merging,   \* merging[r]: where request r is
          merges     \* merges done of those recorded this month

limitVars == <<now, window, allowed, used, asked, merging, merges>>
rateVars  == <<now, window, allowed>>
quotaVars == <<used, asked, merging, merges>>

NoWindow == [start |-> 0, count |-> 0]

LimitsInit ==
    /\ now = 0 /\ window = NoWindow /\ allowed = <<>>
    /\ used = 0 /\ asked = 0 /\ merging = [r \in MergeRequest |-> "none"] /\ merges = 0

Tick == /\ now < MaxTime
        /\ now' = now + 1
        /\ UNCHANGED <<window, allowed, quotaVars>>

-----------------------------------------------------------------------------
(* Rates *)

Fresh == [start |-> now, count |-> 1]
Counted == [window EXCEPT !.count = @ + 1]
Open == window.count > 0 /\ now - window.start < Window

Allow(entry) == window' = entry /\ allowed' = Append(allowed, now)

\* Variant of Check: the request that reaches the limit is let through as well.
CheckLoose ==
    /\ IF ~Open THEN Allow(Fresh)
       ELSE IF window.count \leq RateLimit THEN Allow(Counted)
       ELSE UNCHANGED <<window, allowed>>
    /\ UNCHANGED <<now, quotaVars>>

\* RateLimiter::check: a window starts with the first request after the last one is
\* over, not by the clock.
Check ==
    /\ IF ~Open THEN Allow(Fresh)
       ELSE IF window.count < RateLimit THEN Allow(Counted)
       ELSE UNCHANGED <<window, allowed>>
    /\ UNCHANGED <<now, quotaVars>>

\* check_rate_limit of the hub forgets the windows that are over first.
HubCheck ==
    LET kept == IF Open THEN window ELSE NoWindow
    IN  /\ IF kept.count = 0 THEN Allow(Fresh)
           ELSE IF kept.count < RateLimit THEN Allow(Counted)
           ELSE window' = kept /\ UNCHANGED allowed
        /\ UNCHANGED <<now, quotaVars>>

\* RateLimiter::cleanup, by a timer.
Cleanup ==
    /\ window.count > 0
    /\ window' = IF now - window.start < 2 * Window THEN window ELSE NoWindow
    /\ UNCHANGED <<now, allowed, quotaVars>>

-----------------------------------------------------------------------------
(* The quota *)

Proceed(r, step) == merging' = [merging EXCEPT ![r] = step]

\* can_merge: a quota of zero is none.
CanMerge == Quota = 0 \/ used < Quota

\* merge_files counts the merge, whether or not it will be made.
RecordMerge(r) ==
    /\ merging[r] = "none" /\ asked < MaxMerges
    /\ used' = used + 1 /\ asked' = asked + 1
    /\ Proceed(r, "recorded")
    /\ UNCHANGED <<rateVars, merges>>

CheckMerge(r) ==
    /\ merging[r] \in {"recorded", "old"}
    /\ Proceed(r, "none")
    /\ merges' = IF CanMerge /\ merging[r] = "recorded" THEN merges + 1 ELSE merges
    /\ UNCHANGED <<rateVars, used, asked>>

\* A new month has a row of its own; merges recorded in the old one go on.
NextMonth ==
    /\ used > 0
    /\ used' = 0 /\ merges' = 0
    /\ merging' = [r \in MergeRequest |-> IF merging[r] = "recorded" THEN "old" ELSE merging[r]]
    /\ UNCHANGED <<rateVars, asked>>

LimitsNext ==
    \/ Tick \/ Check \/ HubCheck \/ Cleanup \/ NextMonth
    \/ \E r \in MergeRequest : RecordMerge(r) \/ CheckMerge(r)

LimitsSpec == LimitsInit /\ [][LimitsNext]_limitVars

-----------------------------------------------------------------------------

\* In no stretch of Window ticks more than twice the limit is let through, wherever the
\* windows begin and whenever the timer cleans up.
RateBounded ==
    \A t \in 0..MaxTime :
        Cardinality({i \in DOMAIN allowed : allowed[i] \in t..t + Window - 1}) \leq 2 * RateLimit

\* A month's merges stay within the quota however the requests overlap.
QuotaKept == Quota = 0 \/ merges \leq Quota

\* What the services refuse to do more often is not done more often: requests in a stretch
\* of time, and merges in a month.
LimitsKept == RateBounded /\ QuotaKept
=============================================================================
