------------------------------- MODULE MCHub ---------------------------------
(***************************************************************************)
(* Small instances of the hub: clones that sync through it (HubSync), and  *)
(* one at a time its Raft runtime, its replication to another hub, the     *)
(* mirror of a repository, its issues, its webhooks, its large files, the  *)
(* limits of the services, and the accounts of the platform.               *)
(***************************************************************************)
EXTENDS HubSync, HubRuntime, HubReplication, HubMirror, Limits, HubForge, LargeFiles, Accounts

CONSTANTS laptop, desk, dev,   \* two clones; a second branch
          early, late,         \* two syncs of the mirror; the first to start is called early
          spare                \* a user whose tree has no large files

\* The user of laptop has the name of the branch Main, and owns it.
MCAuthor == [c \in Clone |-> IF c = laptop THEN Main ELSE c]

\* Two patches on top of a first one.
MCMade == <<[parents |-> {}, author |-> Main], [parents |-> {1}, author |-> Main],
            [parents |-> {1}, author |-> dev]>>

VARIABLE setup   \* which users run commands, what is administered, how many commits

Setup(users, branches, administered, commits, mishaps) ==
    [users |-> users, branches |-> branches, administered |-> administered,
     patches |-> Cardinality(Clone) + commits, mishaps |-> mishaps]

\* A daemon on one clone and commands on the other; both on one clone; two
\* branches; the hub's administrator.
Exchanges == {Setup({desk}, {Main}, {}, 1, 1), Setup({laptop}, {Main}, {}, 2, 2),
              Setup({desk}, Branch, {}, 1, 0), Setup({desk}, {Main}, {Main}, 0, 1)}

\* The other parts, one at a time; of the two limiters one is used.
Service(name) == [service |-> name]
Services ==
    {Service(s) : s \in {"runtime", "replication", "mirror", "platform limiter", "hub limiter",
                            "quota", "issues", "webhooks", "objects", "large files", "billing",
                            "organisations"}}

userVars == <<lfsVars, accountVars>>
allVars  == <<setup, vars, runtimeVars, replicationVars, mirrorVars, limitVars, forgeVars, userVars>>

\* Two clones that have pulled each other's first commit.
AllExchanged ==
    /\ info = [p \in 1..Cardinality(Clone) |->
                  [parents |-> {}, author |-> Author[CHOOSE c \in Clone : RootOf[c] = p]]]
    /\ clones = [c \in Clone |-> [NewClone(c) EXCEPT !.patches = Ids(info)]]
    /\ hub = [EmptyHub EXCEPT !.exists = TRUE, !.patches = Ids(info)]
    /\ queue = [c \in Daemon |-> <<>>]
    /\ jobs = [w \in Worker |-> Idle]
    /\ failures = 0

\* One object in the tree of all users, or all objects in those of all but one.
Shared == [u \in User |-> {CHOOSE x \in Large : TRUE}]
AllBut == [u \in User |-> IF u = spare THEN {} ELSE Large]

MCInit ==
    /\ setup \in Exchanges \cup Services
    /\ IF setup \in Exchanges THEN InitWith(MaxFailures - setup.mishaps) ELSE AllExchanged
    /\ lfsTree \in IF setup = Service("objects") THEN {Shared, AllBut} ELSE {[u \in User |-> {}]}
    /\ lfsFile \in IF setup = Service("large files") THEN {Raw(x) : x \in Large}
                   ELSE {Raw(CHOOSE x \in Large : TRUE)}
    /\ lfsAt \in IF setup = Service("large files") THEN Line ELSE {CHOOSE b \in Line : TRUE}
    /\ RuntimeInit /\ ReplicationInit /\ MirrorInit /\ LimitsInit /\ ForgeInit
    /\ LfsInit /\ AccountsInit

ExchangeNext ==
    /\ setup \in Exchanges
    /\ NextFor(setup.users, setup.branches, setup.administered)
    /\ Len(info') <= setup.patches
    /\ UNCHANGED <<runtimeVars, replicationVars, mirrorVars, limitVars, forgeVars, userVars>>

ServiceNext ==
    /\ UNCHANGED vars
    /\ \/ /\ setup = Service("runtime") /\ RuntimeNext
          /\ UNCHANGED <<replicationVars, mirrorVars, limitVars, forgeVars, userVars>>
       \/ /\ setup = Service("replication") /\ ReplicationNext
          /\ UNCHANGED <<runtimeVars, mirrorVars, limitVars, forgeVars, userVars>>
       \/ /\ setup = Service("mirror") /\ MirrorNext
          /\ syncs'[late].step # "none" => syncs'[early].step # "none"
          /\ UNCHANGED <<runtimeVars, replicationVars, limitVars, forgeVars, userVars>>
       \/ /\ \/ setup = Service("issues") /\ ItemsNext({"all", "open"})
             \/ setup = Service("webhooks") /\ HooksNext
          /\ UNCHANGED <<runtimeVars, replicationVars, mirrorVars, limitVars, userVars>>
       \/ /\ \/ setup = Service("objects") /\ TransferNext
             \/ setup = Service("large files") /\ FilesNext
          /\ UNCHANGED <<runtimeVars, replicationVars, mirrorVars, limitVars, forgeVars, accountVars>>
       \/ /\ \/ setup = Service("billing") /\ BillingNext
             \/ setup = Service("organisations") /\ OrgNext
          /\ UNCHANGED <<runtimeVars, replicationVars, mirrorVars, limitVars, forgeVars, lfsVars>>
       \/ /\ UNCHANGED <<runtimeVars, replicationVars, mirrorVars, forgeVars, userVars>>
          /\ \/ setup = Service("platform limiter") /\ (Tick \/ Check \/ Cleanup)
             \/ setup = Service("hub limiter") /\ (Tick \/ HubCheck)
             \/ setup = Service("quota") /\ (\/ NextMonth
                                             \/ \E r \in MergeRequest : RecordMerge(r) \/ CheckMerge(r))

MCNext == (ExchangeNext \/ ServiceNext) /\ UNCHANGED setup

MCSpec ==
    /\ MCInit /\ [][MCNext]_allVars
    /\ \A c \in Daemon : WF_vars(setup \in Exchanges /\ DaemonStep(c))
=============================================================================
