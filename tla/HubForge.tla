------------------------------ MODULE HubForge -------------------------------
(***************************************************************************)
(* The issues and pull requests of a hub, read page by page while they     *)
(* change (suture-hub/src/storage.rs and server.rs), and the webhooks that *)
(* are told of pushes and branches (suture-hub/src/webhooks.rs).  The      *)
(* hub's lock makes a request one step; a reader that asks for page after  *)
(* page makes many, and every event is delivered by a task of its own that *)
(* reads the list of hooks later.                                          *)
(***************************************************************************)
EXTENDS Naturals, Sequences, FiniteSets

CONSTANTS PageSize,      \* rows of a page
          MaxItems,      \* bound on the rows opened
          MaxSeconds,    \* bound on the clock, which has whole seconds
          Hook,          \* webhooks
          Event,         \* the kinds of events
          MaxEvents      \* bound on the events

ASSUME PageAssumption == PageSize \in Nat \ {0}

VARIABLES seconds,   \* the clock
          issues,    \* issues[id]: [status, updated], a row of issues or of pull_requests
          reader,    \* a client that reads all pages, and what it is owed
          hooks,     \* the rows of webhooks by created_at: a sequence of [hook, events]
          given,     \* the ids given to webhooks so far
          tasks,     \* tasks[n]: the task that delivers the n-th event
          heard      \* heard[h]: the events h answered with success, in the order they came

itemVars  == <<seconds, issues, reader>>
hookVars  == <<hooks, given, tasks, heard>>
forgeVars == <<itemVars, hookVars>>

NoReader == [step |-> "idle", filter |-> "all", cursor |-> 0, seen |-> {}, due |-> {}]

ForgeInit ==
    /\ seconds = 0 /\ issues = <<>> /\ reader = NoReader
    /\ hooks = <<>> /\ given = {} /\ tasks = <<>> /\ heard = [h \in Hook |-> <<>>]

-----------------------------------------------------------------------------
(* Issues and pull requests *)

NextSecond == /\ seconds < MaxSeconds
              /\ seconds' = seconds + 1
              /\ UNCHANGED <<issues, reader, hookVars>>

\* create_issue and create_pull_request: ids ascend.
OpenItem ==
    /\ Len(issues) < MaxItems
    /\ issues' = Append(issues, [status |-> "open", updated |-> seconds])
    /\ UNCHANGED <<seconds, reader, hookVars>>

\* What changes a row sets updated_at; the reader is not owed a row that changes under
\* its eyes.
Alter(id, status) ==
    /\ id \in DOMAIN issues
    /\ issues' = [issues EXCEPT ![id] = [status |-> status, updated |-> seconds]]
    /\ reader' = [reader EXCEPT !.due = @ \ {id}]
    /\ UNCHANGED <<seconds, hookVars>>

\* add_issue_comment and add_pr_review.
Discuss(id) == id \in DOMAIN issues /\ Alter(id, issues[id].status)

\* update_issue_status, close_pull_request and merge_pull_request: whatever the status
\* was, and without a look at the branches.
Conclude(id, status) == Alter(id, status)

Matching(filter) == {id \in DOMAIN issues : filter \in {"all", issues[id].status}}

\* Variant of Before: the row that has not changed for longest comes first.
BeforeOldest(a, b) ==
    \/ issues[a].updated < issues[b].updated
    \/ issues[a].updated = issues[b].updated /\ a < b

\* ORDER BY updated_at DESC; of one second, in the order of the table.
Before(a, b) ==
    \/ issues[a].updated > issues[b].updated
    \/ issues[a].updated = issues[b].updated /\ a < b

\* How many rows come before a row in the list.
Offset(filter, id) == Cardinality({other \in Matching(filter) : Before(other, id)})

\* apply_pagination: skip as many rows as the cursor says.
Page(filter, cursor) ==
    {id \in Matching(filter) : Offset(filter, id) \in cursor .. cursor + PageSize - 1}
HasMore(filter, cursor) == Cardinality(Matching(filter)) > cursor + PageSize

\* A page read by list_issues_handler or list_pull_requests_handler; without has_more
\* the reader is through.
WithPage(r) ==
    [r EXCEPT !.seen = @ \cup Page(r.filter, r.cursor),
              !.cursor = @ + PageSize,
              !.step = IF HasMore(r.filter, r.cursor) THEN "reading" ELSE "done"]

FirstPage(filter) ==
    /\ reader.step = "idle"
    /\ reader' = WithPage([NoReader EXCEPT !.filter = filter, !.due = Matching(filter)])
    /\ UNCHANGED <<seconds, issues, hookVars>>

NextPage ==
    /\ reader.step = "reading"
    /\ reader' = WithPage(reader)
    /\ UNCHANGED <<seconds, issues, hookVars>>

-----------------------------------------------------------------------------
(* Webhooks *)

\* The rows of webhooks at some places, in their order.
HooksAt(places) ==
    [k \in 1..Cardinality(places) |->
        hooks[CHOOSE i \in places : Cardinality({j \in places : j < i}) = k - 1]]

\* create_webhook_handler: events must not be empty; the id is random, so new.
CreateWebhook(h, events) ==
    /\ events # {} /\ h \notin given
    /\ given' = given \cup {h}
    /\ hooks' = Append(hooks, [hook |-> h, events |-> events])
    /\ UNCHANGED <<tasks, heard, itemVars>>

\* delete_webhook_handler; who is deleted before a task reads the hooks is owed nothing.
DeleteWebhook(h) ==
    /\ \E i \in DOMAIN hooks : hooks[i].hook = h
    /\ hooks' = HooksAt({i \in DOMAIN hooks : hooks[i].hook # h})
    /\ tasks' = [n \in DOMAIN tasks |->
                    IF tasks[n].step = "spawned" THEN [tasks[n] EXCEPT !.due = @ \ {h}] ELSE tasks[n]]
    /\ UNCHANGED <<given, heard, itemVars>>

Listening(event) == HooksAt({i \in DOMAIN hooks : event \in hooks[i].events})

\* A push, or a branch that is created or deleted: once it is stored, a task is spawned.
Happen(event) ==
    /\ Len(tasks) < MaxEvents
    /\ LET listening == Listening(event)
       IN  tasks' = Append(tasks,
               [event |-> event, step |-> "spawned", left |-> <<>>, failed |-> {},
                due |-> {listening[i].hook : i \in DOMAIN listening}])
    /\ UNCHANGED <<hooks, given, heard, itemVars>>

\* The task reads the hooks and keeps those for its event.
ReadHooks(n) ==
    /\ tasks[n].step = "spawned"
    /\ tasks' = [tasks EXCEPT ![n].step = "sending", ![n].left = Listening(tasks[n].event)]
    /\ UNCHANGED <<hooks, given, heard, itemVars>>

\* Variant of AfterFailure: the first hook that fails ends the loop.
AfterFailureEnds(task, h) == [task EXCEPT !.left = <<>>, !.failed = @ \cup {h}]

\* A failure is counted and the loop goes on.
AfterFailure(task, h) == [task EXCEPT !.left = Tail(@), !.failed = @ \cup {h}]

\* trigger: one hook after the other, each once, its answer awaited.
Call(n, ok) ==
    /\ tasks[n].step = "sending" /\ tasks[n].left # <<>>
    /\ LET h == tasks[n].left[1].hook
       IN  IF ok
           THEN /\ heard' = [heard EXCEPT ![h] = Append(@, n)]
                /\ tasks' = [tasks EXCEPT ![n].left = Tail(@)]
           ELSE /\ tasks' = [tasks EXCEPT ![n] = AfterFailure(@, h)]
                /\ UNCHANGED heard
    /\ UNCHANGED <<hooks, given, itemVars>>

-----------------------------------------------------------------------------
ItemsNext(filters) ==
    \/ NextSecond \/ OpenItem \/ NextPage
    \/ \E filter \in filters : FirstPage(filter)
    \/ \E id \in 1..MaxItems : Discuss(id) \/ \E s \in {"open", "closed"} : Conclude(id, s)

HooksNext ==
    \/ \E h \in Hook : DeleteWebhook(h) \/ \E events \in SUBSET Event : CreateWebhook(h, events)
    \/ \E event \in Event : Happen(event)
    \/ \E n \in DOMAIN tasks : ReadHooks(n) \/ \E ok \in BOOLEAN : Call(n, ok)

ForgeSpec == ForgeInit /\ [][ItemsNext({"all", "open"}) \/ HooksNext]_forgeVars

-----------------------------------------------------------------------------
(* Properties *)

ReadAll(filters) == reader.step = "done" /\ reader.filter \in filters => reader.due \subseteq reader.seen

\* Who reads all pages without a filter has every row that was there at the start and
\* has not changed since, whatever is opened, closed and discussed in between: an
\* offset is safe because rows only ever move to the front.
WalkComplete == ReadAll({"all"})

\* The same with a filter: a row that is closed leaves the list of the open ones, and
\* the offset jumps over another.
FilteredWalkComplete == ReadAll({"open"})

\* A hook that is there from an event until its task reads the hooks hears of the event
\* once or its own delivery failed; hooks that fail, and tasks that run at the same
\* time, take nothing from it.
EventsTold ==
    \A n \in DOMAIN tasks :
        tasks[n].step = "sending" /\ tasks[n].left = <<>> =>
            \A h \in tasks[n].due :
                Cardinality({i \in DOMAIN heard[h] : heard[h][i] = n})
                    = (IF h \in tasks[n].failed THEN 0 ELSE 1)

\* A hook hears of events in the order in which they happened.
ToldInOrder == \A h \in Hook : \A i, j \in DOMAIN heard[h] : i < j => heard[h][i] < heard[h][j]
=============================================================================
