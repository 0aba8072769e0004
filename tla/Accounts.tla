----------------------------- MODULE Accounts -------------------------------
(***************************************************************************)
(* What the platform keeps of its users beside the limits: the tier an     *)
(* account has paid for (suture-platform/src/stripe.rs), and who belongs   *)
(* to an organisation (orgs.rs).                                           *)
(*                                                                         *)
(* Payment.  A user starts a checkout, maybe in two tabs; the payment      *)
(* provider makes the subscription and tells the platform of all that      *)
(* happens to it by events.  The provider is external: PaymentNext has     *)
(* what it does as far as the handlers can tell.  Its events come once     *)
(* each, and in order unless Unordered.  The tables subscriptions and      *)
(* checkout_sessions are not in the schema (db.rs): statements on them     *)
(* fail, which is logged, and they are left out here.                      *)
(*                                                                         *)
(* Organisations.  Every request first checks the role of who asks, lets   *)
(* go of the database, and acts; so requests overlap.                      *)
(***************************************************************************)
EXTENDS Naturals, Sequences, FiniteSets

CONSTANTS Tab,         \* checkouts of one user at a time
          Unordered,   \* BOOLEAN: may events come in another order
          Person,      \* users of the organisation
          Founder,     \* its first owner
          Invited      \* those who register only after an invitation

NoCustomer == "none"

ASSUME TabAssumption == NoCustomer \notin Tab /\ Unordered \in BOOLEAN
ASSUME PersonAssumption == Founder \in Person \ Invited /\ Invited \subseteq Person

VARIABLES account,     \* the row of the user: tier, customer, grace
          checkouts,   \* checkouts[t]: where the checkout in tab t is, and for which customer
          paid,        \* paid[t]: the subscription bought in tab t, at the provider
          events,      \* events of the provider, not yet handled
          members,     \* members[p]: the role of p, or "none"
          requests,    \* requests[p]: what p has been allowed to do, and not yet done
          invitations, \* open invitations
          registered   \* persons with an account

billingVars == <<account, checkouts, paid, events>>
orgVars     == <<members, requests, invitations, registered>>
accountVars == <<billingVars, orgVars>>

Roles      == {"admin", "member"}   \* in what follows, an owner is an admin and a viewer a member
Privileged == {"owner", "admin"}

BillingInit ==
    /\ account = [tier |-> "free", customer |-> NoCustomer, grace |-> FALSE]
    /\ checkouts = [t \in Tab |-> [step |-> "none", customer |-> NoCustomer]]
    /\ paid = [t \in Tab |-> "none"]
    /\ events = <<>>

\* create_org: its founder is the owner, in the table of members as well.
OrgInit ==
    /\ members = [p \in Person |-> IF p = Founder THEN "owner" ELSE "none"]
    /\ requests = [p \in Person |-> <<>>]
    /\ invitations = {}
    /\ registered = Person \ Invited

AccountsInit == BillingInit /\ OrgInit

-----------------------------------------------------------------------------
(* Checkout *)

At(t, step, customer) ==
    checkouts' = [checkouts EXCEPT ![t] = [step |-> step, customer |-> customer]]

\* get_or_create_customer reads the account; without a customer it asks the provider for
\* one (called t here), and has let go of the database meanwhile.
StartCheckout(t) ==
    /\ checkouts[t].step = "none"
    /\ IF account.customer = NoCustomer THEN At(t, "customer", t)
       ELSE At(t, "session", account.customer)
    /\ UNCHANGED <<account, paid, events, orgVars>>

\* The new customer is stored over whatever is there, and a session asked for.
StoreCustomer(t) ==
    /\ checkouts[t].step = "customer"
    /\ account' = [account EXCEPT !.customer = checkouts[t].customer]
    /\ At(t, "session", checkouts[t].customer)
    /\ UNCHANGED <<paid, events, orgVars>>

\* The provider tells the platform, once for each kind.
Tell(kinds, t) == events' = events \o [i \in DOMAIN kinds |-> [kind |-> kinds[i], tab |-> t]]

\* At the provider: the session is paid; a payment fails, so that the subscription is past
\* due, and later succeeds after all; the subscription ends.
PaymentNext(t) ==
    /\ \/ /\ checkouts[t].step = "session" /\ paid[t] = "none"
          /\ paid' = [paid EXCEPT ![t] = "active"] /\ Tell(<<"completed">>, t)
       \/ /\ paid[t] = "active"
          /\ paid' = [paid EXCEPT ![t] = "past_due"] /\ Tell(<<"payment_failed", "past_due">>, t)
       \/ /\ paid[t] = "past_due"
          /\ paid' = [paid EXCEPT ![t] = "renewed"] /\ Tell(<<"renewed">>, t)
       \/ /\ paid[t] \notin {"none", "ended"}
          /\ paid' = [paid EXCEPT ![t] = "ended"] /\ Tell(<<"deleted">>, t)
    /\ UNCHANGED <<account, checkouts, orgVars>>

CustomerOf(t) == checkouts[t].customer
Upgraded(t)   == [tier |-> "pro", customer |-> CustomerOf(t), grace |-> FALSE]

\* Variant of AfterEvent: an end within the days of grace leaves the tier.
AfterEventInGrace(row, event) ==
    IF event.kind = "completed" THEN Upgraded(event.tab)
    ELSE IF row.customer # CustomerOf(event.tab) THEN row
    ELSE CASE event.kind = "payment_failed" -> [row EXCEPT !.grace = (row.grace \/ row.tier # "free")]
           [] event.kind = "deleted" /\ ~row.grace -> [row EXCEPT !.tier = "free"]
           [] OTHER -> row

\* handle_checkout_completed finds the account by its user, the other three by its
\* customer.  The tier is in the metadata of the session only: an update of the
\* subscription carries none, which counts as free even if the subscription is active.
AfterEvent(row, event) ==
    IF event.kind = "completed" THEN Upgraded(event.tab)
    ELSE IF row.customer # CustomerOf(event.tab) THEN row
    ELSE CASE event.kind = "payment_failed" -> [row EXCEPT !.grace = (row.grace \/ row.tier # "free")]
           [] event.kind \in {"past_due", "renewed"} -> [row EXCEPT !.tier = "free"]
           [] event.kind = "deleted" -> [row EXCEPT !.tier = "free", !.grace = FALSE]

WithoutEvent(i) == SubSeq(events, 1, i - 1) \o SubSeq(events, i + 1, Len(events))

\* handle_webhook: one event, always answered with success.
HandleEvent(i) ==
    /\ i \in DOMAIN events /\ (i = 1 \/ Unordered)
    /\ account' = AfterEvent(account, events[i])
    /\ events' = WithoutEvent(i)
    /\ UNCHANGED <<checkouts, paid, orgVars>>

BillingNext ==
    \/ \E t \in Tab : StartCheckout(t) \/ StoreCustomer(t) \/ PaymentNext(t)
    \/ \E i \in 1..Len(events) : HandleEvent(i)

-----------------------------------------------------------------------------
(* Organisations *)

IsAdmin(p) == members[p] \in Privileged
Admins     == {p \in Person : IsAdmin(p)}

\* check_org_admin, for a request that p will carry out in a step of its own.
Ask(p, act, whom, role) ==
    /\ IsAdmin(p) /\ requests[p] = <<>>
    /\ requests' = [requests EXCEPT ![p] = <<[act |-> act, whom |-> whom, role |-> role]>>]
    /\ UNCHANGED <<members, invitations, registered, billingVars>>

Answered(p) == requests' = [requests EXCEPT ![p] = <<>>]

\* invite_member: who has an account becomes a member at once, unless already one.
InviteMember(r) ==
    /\ IF r.whom \in registered
       THEN /\ members' = [members EXCEPT ![r.whom] = IF @ = "none" THEN r.role ELSE @]
            /\ UNCHANGED invitations
       ELSE /\ invitations' = invitations \cup {[whom |-> r.whom, role |-> r.role]}
            /\ UNCHANGED members

\* remove_member counts the administrators and deletes under one lock.
RemoveMember(r) ==
    /\ members' = IF Admins = {r.whom} THEN members
                  ELSE [members EXCEPT ![r.whom] = "none"]
    /\ UNCHANGED invitations

\* update_member_role changes whichever member there is.
UpdateMemberRole(r) ==
    /\ members' = [members EXCEPT ![r.whom] = IF @ = "none" THEN @ ELSE r.role]
    /\ UNCHANGED invitations

Act(p) ==
    /\ requests[p] # <<>>
    /\ LET r == requests[p][1]
       IN  \/ r.act = "invite" /\ InviteMember(r)
           \/ r.act = "remove" /\ RemoveMember(r)
           \/ r.act = "update" /\ UpdateMemberRole(r)
    /\ Answered(p)
    /\ UNCHANGED <<registered, billingVars>>

\* register_user
Register(p) ==
    /\ p \notin registered
    /\ registered' = registered \cup {p}
    /\ UNCHANGED <<members, requests, invitations, billingVars>>

\* accept_invitation: a member's role stays what it is, and the invitation is used up.
\* (One that has run out is as good as never sent.)
Accept(i) ==
    /\ i \in invitations /\ i.whom \in registered
    /\ members' = [members EXCEPT ![i.whom] = IF @ = "none" THEN i.role ELSE @]
    /\ invitations' = invitations \ {i}
    /\ UNCHANGED <<requests, registered, billingVars>>

OrgNext ==
    \/ \E p, q \in Person :
          \/ Ask(p, "remove", q, "none")
          \/ \E role \in Roles, act \in {"invite", "update"} : Ask(p, act, q, role)
    \/ \E p \in Person : Act(p) \/ Register(p)
    \/ \E i \in invitations : Accept(i)

AccountsNext == BillingNext \/ OrgNext

AccountsSpec == AccountsInit /\ [][AccountsNext]_accountVars

-----------------------------------------------------------------------------

\* Nobody keeps a paid tier for nothing: behind it is a subscription that has not ended,
\* or the news of its end is on its way.  The exception is a subscription that was bought
\* for another customer than the account has now (two checkouts at once made two, and
\* one was stored over the other): the news of its end finds no account.
PaidTierIsPaid ==
    \/ account.tier = "free"
    \/ events # <<>>
    \/ \E t \in Tab : \/ paid[t] \notin {"none", "ended"}
                      \/ paid[t] = "ended" /\ CustomerOf(t) # account.customer

Carried(p) == requests[p] # <<>> /\ requests'[p] = <<>>

\* However the requests of administrators overlap, an organisation is left without any
\* administrator only by a change of role, never by a removal.
AdminsLeave ==
    Admins # {} /\ Admins' = {} => \E p \in Person : Carried(p) /\ requests[p][1].act = "update"

\* What the platform knows of its users: a paid tier is paid for, and administrators are
\* not removed to the last.
AccountsKept == [][PaidTierIsPaid' /\ AdminsLeave]_accountVars

\* An organisation has an administrator (not when the last one gives up the role).
AdminRemains == Admins # {}

\* "Users keep their tier during the grace period, then are downgraded" (stripe.rs:549).
\* They do not: the update that follows the failed payment takes the tier.
GraceKeepsTier == account.grace => account.tier # "free"

\* Who pays has the tier, once all events are handled (an update takes it, and so does
\* the end of another subscription of the same user).
PayingHasTier ==
    (events = <<>> /\ \E t \in Tab : paid[t] \in {"active", "renewed"}) => account.tier # "free"
=============================================================================
