---------------------------- MODULE AtomicTenants ----------------------------
(***************************************************************************)
(* What the tenant module promises its clients: every command takes effect *)
(* at one instant, on the tenant as it is at that instant, and leaves      *)
(* exactly the events of that change behind.  Tenants, which has requests, *)
(* transactions, locks and stale reads, is shown to implement this.        *)
(***************************************************************************)
EXTENDS TenantDomain

VARIABLES
    tenants,      \* row of each tenant, Null before it is created
    outbox        \* events of each tenant, oldest first

vars == <<tenants, outbox>>

Init ==
    /\ tenants = [t \in TenantID |-> Null]
    /\ outbox = [t \in TenantID |-> <<>>]

\* A tenant appears under a slug that no other tenant has.
CreateTenant(c) ==
    /\ tenants[c.id] = Null
    /\ \A t \in TenantID : tenants[t] # Null => tenants[t].slug # c.slug
    /\ tenants' = [tenants EXCEPT ![c.id] = Create(c)]
    /\ outbox' = [outbox EXCEPT ![c.id] = @ \o <<Created(c)>>]

\* A change of status or quota that the current row accepts, whole and at once.
Mutate(c) ==
    /\ tenants[c.id] # Null
    /\ Accepts(tenants[c.id], c)
    /\ tenants' = [tenants EXCEPT ![c.id] = Applied(@, c)]
    /\ outbox' = [outbox EXCEPT ![c.id] = @ \o Recorded(tenants[c.id], c)]

Next == (\E c \in CreateCommand : CreateTenant(c)) \/ (\E c \in MutateCommand : Mutate(c))

Spec == Init /\ [][Next]_vars
=============================================================================
