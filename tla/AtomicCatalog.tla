---------------------------- MODULE AtomicCatalog ----------------------------
(***************************************************************************)
(* What the catalog promises its clients: every command takes effect at    *)
(* one instant, on the row as it is at that instant, and leaves exactly    *)
(* the events of that change behind.  Nothing is said of transactions,     *)
(* locks or stale reads; Catalog is shown to implement this.               *)
(***************************************************************************)
EXTENDS CatalogDomain

CONSTANT Time   \* instants a command may carry

VARIABLES
    services,   \* row of each service, Null before it is registered
    outbox      \* events of each service, oldest first

vars == <<services, outbox>>

Init ==
    /\ services = [s \in ServiceID |-> Null]
    /\ outbox = [s \in ServiceID |-> <<>>]

\* A service appears under a name no other service has.
RegisterService(c, now) ==
    /\ services[c.id] = Null
    /\ \A s \in ServiceID : services[s] # Null => services[s].name # c.name
    /\ services' = [services EXCEPT ![c.id] = Register(c, now)]
    /\ outbox' = [outbox EXCEPT ![c.id] = @ \o <<Registered(c, now)>>]

\* A change that the current row accepts, whole and at once.
Mutate(c, now) ==
    /\ services[c.id] # Null
    /\ Accepts(services[c.id], c)
    /\ services' = [services EXCEPT ![c.id] = Applied(@, c, now)]
    /\ outbox' = [outbox EXCEPT ![c.id] = @ \o Recorded(services[c.id], c, now)]

Next == \E now \in Time :
    \/ \E c \in RegisterCommand : RegisterService(c, now)
    \/ \E c \in MutateCommand : Mutate(c, now)

Spec == Init /\ [][Next]_vars
=============================================================================
