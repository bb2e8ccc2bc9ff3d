---------------------------- MODULE CatalogDomain ----------------------------
(***************************************************************************)
(* The Service aggregate of the catalog: its values, its commands and what *)
(* each domain method does to it (internal/modules/catalog/domain).        *)
(*                                                                         *)
(* Description, tier and repository are set once and never read by a rule, *)
(* so they are left out.  A name stands for a (tenant, name) pair, the     *)
(* scope of the table's unique constraint.                                 *)
(***************************************************************************)
EXTENDS Integers, Sequences

CONSTANTS
    ServiceID,   \* ids NewServiceID can return
    Name,        \* valid (tenant, name) pairs
    Team,        \* non-blank owning teams
    OnCallRef,   \* on-call references, NoOnCall among them
    NoOnCall,    \* the empty on-call reference
    Null         \* SQL NULL, and the row of a service that is not there

ASSUME OnCallAssumption == NoOnCall \in OnCallRef

Lifecycle == {"experimental", "production", "deprecated", "retired"}

lifecycleTransitions ==
    [experimental |-> {"production", "deprecated", "retired"},
     production   |-> {"deprecated", "retired"},
     deprecated   |-> {"production", "retired"},
     retired      |-> {}]

Ownership == [OwningTeam : Team, OnCallRef : OnCallRef]

hasOnCall(o) == o.OnCallRef # NoOnCall

\* A catalog_services row, and the aggregate FindByID reconstitutes from it.
Service ==
    [name      : Name,
     lifecycle : Lifecycle,
     ownership : Ownership,
     version   : Nat \ {0},
     createdAt : Nat,
     updatedAt : Nat]

ASSUME NullAssumption == Null \notin Service /\ Null \notin Nat

-----------------------------------------------------------------------------
(* Commands: the validated input of a use case.                            *)

RegisterCommand  == [op : {"RegisterService"}, id : ServiceID, name : Name, ownership : Ownership]
OwnershipCommand == [op : {"ChangeOwnership"}, id : ServiceID, ownership : Ownership]
LifecycleCommand == [op : {"ChangeLifecycle"}, id : ServiceID, lifecycle : Lifecycle]
RetireCommand    == [op : {"RetireService"}, id : ServiceID]

MutateCommand == OwnershipCommand \cup LifecycleCommand \cup RetireCommand
Command       == RegisterCommand \cup MutateCommand

(* Domain events, with the fields their payload carries besides the id.    *)
Event ==
         [type : {"registered"}, name : Name, at : Nat]
    \cup [type : {"ownership_changed"}, previous : Team, new : Team, at : Nat]
    \cup [type : {"lifecycle_changed"}, from : Lifecycle, to : Lifecycle, at : Nat]
    \cup [type : {"retired"}, at : Nat]

-----------------------------------------------------------------------------
(* Register, Reconstitute and the methods of the aggregate.                *)

Register(c, now) ==
    [name      |-> c.name,
     lifecycle |-> "experimental",
     ownership |-> c.ownership,
     version   |-> 1,
     createdAt |-> now,
     updatedAt |-> now]

Registered(c, now) == [type |-> "registered", name |-> c.name, at |-> now]

touch(s, now) == [s EXCEPT !.version = @ + 1, !.updatedAt = now]

\* Fault: ownership of a retired service may still change.
Accepts_RetiredOwner(s, c) ==
    CASE c.op = "ChangeOwnership" -> s.lifecycle = "production" => hasOnCall(c.ownership)
      [] c.op = "ChangeLifecycle" ->
            s.lifecycle # c.lifecycle =>
                /\ c.lifecycle \in lifecycleTransitions[s.lifecycle]
                /\ c.lifecycle = "production" => hasOnCall(s.ownership)
      [] c.op = "RetireService" -> TRUE

\* Fault: the on-call rule is checked on promotion only.
Accepts_PromotionOnly(s, c) ==
    CASE c.op = "ChangeOwnership" -> s.lifecycle # "retired"
      [] c.op = "ChangeLifecycle" ->
            s.lifecycle # c.lifecycle =>
                /\ c.lifecycle \in lifecycleTransitions[s.lifecycle]
                /\ c.lifecycle = "production" => hasOnCall(s.ownership)
      [] c.op = "RetireService" -> TRUE

\* The domain method of command c returns nil on service s.
Accepts(s, c) ==
    CASE c.op = "ChangeOwnership" ->
            /\ s.lifecycle # "retired"
            /\ s.lifecycle = "production" => hasOnCall(c.ownership)
      [] c.op = "ChangeLifecycle" ->
            s.lifecycle # c.lifecycle =>
                /\ c.lifecycle \in lifecycleTransitions[s.lifecycle]
                /\ c.lifecycle = "production" => hasOnCall(s.ownership)
      [] c.op = "RetireService" -> TRUE

\* An accepted command that finds nothing to do: no touch, no event.
IsNoOp(s, c) ==
    \/ c.op = "ChangeLifecycle" /\ s.lifecycle = c.lifecycle
    \/ c.op = "RetireService" /\ s.lifecycle = "retired"

\* The aggregate after the domain method of an accepted command.
Applied(s, c, now) ==
    IF IsNoOp(s, c) THEN s
    ELSE CASE c.op = "ChangeOwnership" -> touch([s EXCEPT !.ownership = c.ownership], now)
           [] c.op = "ChangeLifecycle" -> touch([s EXCEPT !.lifecycle = c.lifecycle], now)
           [] c.op = "RetireService"   -> touch([s EXCEPT !.lifecycle = "retired"], now)

\* The events PullEvents returns after it.
Recorded(s, c, now) ==
    IF IsNoOp(s, c) THEN <<>>
    ELSE CASE c.op = "ChangeOwnership" ->
                <<[type |-> "ownership_changed", previous |-> s.ownership.OwningTeam,
                   new |-> c.ownership.OwningTeam, at |-> now]>>
           [] c.op = "ChangeLifecycle" ->
                <<[type |-> "lifecycle_changed", from |-> s.lifecycle, to |-> c.lifecycle, at |-> now]>>
           [] c.op = "RetireService" -> <<[type |-> "retired", at |-> now]>>
=============================================================================
