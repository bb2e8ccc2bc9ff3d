----------------------------- MODULE TenantDomain -----------------------------
(***************************************************************************)
(* The Tenant aggregate: what its commands accept, what they make of it    *)
(* and which events they record (internal/modules/tenant/domain).  Name,   *)
(* plan and times are never read by a rule and are left out.               *)
(***************************************************************************)
EXTENDS Integers, Sequences

CONSTANTS
    TenantID,     \* ids NewTenantID can return
    Slug,         \* valid slugs
    Quota,        \* values of MaxServices
    Null          \* no row

statusTransitions ==
    [active |-> {"suspended", "archived"}, suspended |-> {"active", "archived"}, archived |-> {}]

Status == DOMAIN statusTransitions

Tenant == [slug : Slug, status : Status, quota : Quota, version : Nat \ {0}]

ASSUME NullAssumption == Null \notin Tenant \cup Nat

CreateCommand == [op : {"CreateTenant"}, id : TenantID, slug : Slug, quota : Quota]
MutateCommand ==
         [op : {"ChangeStatus"}, id : TenantID, status : Status]
    \cup [op : {"UpdateQuota"}, id : TenantID, quota : Quota]

Create(c) == [slug |-> c.slug, status |-> "active", quota |-> c.quota, version |-> 1]

\* TenantCreated carries the slug; the quota is not part of it.
Created(c) == [type |-> "created", slug |-> c.slug]

\* Fault: an archived tenant's quota may still change.
Accepts_ArchivedQuota(t, c) ==
    c.op = "ChangeStatus" => c.status = t.status \/ c.status \in statusTransitions[t.status]

Accepts(t, c) ==
    CASE c.op = "ChangeStatus" -> c.status = t.status \/ c.status \in statusTransitions[t.status]
      [] c.op = "UpdateQuota"  -> t.status # "archived"

IsNoOp(t, c) == c.op = "ChangeStatus" /\ c.status = t.status

touch(t) == [t EXCEPT !.version = @ + 1]

Applied(t, c) ==
    IF IsNoOp(t, c) THEN t
    ELSE touch(IF c.op = "ChangeStatus" THEN [t EXCEPT !.status = c.status]
               ELSE [t EXCEPT !.quota = c.quota])

Recorded(t, c) ==
    CASE IsNoOp(t, c)         -> <<>>
      [] c.op = "UpdateQuota" -> <<[type |-> "quota_updated", quota |-> c.quota]>>
      [] OTHER -> <<[type |-> "status_changed", from |-> t.status, to |-> c.status]>>
=============================================================================
