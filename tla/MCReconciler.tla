---------------------------- MODULE MCReconciler ----------------------------
(* Three specs: all defaults; an exposed tier 1 one with an opt-out, whose   *)
(* cpu is the tier's in other words; one with a cpu that is no quantity.     *)
EXTENDS Reconciler, TLC

MCSpecs ==
    { [port |-> 80, replicas |-> 0, tier |-> 3, expose |-> FALSE, readOnly |-> "unset",
       cpu |-> "", memory |-> ""],
      [port |-> 8080, replicas |-> 2, tier |-> 1, expose |-> TRUE, readOnly |-> "no",
       cpu |-> "1000m", memory |-> ""],
      [port |-> 80, replicas |-> 0, tier |-> 3, expose |-> FALSE, readOnly |-> "unset",
       cpu |-> "half", memory |-> ""] }

MCQuantity ==
    [q \in {"1", "1Gi", "500m", "512Mi", "250m", "256Mi", "100m", "128Mi"} |-> q]
        @@ ("1000m" :> "1")
=============================================================================
