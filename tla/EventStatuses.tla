---------------------------- MODULE EventStatuses ----------------------------
(* The statuses of an event and the transitions its lifecycle permits:
   internal/tenant/domain/event.go.                                          *)
EXTENDS FiniteSets

Statuses == {"draft", "open", "locked", "closed", "archived"}

\* canTransitionEventStatus
CanTransition(from, to) ==
    \/ from = "draft"    /\ to \in {"open", "archived"}
    \/ from = "open"     /\ to = "locked"
    \/ from = "locked"   /\ to \in {"closed", "open"}
    \/ from = "closed"   /\ to \in {"archived", "open"}
    \/ from = "archived" /\ to = "closed"

\* "The permitted transitions are these eight" (tenant_management_spec.md).
ASSUME EightTransitions ==
    Cardinality({t \in Statuses \X Statuses : CanTransition(t[1], t[2])}) = 8
=============================================================================
