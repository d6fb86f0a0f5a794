--------------------------- MODULE StrictMachine ---------------------------
(***************************************************************************)
(* What the transition engine promises of a work item: the strict state    *)
(* machine drawn at the head of transitions.py, taken one edge at a time,  *)
(* every edge appended to the audit trail in the step that takes it.       *)
(* Module Lifecycle is the code that is meant to implement it.             *)
(***************************************************************************)
EXTENDS Sequences

CONSTANT Items              \* work items, created OPEN by the intake service

Edges == { <<"OPEN", "APPROVED">>,      <<"OPEN", "REJECTED">>,
           <<"OPEN", "SNOOZED">>,       <<"OPEN", "CANCELLED">>,
           <<"APPROVED", "PUBLISHED">>, <<"APPROVED", "PROMOTED_TO_WORKS">>,
           <<"APPROVED", "CANCELLED">>, <<"SNOOZED", "OPEN">>,
           <<"SNOOZED", "CANCELLED">> }

VARIABLES state,            \* the status of each item
          trail             \* <<item, from, to>>, in the order taken

svars == <<state, trail>>

SInit == /\ state = [i \in Items |-> "OPEN"]
         /\ trail = <<>>

Take(i, s) ==
    /\ <<state[i], s>> \in Edges
    /\ state' = [state EXCEPT ![i] = s]
    /\ trail' = Append(trail, <<i, state[i], s>>)

SNext == \E i \in Items : \E e \in Edges : Take(i, e[2])

SSpec == SInit /\ [][SNext]_svars
=============================================================================
