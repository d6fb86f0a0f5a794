--------------------------- MODULE MCPocketEvents ---------------------------
(* One conversation for TLC: a text, its edit and its deletion, and what a *)
(* client or a worker brings of the reconciliation plane meanwhile.        *)
EXTENDS PocketEvents

CONSTANTS d1, d2, d3, k1, v, s1, s2, c, p, q

Text == [delivery |-> d1, key |-> k1, sequence |-> 1, conversation |-> v,
         supersedes |-> NoDelivery, live |-> FALSE, kind |-> "content",
         source |-> s1, valid |-> TRUE, consent |-> c, purpose |-> p]

Edit == [Text EXCEPT !.delivery = d2, !.key = NoKey, !.sequence = 2,
                     !.supersedes = d1, !.source = s2]

(* The newest message, so that both others may be stale.                   *)
Deletion == [Text EXCEPT !.delivery = d3, !.key = NoKey, !.sequence = 3,
                         !.kind = "tombstone"]

SomeMessages == {Text, Edit, Deletion}

(* The source of the edit, for a purpose of its own.                       *)
OtherPurpose == [Text EXCEPT !.delivery = NoDelivery, !.key = NoKey,
                             !.source = s2, !.purpose = q]

SomeRecords == {OtherPurpose}
=============================================================================
