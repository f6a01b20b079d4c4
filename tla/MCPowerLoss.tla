---------------------------- MODULE MCPowerLoss ----------------------------
(* One daemon pulls from another, and its machine loses power. *)
EXTENDS PowerLoss, TLC

CONSTANTS a, b

Pair == {a, b}

(* b pulls from a *)
OneWay == (a :> <<>> @@ b :> <<a>>)

(* no address is pinned to an identity *)
Unpinned == [n \in Node |-> [k \in 1 .. Len(Peers[n]) |-> Unset]]

(* $msgbus.delete comes before the names applications use *)
DeletesFirst == [l \in Log |-> IF l[1] = DeleteTopic THEN 0 ELSE 1]

OnlyA == {a}
OnlyB == {b}

(* every backend holds the head ids in use *)
WideHeads == [n \in Node |-> 9]

(* one existing message, a range that reaches into the future *)
DeleteRanges == {<<1, 1>>, <<2, 3>>}
=============================================================================
