----------------------------- MODULE MCPeerSync -----------------------------
(* Topologies of two and three daemons, named after who pulls from whom. *)
EXTENDS PeerSync, TLC

CONSTANTS a, b, c

Pair == {a, b}
Trio == {a, b, c}

(* b pulls from a *)
OneWay == (a :> <<>> @@ b :> <<a>>)

(* each pulls from the other; an address of a leads back to itself, and an
   address of b, meant for b's old peer, to a *)
Mutual == (a :> <<a, b>> @@ b :> <<a, a>>)
MutualPins == (a :> <<Unset, b>> @@ b :> <<b, a>>)

(* c pulls from a and then from b, which pulls from a *)
Triangle == (a :> <<>> @@ b :> <<a>> @@ c :> <<a, b>>)

(* no address is pinned to an identity *)
Unpinned == [n \in Node |-> [k \in 1 .. Len(Peers[n]) |-> Unset]]

(* $msgbus.delete comes before the names applications use *)
DeletesFirst == [l \in Log |-> IF l[1] = DeleteTopic THEN 0 ELSE 1]

OnlyA == {a}

(* every backend holds the head ids in use *)
WideHeads == [n \in Node |-> 9]

(* one existing message, a range that reaches into the future *)
DeleteRanges == {<<1, 1>>, <<2, 3>>}

(* a range that does both *)
OpenRange == {<<1, 3>>}

(* b's backend stores smaller head ids than a's, as SQLite does next to redb *)
MixedHeads == [n \in Node |-> IF n = b THEN 3 ELSE 9]

(* the second range fits a's backend only *)
RelayRanges == {<<1, 1>>, <<2, 9>>}
WideRange == {<<1, 9>>}
=============================================================================
