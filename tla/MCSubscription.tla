--------------------------- MODULE MCSubscription ---------------------------
EXTENDS Subscription, TLC

HandlerSymmetry == Permutations(Handler)
=============================================================================
