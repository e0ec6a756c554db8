--------------------------- MODULE MCSubscriptions ---------------------------
\* TLC instances of SubscriptionsAlone; threads, topics and callbacks are
\* interchangeable.  Two threads make the interleavings.
EXTENDS SubscriptionsAlone, TLC
CONSTANTS th1, th2, t1, t2, cb1
TwoThreads == {th1, th2}
OneTopic == {t1}
TwoTopics == {t1, t2}
OneCallback == {cb1}
AnyMayFail == {"connect", "authenticate", "subscribe", "unsubscribe", "resubscribe"}
NoneFails == {}
Symmetry == Permutations(Thread) \cup Permutations(Topic) \cup Permutations(Callback)
=============================================================================
