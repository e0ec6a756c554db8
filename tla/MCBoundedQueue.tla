--------------------------- MODULE MCBoundedQueue ---------------------------
\* TLC instances of BoundedQueue.
EXTENDS BoundedQueue
CONSTANTS p1, p2, c1, x1, x2
MCThread == {p1, p2, c1}
MCProducer == {p1, p2}
MCItem == {x1, x2}
PutAndOffer == {"put", "offer"}
TimedOffer == {"offer", "offer_for"}
OnlyPoll == {"poll"}
=============================================================================
