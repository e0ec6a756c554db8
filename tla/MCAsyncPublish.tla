--------------------------- MODULE MCAsyncPublish ---------------------------
\* TLC instance of AsyncPublish: two threads share a queue of one message.
EXTENDS AsyncPublish
CONSTANTS th1, th2
MCThread == {th1, th2}
MCOwner == {th1}
MCQuota == [th \in MCThread |-> IF th \in MCOwner THEN 1 ELSE 2]
=============================================================================
