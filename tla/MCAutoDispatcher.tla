--------------------------- MODULE MCAutoDispatcher ---------------------------
\* TLC instances of AutoDispatcher: two application threads, which may or may not
\* ask stop() to wait.
EXTENDS AutoDispatcher
CONSTANTS th1, th2
TwoThreads == {th1, th2}
Either == {TRUE, FALSE}
=============================================================================
