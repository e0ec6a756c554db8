--------------------------- MODULE MCTicketMutex ---------------------------
\* TLC instance of TicketMutex: as many threads as tickets, so that the
\* counters wrap with every ticket in use.
EXTENDS TicketMutex
CONSTANTS t1, t2, t3, t4
MCThread == {t1, t2, t3, t4}
MCTop == 3
=============================================================================
