--------------------------- MODULE MCRequestReply ---------------------------
\* TLC instances of RequestReply: who makes which requests.
EXTENDS RequestReply
CONSTANTS s1, a1, a2
OneSync == {s1}
OneAsync == {a1}
TwoAsync == {a1, a2}
NoReq == {}
SecondAsync == {a2}
=============================================================================
