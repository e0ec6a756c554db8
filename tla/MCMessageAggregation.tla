------------------------ MODULE MCMessageAggregation ------------------------
\* TLC instance of MessageAggregation: s1 and s2 share a configured bin, s3 is excluded.
EXTENDS MessageAggregation
CONSTANTS th1, th2, s1, s2, s3, b1
MCThread == {th1, th2}
MCOwner == {th1}
MCSubject == {s1, s2, s3}
MCExcluded == {s3}
MCBin == {b1}
MCBinFor == [s \in MCSubject |-> IF s = s3 THEN None ELSE b1]
MCQuota == [th \in MCThread |-> IF th \in MCOwner THEN 1 ELSE 2]
=============================================================================
