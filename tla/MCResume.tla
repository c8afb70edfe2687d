------------------------------ MODULE MCResume ------------------------------
EXTENDS Resume

MCRowOf == [i \in 1..MaxLog |-> IF i % 2 = 1 THEN 1 ELSE 2]

MCConf(k, m, r) == [kind |-> k, mode |-> m, resume |-> r]

MCAll == [kind : {"mysql", "field", "mongodb", "kafka"},
          mode : {"stream", "replica"}, resume : BOOLEAN]

MCMongo == {MCConf("mongodb", "replica", FALSE)}
=============================================================================
