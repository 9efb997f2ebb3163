---- MODULE MCLogRing ----
EXTENDS LogRing

\* The probe view asks more often than the pages do.
MCRounds == [r \in Readers |-> IF r = "view" THEN 2 ELSE 1]
MCMaxUnits == [k \in Rings |-> 4]
====
