---------------------------- MODULE MCJavaClient ----------------------------
EXTENDS JavaClient

\* A subscriber and a publisher of the same topic, and a wildcard subscriber.
MCTopicOf == [h \in Handler |-> IF h = "wild" THEN << "+" >> ELSE << "a" >>]
=============================================================================
