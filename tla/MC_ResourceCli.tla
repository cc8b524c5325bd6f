---------------------------- MODULE MC_ResourceCli ----------------------------
EXTENDS ResourceCli

\* A 500 and a 401.
MCFaults == {EmptyAnswer(500), EmptyAnswer(401)}
====
