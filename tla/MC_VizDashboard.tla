-------------------------- MODULE MC_VizDashboard --------------------------
EXTENDS VizDashboard

\* Any request may get a server error or an empty 200 instead.
MCClusterFaults == {EmptyAnswer(500), EmptyAnswer(200)}

=============================================================================
