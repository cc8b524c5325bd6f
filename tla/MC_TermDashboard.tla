--------------------------- MODULE MC_TermDashboard ---------------------------
EXTENDS TermDashboard
====
