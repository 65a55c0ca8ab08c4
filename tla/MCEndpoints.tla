----------------------------- MODULE MCEndpoints -----------------------------
EXTENDS Endpoints

CONSTANTS t1, t2, p1, p2, p3

MCTests == {t1, t2}

\* Three ports for two daemons per test: a free port always remains.
MCPorts == {p1, p2, p3}

=============================================================================
