------------------------------- MODULE MCGate --------------------------------
\* Instances of Gate for TLC.
EXTENDS Gate, TLC

CONSTANTS c1, c2, c3

MCCallers == {c1, c2, c3}
MCKeys == {1, 2}

\* A write on one project, and writes across both, as gathered.
MCPlans == {<<1>>, <<2>>, <<1, 2>>, <<2, 1>>}
=============================================================================
