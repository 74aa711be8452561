--------------------------- MODULE MCManagedHeap ---------------------------
EXTENDS ManagedHeap

MCConstants == {1}
MCBuiltins == {"list"}
MCArities == {0, 1}
=============================================================================
