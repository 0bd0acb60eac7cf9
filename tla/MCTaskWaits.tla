------------------------------ MODULE MCTaskWaits ------------------------------
EXTENDS TaskWaits
=============================================================================
