------------------------------ MODULE MCConsole ------------------------------
EXTENDS Console
==============================================================================
