------------------------------- MODULE MCRuntime -------------------------------
\* Every scenario of the command line, small enough to be explored whole.
EXTENDS Runtime
===============================================================================
