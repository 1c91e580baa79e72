--------------------------- MODULE MCMessageManager ---------------------------
\* Instances of MessageManager.
EXTENDS MessageManager, TLC
================================================================================
