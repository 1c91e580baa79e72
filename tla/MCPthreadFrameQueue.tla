-------------------------- MODULE MCPthreadFrameQueue --------------------------
\* Instances of PthreadFrameQueue.  Producers, consumers and frames are
\* interchangeable; the symmetry is for safety runs only.
EXTENDS PthreadFrameQueue, TLC

Symmetry == Permutations(Producers) \cup Permutations(Consumers) \cup Permutations(Frames)
================================================================================
