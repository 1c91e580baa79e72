----------------------------- MODULE MCFrameQueue -----------------------------
\* FrameQueue over two interchangeable frames and a ring of three slots, so that
\* the indices wrap at every fill level; counters saturate at MaxCount.
EXTENDS FrameQueue, TLC

FrameSymmetry == Permutations(Frames)
================================================================================
