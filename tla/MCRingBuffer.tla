----------------------------- MODULE MCRingBuffer -----------------------------
\* RingBuffer over two bytes and an array of four, with requests of up to five:
\* every fill level meets every position of the wrap, and some requests are too
\* long even for the empty (full) ring.
EXTENDS RingBuffer
================================================================================
