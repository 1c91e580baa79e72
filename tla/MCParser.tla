------------------------------- MODULE MCParser -------------------------------
\* Parser over bytes of two bits, with the code's header and a check sum of
\* four: frames of 7 or 8 bytes, sent by this version of the protocol (kind 1) or
\* another, one with a payload that looks like a sync byte.  Two frames and one
\* fault suffice for a cut frame to swallow the beginning of the next one.
EXTENDS Parser, CheckSum

MCSentFrames ==
    {[kind |-> 1, payload |-> << >>], [kind |-> 1, payload |-> <<3>>],
     [kind |-> 2, payload |-> <<3>>]}
================================================================================
