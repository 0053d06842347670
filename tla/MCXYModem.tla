------------------------------ MODULE MCXYModem ------------------------------
(* A byte of three values, so that block numbers come round within a file  *)
(* of five units in blocks of two; a 1k block is two small ones.  An empty *)
(* file, which is sent as one unit and padded, and one that fills its      *)
(* blocks.  Block 2 stands for 10 and 245, the numbers with an LF.         *)
EXTENDS XYModem

MCLengths == {0, 2, 5}
MCWires == {{}, {"NUL"}, {"LF"}}
MCLfNumbers == {2}
MCMangles == {{}, {0}, {HeaderAt}}

\* Timers that fire at any time, on a line that carries every character, and
\* without plain XMODEM, which ok_prot never offers.
LateOrPrompt == prompt \/ (protocol # "XMODEM" /\ lost = {} /\ lFileSize > 2)
=============================================================================
