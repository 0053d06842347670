------------------------------- MODULE MCChat -------------------------------
(* Two instances, the second that of a sysop who is invisible; the open     *)
(* channel and one that may be secured.                                     *)
EXTENDS Chat

MCChannels == {"ch1", "ch2"}
MCSysops == {2}
=============================================================================
