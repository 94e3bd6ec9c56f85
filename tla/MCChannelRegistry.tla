------------------------- MODULE MCChannelRegistry -------------------------
(* ChannelRegistry for TLC: three threads contend for two task ids.        *)
EXTENDS ChannelRegistry

CONSTANTS th1, th2, th3, t1, t2

MCThread == {th1, th2, th3}
MCTask == {t1, t2}
=============================================================================
