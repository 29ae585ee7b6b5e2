----------------------------- MODULE MCOnlineTime -----------------------------
(* One player (Elsewhere stands for the others), milliseconds of two parts and *)
(* an interval of two milliseconds, so that rounding can go either way.  An    *)
(* unsigned int holds all times that there are, and the negative ones wrap.    *)
EXTENDS OnlineTime
=============================================================================
