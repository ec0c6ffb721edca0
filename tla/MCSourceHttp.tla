---------------------------- MODULE MCSourceHttp ----------------------------
(***************************************************************************)
(* Small instances of SourceHttp for TLC.  A unit of time is about the     *)
(* slow interval; the order of the real delays (calm < slow < backoff <    *)
(* cooldowns) is kept.                                                     *)
(***************************************************************************)
EXTENDS SourceHttp

\* Calls 11 and 12 go to host 1, 21 to host 2.
HostByTens == [c \in Calls |-> c \div 10]
OneHost == {1}
TwoHosts == {1, 2}
TwoOfOne == {11, 12}
TwoAndOne == {11, 12, 21}
First == {11}
NoRetryAfters == {}
NoMinimum == [c \in Calls |-> 0]
AfterThree == {3}
=============================================================================
