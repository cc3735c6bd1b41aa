------------------------------ MODULE MCTextIo ------------------------------
(* Instances of TextIo for TLC.                                            *)
EXTENDS TextIo, TLC

CONSTANTS r1, r2, r3

\* A query, a setting and a control line operation of the rig traits: a
\* frequency query on the background channel, a SET on either channel (CAT PTT
\* is real-time), a line on the real-time channel, and the shutdown.
GetFreq  == [kind |-> "get", chan |-> "bg", prefix |-> "FA"]
GetMeter == [kind |-> "get", chan |-> "bg", prefix |-> "SM"]
SetFreq  == [kind |-> "set", chan |-> "bg", prefix |-> "FA"]
SetPtt   == [kind |-> "set", chan |-> "rt", prefix |-> "TX"]
KeyLine  == [kind |-> "line", chan |-> "rt", prefix |-> "TX"]
StopTask == [kind |-> "shutdown", chan |-> "bg", prefix |-> "TX"]

AllOps    == {GetFreq, GetMeter, SetPtt, KeyLine, StopTask}
LiveOps   == {GetMeter, SetPtt, KeyLine, StopTask}
QueryOps  == {GetFreq, GetMeter, SetFreq, SetPtt}
ThePrefixes == {"FA", "SM", "TX"}
TheAi       == {"FA"}

Symmetry == Permutations(Requests)
=============================================================================
