------------------------------ MODULE MCCivIo ------------------------------
(* Instances of CivIo for TLC.                                             *)
EXTENDS CivIo

CONSTANTS r1, r2

Load(a, b) == [r \in Requests |-> IF r = r1 THEN a ELSE b]

Query == [kind |-> "query", chan |-> "bg"]
RtSet == [kind |-> "ack", chan |-> "rt"]
Line  == [kind |-> "line", chan |-> "rt"]
Stop  == [kind |-> "shutdown", chan |-> "bg"]

\* Every pair of operations, in one of the two orders: the requests are alike.
\* (Two queries differ from two settings only in that they change nothing.)
ThePairs == {Load(a, a) : a \in {RtSet, Stop}}
            \cup {Load(Query, b) : b \in {RtSet, Line, Stop}}
            \cup {Load(RtSet, b) : b \in {Line, Stop}} \cup {Load(Line, Stop)}

\* A rig without fault, and one that may do all it should not.
TheHabits == {[late |-> b, direct |-> b] : b \in BOOLEAN}
=============================================================================
