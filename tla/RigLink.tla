------------------------------ MODULE RigLink ------------------------------
(***************************************************************************)
(* What the handle of an IO task promises to the code that calls it, for   *)
(* the text protocol task (riglib-text-io) and the CI-V task (riglib-icom) *)
(* alike: calls are served one at a time, each at most once; every call    *)
(* gets one verdict, which never changes; a call that is told that the rig *)
(* is not connected was never served and never will be.                    *)
(***************************************************************************)
CONSTANT Requests     \* the calls made through one handle

VARIABLES
  open,               \* the task still takes requests from its channels
  phase,              \* [Requests -> Phases]: what became of the request
  verdict             \* [Requests -> Verdicts]: what its caller was told

linkVars == <<open, phase, verdict>>

Phases == {"new", "pending", "running", "over"}

\* Verdicts of a call that was served, and of a caller that stopped waiting.
Served   == {"ok", "rejected", "timeout", "broken"}
GaveUp   == {"timeout", "abandoned"}
Verdicts == {"none", "notconnected"} \cup Served \cup GaveUp

Init ==
  /\ open = TRUE
  /\ phase = [r \in Requests |-> "new"]
  /\ verdict = [r \in Requests |-> "none"]

\* A caller hands in its request.
Call(r) ==
  /\ phase[r] = "new"
  /\ phase' = [phase EXCEPT ![r] = "pending"]
  /\ UNCHANGED <<open, verdict>>

\* A caller finds the channel closed.
Refuse(r) ==
  /\ ~open
  /\ phase[r] \in {"new", "pending"}
  /\ verdict[r] = "none"
  /\ phase' = [phase EXCEPT ![r] = "over"]
  /\ verdict' = [verdict EXCEPT ![r] = "notconnected"]
  /\ UNCHANGED open

\* The task begins to serve a request: never two at a time.
Start(r) ==
  /\ open
  /\ phase[r] = "pending"
  /\ \A q \in Requests : phase[q] # "running"
  /\ phase' = [phase EXCEPT ![r] = "running"]
  /\ UNCHANGED <<open, verdict>>

\* The task is done with a request; a caller that still waits is told.
Finish(r) ==
  /\ phase[r] = "running"
  /\ phase' = [phase EXCEPT ![r] = "over"]
  /\ IF verdict[r] = "none"
     THEN \E v \in Served : verdict' = [verdict EXCEPT ![r] = v]
     ELSE UNCHANGED verdict
  /\ UNCHANGED open

\* A caller stops waiting: its request stays in the task's hands, unless it
\* was not handed in completely and is withdrawn.
Leave(r) ==
  /\ verdict[r] = "none"
  /\ \E v \in GaveUp : verdict' = [verdict EXCEPT ![r] = v]
  /\ \/ phase[r] \in {"pending", "running"} /\ UNCHANGED phase
     \/ phase[r] = "pending" /\ phase' = [phase EXCEPT ![r] = "over"]
  /\ UNCHANGED open

\* The task ends, and nothing will be served any more: the requests it has
\* taken in are lost, those still being handed in will be refused.
Close ==
  /\ open
  /\ \A q \in Requests : phase[q] # "running"
  /\ open' = FALSE
  /\ \E lost \in SUBSET {r \in Requests : phase[r] = "pending"} :
       /\ phase' = [r \in Requests |-> IF r \in lost THEN "over" ELSE phase[r]]
       /\ verdict' = [r \in Requests |->
                        IF r \in lost /\ verdict[r] = "none"
                        THEN "notconnected" ELSE verdict[r]]

Next ==
  \/ Close
  \/ \E r \in Requests :
       Call(r) \/ Refuse(r) \/ Start(r) \/ Finish(r) \/ Leave(r)

Spec == Init /\ [][Next]_linkVars
=============================================================================
