----------------------------- MODULE RemoteCall -----------------------------
(***************************************************************************)
(* What a client of a remote radio promises its callers: each call ends    *)
(* with one verdict; the radio executes its command at most once; a        *)
(* verdict of the radio's is only given when it has executed the command;  *)
(* a call that is told "notconnected" was not executed and never will be.  *)
(***************************************************************************)
CONSTANT Calls

VARIABLES
  executed,     \* calls whose command the radio has executed
  banned,       \* calls whose command never reaches the radio
  verdict       \* [Calls -> Verdicts]: what the caller was told

callVars == <<executed, banned, verdict>>

ByRadio  == {"ok", "rejected"}
Unsure   == {"timeout", "lost", "broken", "abandoned"}
Verdicts == {"none", "notconnected"} \cup ByRadio \cup Unsure

Init ==
  /\ executed = {}
  /\ banned = {}
  /\ verdict = [c \in Calls |-> "none"]

\* The radio executes a command, whether or not its caller still waits.
Execute(c) ==
  /\ c \notin executed \cup banned
  /\ executed' = executed \cup {c}
  /\ UNCHANGED <<banned, verdict>>

Return(c, v) ==
  /\ verdict[c] = "none"
  /\ v \in ByRadio => c \in executed
  /\ v = "notconnected" => c \notin executed
  /\ verdict' = [verdict EXCEPT ![c] = v]
  /\ banned' = IF v = "notconnected" THEN banned \cup {c} ELSE banned
  /\ UNCHANGED executed

Next == \E c \in Calls : Execute(c) \/ \E v \in Verdicts \ {"none"} : Return(c, v)

Spec == Init /\ [][Next]_callVars
=============================================================================
