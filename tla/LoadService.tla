----------------------------- MODULE LoadService -----------------------------
(***************************************************************************)
(* What the request manager promises an application: the loads it accepts  *)
(* are reported to the application's own AFTER filter once each, however   *)
(* many redirections, rounds of authentication and failures are between.   *)
(***************************************************************************)
EXTENDS Integers

CONSTANT Requests

VARIABLE owed           \* reports the application still waits for

Init == owed = [r \in Requests |-> 0]

\* HTLoad returned YES to the application.
Accept(r) == owed[r] = 0 /\ owed' = [owed EXCEPT ![r] = 1]

\* The terminate filter of the application was called, or HTLoad returned NO.
Report(r) == owed[r] = 1 /\ owed' = [owed EXCEPT ![r] = 0]

\* The filter accepts the next load before it returns.
HandOver(r, next) ==
    /\ owed[r] = 1 /\ owed[next] = 0
    /\ owed' = [owed EXCEPT ![r] = 0, ![next] = 1]

Next == \E r \in Requests : \/ Accept(r) \/ Report(r)
                           \/ \E next \in Requests : HandOver(r, next)

Spec == Init /\ [][Next]_owed /\ \A r \in Requests : WF_owed(Report(r))
==============================================================================
