------------------------ MODULE InvocationLifecycle ------------------------
(***************************************************************************)
(* What the execution service promises about one invocation, seen from        *)
(* outside: the status a poller reads (the states of InvocationStatus that    *)
(* the service writes) and the final events a subscriber may receive.         *)
(***************************************************************************)
CONSTANT Inv

VARIABLES status, finals

vars == <<status, finals>>

Closed == {"done", "failed", "cancelled"}

Init == /\ status = [i \in Inv |-> "absent"]
        /\ finals = [i \in Inv |-> {}]

Accept(i) == /\ status[i] = "absent"
             /\ status' = [status EXCEPT ![i] = "pending"]
             /\ UNCHANGED finals

Start(i) == /\ status[i] = "pending"
            /\ status' = [status EXCEPT ![i] = "running"]
            /\ UNCHANGED finals

Close(i) == /\ status[i] = "running"
            /\ \E s \in Closed : status' = [status EXCEPT ![i] = s]
            /\ UNCHANGED finals

\* A shutdown while the result is being published turns DONE into CANCELLED.
Revoke(i) == /\ status[i] = "done"
             /\ status' = [status EXCEPT ![i] = "cancelled"]
             /\ UNCHANGED finals

\* The one final event, and it agrees with the row.
Announce(i) == /\ finals[i] = {}
               /\ \/ status[i] = "done"
                     /\ finals' = [finals EXCEPT ![i] = {"result"}]
                  \/ status[i] = "failed"
                     /\ finals' = [finals EXCEPT ![i] = {"error"}]
               /\ UNCHANGED status

Next == \E i \in Inv : Accept(i) \/ Start(i) \/ Close(i) \/ Revoke(i) \/ Announce(i)

Spec == Init /\ [][Next]_vars

=============================================================================
