---------------------------- MODULE RequestTable ----------------------------
(***************************************************************************)
(* What request() of the app-server client promises to its caller: a       *)
(* request once made is settled once, with the answer the server gave to   *)
(* this very request, or it fails.  Requests are numbered in the order     *)
(* they are made.                                                          *)
(***************************************************************************)
EXTENDS Naturals

CONSTANTS
  Requests,  \* the requests
  Answers    \* what the server may answer

VARIABLES
  result,  \* what the caller got: "unasked", "open", an answer, or "failed"
  served   \* what the server answered, "none" if it has not

Init ==
  /\ result = [i \in Requests |-> "unasked"]
  /\ served = [i \in Requests |-> "none"]

Ask(i) ==
  /\ result[i] = "unasked"
  /\ \A j \in Requests : j < i => result[j] # "unasked"
  /\ result' = [result EXCEPT ![i] = "open"]
  /\ UNCHANGED served

\* The server may answer a request its caller has given up.
Serve(i, answer) ==
  /\ result[i] # "unasked" /\ served[i] = "none"
  /\ served' = [served EXCEPT ![i] = answer]
  /\ UNCHANGED result

Answer(i) ==
  /\ result[i] = "open" /\ served[i] # "none"
  /\ result' = [result EXCEPT ![i] = served[i]]
  /\ UNCHANGED served

\* Several requests fail at once when the process is gone.
Fail(ids) ==
  /\ \A i \in ids : result[i] = "open"
  /\ result' = [i \in Requests |-> IF i \in ids THEN "failed" ELSE result[i]]
  /\ UNCHANGED served

Next ==
  \/ \E i \in Requests : Ask(i) \/ Answer(i)
  \/ \E i \in Requests, answer \in Answers : Serve(i, answer)
  \/ \E ids \in SUBSET Requests : Fail(ids)

Spec == Init /\ [][Next]_<<result, served>>

=============================================================================
