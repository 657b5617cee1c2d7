--------------------------- MODULE MeteredService ---------------------------
(***************************************************************************)
(* What metering promises, seen from the users: one step answers a request    *)
(* for good and adds it to the usage of the user who asked.                   *)
(*                                                                          *)
(*   served  request -> whom it was answered for, and the tokens reported     *)
(*   usage   user -> the requests and the tokens billed so far               *)
(***************************************************************************)
EXTENDS Integers, Dict

CONSTANTS Requests, Users

VARIABLES served, usage

meterVars == <<served, usage>>

(* The answer to r is whatever served' says it is. *)
Serve(r) ==
    /\ r \in DOMAIN served' \ DOMAIN served
    /\ served'[r] \in [user : Users, tokens : Nat]
    /\ served' = Put(served, r, served'[r])
    /\ usage' = [usage EXCEPT ![served'[r].user] =
                    [requests |-> @.requests + 1, tokens |-> @.tokens + served'[r].tokens]]

Init == served = Empty /\ usage = [u \in Users |-> [requests |-> 0, tokens |-> 0]]

Next == \E r \in Requests : Serve(r)

Spec == Init /\ [][Next]_meterVars
=============================================================================
