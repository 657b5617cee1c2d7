------------------------------ MODULE Throttle ------------------------------
(***************************************************************************)
(* What a rate limiter promises, without buckets that remember when they      *)
(* were last touched: every key holds a credit that grows with each tick of   *)
(* the clock, up to its limit, and asking has no effect on it.               *)
(*                                                                          *)
(*   credit  key -> its limit per minute and the units it may spend now       *)
(***************************************************************************)
EXTENDS Integers, Dict

CONSTANTS
    Keys,
    Limits,   \* the limits a key may be given when it is first seen
    Counts,   \* the amounts asked for
    Minute    \* units in a token, and ticks in a minute

VARIABLE credit

Fresh(limit) == [capacity |-> limit, units |-> limit * Minute]

CreditOf(k, limit) == IF k \in DOMAIN credit THEN credit[k] ELSE Fresh(limit)

Spend(k, count, limit) ==
    LET c == CreditOf(k, limit) IN
    /\ c.units >= count * Minute
    /\ credit' = Put(credit, k, [c EXCEPT !.units = @ - count * Minute])

(* A refusal is due only to missing credit, and costs nothing. *)
Refuse(k, count, limit) ==
    LET c == CreditOf(k, limit) IN
    /\ c.units < count * Minute
    /\ credit' = Put(credit, k, c)

Forget(k) == credit' = Drop(credit, k)

Grown(c) ==
    LET more == c.units + c.capacity
    IN  [c EXCEPT !.units = IF more > c.capacity * Minute THEN c.capacity * Minute ELSE more]

Accrue == credit' = [k \in DOMAIN credit |-> Grown(credit[k])]

Init == credit = Empty

Next ==
    \/ \E k \in Keys, count \in Counts, limit \in Limits :
          Spend(k, count, limit) \/ Refuse(k, count, limit)
    \/ \E k \in Keys : Forget(k)
    \/ Accrue

Spec == Init /\ [][Next]_credit
=============================================================================
