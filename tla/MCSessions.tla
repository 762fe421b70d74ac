----------------------------- MODULE MCSessions -----------------------------
(***************************************************************************)
(* Instances of Sessions for TLC: a client that reconnects to the instance *)
(* it was on, asking for one more room.                                    *)
(***************************************************************************)
EXTENDS Sessions, TLC

CONSTANTS c1, c2, alice, i1, r1, r2

OneClient == [c \in Conns |-> alice]
OneInstance == [c \in Conns |-> i1]
Subscriptions == (c1 :> {r1}) @@ (c2 :> {r1, r2})
AllKeys == {alice} \X {i1, NoInstance}
=============================================================================
