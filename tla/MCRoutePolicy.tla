---------------------------- MODULE MCRoutePolicy -----------------------------
(***************************************************************************)
(* Small instances of RoutePolicy.  Route rx has a policy from the         *)
(* migrations, ry has none yet, rz is not registered.  An expression       *)
(* compiles with the references it names: e1 with r1, e2 with r2, e0 with  *)
(* any.  padded is r1 with blanks around its key.                          *)
(***************************************************************************)
EXTENDS RoutePolicy, TLC

CONSTANTS p1, p2, w1, w2, rx, ry, rz, e0, e1, e2, r0, r1, r2, padded

MCHome == (w1 :> p1) @@ (w2 :> p2)

MCTrimmed == [r \in {r0, r1, r2, padded} |-> IF r = padded THEN r1 ELSE r]
MCCompiles == {<<e1, r1>>, <<e2, r2>>} \cup ({e0} \X {r0, r1, r2, padded})

MCSeed ==
    [u \in Route |->
        IF u = rx THEN [ver |-> 1, expr |-> e1, refs |-> r1, active |-> TRUE, at |-> 0]
        ELSE None]

In(route, expr, refs, active, expected) ==
    [route |-> route, expr |-> expr, refs |-> refs, active |-> active, expected |-> expected]

\* Updates of rx that change what the expression refers to, the first policy of
\* ry, a policy for a route that is not there, one that does not compile,
\* and one that only compiles trimmed.
SafetyInputs ==
    {In(rx, e0, r0, TRUE, 1), In(rx, e0, r0, FALSE, 1), In(rx, e1, r1, TRUE, 2),
     In(ry, e0, r0, TRUE, 0), In(rz, e0, r0, TRUE, 0), In(rx, e1, r2, TRUE, 1),
     In(rx, e1, padded, TRUE, 1)}

\* Two rounds of updates of rx that change what the expression refers to.
ConvergeInputs ==
    {In(rx, e2, r2, TRUE, 1), In(rx, e0, r0, FALSE, 1), In(rx, e1, r1, TRUE, 2)}
===============================================================================
