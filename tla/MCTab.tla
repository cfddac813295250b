-------------------------------- MODULE MCTab --------------------------------
(* A log-in form of two boxes, and a form that asks for a new password.    *)
EXTENDS Tab
CONSTANTS u1, p1, n2
MCBoxes == {u1, p1, n2}
MCKind == [b \in MCBoxes |-> CASE b = u1 -> "user" [] b = p1 -> "pass" [] OTHER -> "new"]
MCForm == [b \in MCBoxes |-> IF b = n2 THEN 2 ELSE 1]
MCLayouts == {<<u1, p1, n2>>, <<p1, n2>>, <<n2>>}
==============================================================================
