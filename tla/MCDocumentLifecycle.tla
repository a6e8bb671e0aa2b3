------------------------ MODULE MCDocumentLifecycle ------------------------
(***************************************************************************)
(* An instance of DocumentLifecycle for TLC: one document, two rows for    *)
(* its processing job and one for its posting job; a client that uploads   *)
(* and retries, and one that approves.                                     *)
(***************************************************************************)
EXTENDS DocumentLifecycle, TLC

CONSTANTS d1, p1, p2, q1, up, ap

MCKey == {ProcessKey(d1), PostKey(d1)}
MCSweptKey == {ProcessKey(d1)}
MCJob == {p1, p2, q1}
MCKeyOf == (p1 :> ProcessKey(d1)) @@ (p2 :> ProcessKey(d1)) @@ (q1 :> PostKey(d1))
MCAsksFor == (up :> ProcessKey(d1)) @@ (ap :> PostKey(d1))
=============================================================================
