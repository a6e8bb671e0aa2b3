----------------------------- MODULE MCJobQueue -----------------------------
(***************************************************************************)
(* Instances of JobQueue for TLC: a key that recovery sweeps, with two     *)
(* rows, and a key it does not look at, with one.                          *)
(***************************************************************************)
EXTENDS JobQueue, TLC

CONSTANTS document, post, j1, j2, j3, c1

\* Two rows for one key: what one enqueue leaves and what the next one inserts.
DocumentJob == {j1, j2}
DocumentKey == {document}
DocumentKeyOf == (j1 :> document) @@ (j2 :> document)
DocumentSweptKey == {document}
DocumentAsksFor == c1 :> document

Symmetry == Permutations(Worker) \cup Permutations(Job)

PostJob == {j3}
PostKey == {post}
PostKeyOf == j3 :> post
PostSweptKey == {}
PostAsksFor == c1 :> post
=============================================================================
