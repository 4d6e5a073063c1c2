------------------------------ MODULE MCContents ------------------------------
(* Contents on small instances. *)
EXTENDS Contents

\* Identifiers of a kind are interchangeable, as are values.
Symmetry == Permutations(Pixmaps) \cup Permutations(Gcs) \cup Permutations(Values)

\* The property shares nothing with the rest but the order of the replay: an
\* application that uses both says no more than two that use one each.
OneSubject ==
  \/ propertyCmds = <<>> /\ value = <<>>
  \/ <<pixmaps, gcs, shmSegs, windows>> = <<None(Pixmaps), None(Gcs), {}, Windows>>

\* bound: no request about a GC names two pixmaps
Named(gc) == {<<gc.drawable, gc.made.paint, gc.made.clip>>} \cup {<<set.paint, set.clip>> : set \in ToSet(gc.changes)}
OneNamed ==
  \A g \in Tracked(gcs) : \A names \in Named(gcs[g]) :
    Cardinality({i \in DOMAIN names : names[i] \in Pixmaps}) <= 1

Bound == OneSubject /\ OneNamed
=============================================================================
