----------------------------- MODULE MCBSStore -----------------------------
(* Instances of BSStore for TLC: two parameters beside the partner id, two  *)
(* partners and two firmware images.                                       *)
EXTENDS BSStore, TLC

Row(x, y) == [k \in Keys |->
                IF k = "k1" THEN x ELSE IF k = "k2" THEN y ELSE None]

\* Image f1 has no default for k2 except for partner p2; image f2 has one for
\* every partner, and other values.
MCGeneric ==
  [f \in {"f1", "f2"} |->
     IF f = "f1"
     THEN "default_boot" :> Row("a", None) @@ "default" :> Row("a", None)
            @@ "p2" :> Row("b", "a")
     ELSE "default_boot" :> Row("b", None) @@ "default" :> Row("b", "a")
            @@ "p2" :> Row("b", None)]

\* An image whose defaults only know the two partners: until AuthService has
\* written the partner id, nothing can be loaded and init fails.
MCGenericKnown ==
  [f \in {"f1", "f2"} |-> "p1" :> Row("a", None) @@ "p2" :> Row("b", "a")]

\* Image f2 has a device file that replaces one default and adds another.
MCDevice ==
  [f \in {"f1", "f2"} |->
     IF f = "f1" THEN <<>> ELSE "p2" :> Row("a", "b")]

AllPoints == PCs
\* Points at which neither file is being rewritten and no store write waits
\* for its journal record.
BetweenRewrites == {"idle", "load", "loop"}
============================================================================
