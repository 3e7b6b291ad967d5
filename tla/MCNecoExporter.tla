--------------------------- MODULE MCNecoExporter ---------------------------
(* An instance of NecoExporter for TLC. *)
EXTENDS NecoExporter

CONSTANTS i1, i2, a, b, s1

AllNames ==
    {<<"identity_count", <<ns>>>> : ns \in Namespaces}
      \cup {<<"identity_info", <<i, ns>>>> : i \in Identities, ns \in Namespaces}
      \cup {<<"expiration", <<s>>>> : s \in Secrets}
      \cup {<<"fence", <<>>>>}

\* The second identity is always readable and in a; the first may move to b, and
\* have labels that cannot be read where the other is.
ManyShapes == [i \in Identities |->
    IF i = i1 THEN Identity \ {[labels |-> "bad", ns |-> b]}
              ELSE {[labels |-> "ok", ns |-> a]}]

AllValues == 0..2
=============================================================================
