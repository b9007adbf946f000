------------------------------- MODULE Lists -------------------------------
(***************************************************************************)
(* What the components have lists for: members are taken out, and the rest *)
(* stays in its order.                                                     *)
(***************************************************************************)
EXTENDS Naturals, Sequences

\* The list l without the members of gone. A recursive function rather than
\* SelectSeq, about which nothing can be proved.
Omit(l, gone) ==
    LET kept[n \in 0 .. Len(l)] ==
            IF n = 0 THEN <<>>
            ELSE IF l[n] \in gone THEN kept[n - 1]
            ELSE Append(kept[n - 1], l[n])
    IN kept[Len(l)]
=============================================================================
