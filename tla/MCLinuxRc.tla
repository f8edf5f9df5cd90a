------------------------------ MODULE MCLinuxRc -----------------------------
(* Versions 1 (before 7.4) and 2 precede the images; boards force a reset of them. *)
EXTENDS LinuxRc

MCForced == [jive |-> {}, baby |-> {2}, fab4 |-> {1}]

\* The pattern [x] matches x, not the name [x].
MCMatches == [s \in {"home", "[x]"} |-> IF s = "home" THEN {"home"} ELSE {}]
=============================================================================
