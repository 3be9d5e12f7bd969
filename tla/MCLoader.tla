------------------------------ MODULE MCLoader ------------------------------
(***************************************************************************)
(* Loader with three modules in the image, an id that names none, and      *)
(* every way the modules may depend on at most two others.                 *)
(***************************************************************************)
EXTENDS Loader

CONSTANTS m1, m2, m3

MCImage == <<m1, m2, m3>>
MCDependencies ==
    {<<>>} \cup {<<d>> : d \in Module}
           \cup {<<d, e>> : d \in Module, e \in {m1, m2, m3}}
=============================================================================
