------------------------------ MODULE MCMirror ------------------------------
(* Two objects, and limits of one and of two hides.                           *)
EXTENDS Mirror

MCLimits == {[percent |-> 50, min |-> 1], [percent |-> 100, min |-> 1]}
=============================================================================
