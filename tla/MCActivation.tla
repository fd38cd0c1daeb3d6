---------------------------- MODULE MCActivation ----------------------------
(* The small instances of Activation that TLC checks. *)
EXTENDS Activation

\* Activation: files with models that are offered and that are not, and the arguments.
FileOf(e, a, s, o, c) ==
    [executor |-> e, advisor |-> a, setting |-> s, alwaysOn |-> o, consent |-> c]
MCFiles ==
    {FileOf(NoModel, NoModel, "default", FALSE, FALSE), FileOf("m1", "m2", "custom", FALSE, TRUE),
     FileOf("m3", "m2", "custom", TRUE, FALSE)}
Args(e, a, s) == [executor |-> e, advisor |-> a, setting |-> s]
MCArgs ==
    {Args(NoModel, NoModel, "none"), Args("m2", "m1", "custom"), Args("m3", NoModel, "none"),
     Args("m1", NoModel, "invalid")}
=============================================================================
