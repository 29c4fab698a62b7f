---- MODULE MCScreenWatch ----
(* A loading screen whose percentage is read or not, which moves the tracker's
   key, and an announcement with a network dialog over it.  (An unknown stage
   is what the observation begins with.) *)
EXTENDS ScreenWatch

Shows(stage_, percent_, dialog_) == [stage |-> stage_, percent |-> percent_, dialog |-> dialog_]

FewScreens == {Shows("notice", None, TRUE), Shows("loading", 1, FALSE)}

\* The default, without a model, without a required confirmation, and also
\* without looking at the screen.
FewSettings ==
  {<<TRUE, TRUE, TRUE>>, <<TRUE, FALSE, TRUE>>, <<FALSE, TRUE, TRUE>>, <<FALSE, TRUE, FALSE>>}
====
