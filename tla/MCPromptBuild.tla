---------------------------- MODULE MCPromptBuild ----------------------------
(* Two sources for PromptBuild; the second has two pages of one filename.  *)
EXTENDS PromptBuild, MCKitchen

Kitchens == << Kitchen("f5"), Kitchen("f1") >>
=============================================================================
