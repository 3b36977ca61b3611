--------------------------- MODULE MCSceneControl ---------------------------
(* Two sources, two scenes, one filter; a named item and unnamed ones.     *)
(* Sources and scenes are interchangeable: no operation compares or orders *)
(* their ids.                                                              *)
EXTENDS SceneControl, TLC

Symmetry == Permutations(Source) \cup Permutations(Scene)
=============================================================================
