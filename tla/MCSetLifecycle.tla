---------------------------- MODULE MCSetLifecycle ----------------------------
(* SetLifecycle for TLC: small heaps, and the set that ships with the      *)
(* server - one scene, each of its clips with a video of its own.          *)
EXTENDS SetLifecycle

MCVisualIds == 1 .. 2
MCSceneIds == 11 .. 12
MCClipIds == 21 .. 22
MCLayer == {0}
MCColumn == 0 .. 1
MCFirstFile ==
    [visuals |-> <<"a">>,
     scenes |-> << <<[index |-> 0, cell |-> <<0, 0>>, visual |-> "a"]>> >>]

(* A host that does anything but save, and one that saves and opens sets of *)
(* two files: what is lost on the way does not depend on the other calls.   *)
Player == [calls |-> {"scenes", "empty", "parts", "show"}, files |-> {"a"}]
Editor == [calls |-> {"save"}, files |-> {"a", "b"}]
MCHosts == {Player, Editor}
Editors == {Editor}
Players == {Player}
=============================================================================
