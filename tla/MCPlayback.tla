------------------------------ MODULE MCPlayback ------------------------------
(* Scenes for the runs of Playback.                                        *)
EXTENDS Playback

\* One layer: a plain clip and a snapped one, in columns 0 and 1.
OneLayer == {<<0, 0>>, <<0, 1>>}
Second == {<<0, 1>>}

\* Two layers: a good clip and one that cannot be opened on the first, a
\* video and a snapped camera on the second.
TwoLayers == {<<0, 0>>, <<0, 1>>, <<1, 0>>, <<1, 1>>}
Unopenable == {<<0, 1>>}
Webcam == {<<1, 1>>}

\* A layer whose only clip cannot be opened, in front of a layer with a good one.
Blocked == {<<0, 0>>, <<1, 0>>}
Front == {<<0, 0>>}

Nothing == {}
=============================================================================
