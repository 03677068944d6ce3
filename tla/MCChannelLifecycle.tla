------------------------- MODULE MCChannelLifecycle -------------------------
(* ChannelLifecycle alone, for the run without the reconciler.               *)
EXTENDS ChannelLifecycle

CONSTANTS e1, e2, i1, i2, i3

TwoEvents == {e1, e2}
ThreeIds  == {i1, i2, i3}
=============================================================================
