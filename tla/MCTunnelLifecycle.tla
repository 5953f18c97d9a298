-------------------------- MODULE MCTunnelLifecycle --------------------------
(* Instances of TunnelLifecycle for TLC: channels are model values.        *)
EXTENDS TunnelLifecycle, TLC

ChannelSymmetry == Permutations(Channels)
=============================================================================
