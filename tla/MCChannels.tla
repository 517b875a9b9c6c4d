----------------------------- MODULE MCChannels -----------------------------
(* Model values for Channels.                                              *)
EXTENDS Channels

(* More output than the window of the client holds.                        *)
MCVolume == [in |-> 1, out |-> 3, err |-> 1]
=============================================================================
