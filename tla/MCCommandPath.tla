---------------------------- MODULE MCCommandPath ----------------------------
(* Values for the constants of CommandPath that a .cfg cannot write.       *)
EXTENDS CommandPath

Sig(pulses) == [pulses |-> pulses, truncated |-> FALSE]

(* Short, as long as the hub can hold, longer, longer than its buffer, and *)
(* a capture that was cut.                                                 *)
MCSignals == {Sig(<<1>>), Sig(<<2, 1>>), Sig(<<2, 1, 1>>), Sig(<<2, 1, 1, 1, 1, 1, 1>>),
              [pulses |-> <<2, 2>>, truncated |-> TRUE]}
=============================================================================
