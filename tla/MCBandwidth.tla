---------------------------- MODULE MCBandwidth ----------------------------
(* Instances of Bandwidth for TLC, and what its documentation claims.      *)
EXTENDS Bandwidth, TLC

CONSTANTS igb0, igb1, reader

\* The interfaces are alike; used where no liveness is checked.
Symmetry == Permutations({igb0, igb1})

\* bandwidth.rs:48: a reading that went backwards is dropped, which "costs one
\* interval and can't lie": a rate claims no more than passed the interface,
\* in this property also if a row of `netstat` was cut short.
Step_CannotLie ==
    \A l \in Links : Claims(l, prev[l] # NoReading /\ prev[l].nic = prev'[l].nic)
CannotLie == [][Step_CannotLie]_vars
=============================================================================
