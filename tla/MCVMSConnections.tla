-------------------------- MODULE MCVMSConnections --------------------------
(* Small instances of VMSConnections and VMSBroadcast for TLC.              *)
EXTENDS VMSBroadcast, VMSInduction

\* One group of two signs; a packet of two bytes, then one of one byte.
PairGroupId == [g \in 0 .. 0 |-> 315]
PairNumServers == [g \in 0 .. 0 |-> 2]
PairJobs == <<[group |-> 315, len |-> 2], [group |-> 315, len |-> 1]>>

\* The same with one packet only, for the temporal properties.
LiveJobs == <<[group |-> 315, len |-> 2]>>

\* Two groups with the same number, an empty one, and one no job names.  A job
\* is for a number no group has, as the code's group + 1000 may be.
ManyGroupId == [g \in 0 .. 3 |-> <<135, 315, 135, 45>>[g + 1]]
ManyNumServers == [g \in 0 .. 3 |-> <<1, 0, 1, 0>>[g + 1]]
ManyJobs == <<[group |-> 135, len |-> 1], [group |-> 1135, len |-> 1],
              [group |-> 315, len |-> 1], [group |-> 135, len |-> 2]>>

=============================================================================
