------------------------------ MODULE IniBuffer ------------------------------
(* The size of the buffers that minIni.c has on the stack.                   *)
EXTENDS Integers

CONSTANT INI_BUFFERSIZE

ASSUME BufferAssumption == INI_BUFFERSIZE \in Nat /\ INI_BUFFERSIZE >= 4

Least(m, n) == IF m < n THEN m ELSE n

=============================================================================
