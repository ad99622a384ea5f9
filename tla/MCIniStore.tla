----------------------------- MODULE MCIniStore ------------------------------
EXTENDS IniStore

ValueWidth == [x |-> 1, y |-> 1, xx |-> 2]

Put(k, value) == [key |-> k, value |-> value]
\* Rewritten, overwritten in place, erased.
OneWriter ==
  [w \in Writers |-> <<Put(1, "xx"), Put(2, "y"), Put(1, Absent)>>]
TwoWriters ==
  [w \in Writers |-> IF w = "A" THEN <<Put(1, "xx")>> ELSE <<Put(2, "xx")>>]

=============================================================================
