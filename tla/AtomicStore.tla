----------------------------- MODULE AtomicStore -----------------------------
(***************************************************************************)
(* What programs that share an INI file may count on: it holds one value    *)
(* per key, a call of ini_puts changes one of them at one moment, and a     *)
(* call of ini_gets returns the value of its key at one moment of the call. *)
(***************************************************************************)
CONSTANTS Keys, Values, Absent, Readers

VARIABLES
  settings, \* the value of each key
  asked,    \* the key each reader is reading, Absent between calls
  kept,     \* a value that was current in the call and was replaced since
  got       \* what the last call returned

Init ==
  /\ settings \in [Keys -> Values \cup {Absent}]
  /\ asked = [r \in Readers |-> Absent]
  /\ kept = [r \in Readers |-> {}]
  /\ got = [r \in Readers |-> Absent]

\* Readers that are in a call may still return what is replaced.
Put ==
  \E key \in Keys, value \in Values \cup {Absent} :
    /\ settings' = [settings EXCEPT ![key] = value]
    /\ \E S \in SUBSET {r \in Readers : asked[r] # Absent /\ kept[r] = {}} :
         kept' = [r \in Readers |->
                    IF r \in S THEN {settings[asked[r]]} ELSE kept[r]]
    /\ UNCHANGED <<asked, got>>

Call(r) ==
  /\ asked[r] = Absent
  /\ \E key \in Keys : asked' = [asked EXCEPT ![r] = key]
  /\ UNCHANGED <<settings, kept, got>>

Return(r) ==
  /\ asked[r] # Absent
  /\ \E value \in (IF kept[r] = {} THEN {settings[asked[r]]} ELSE kept[r]) :
       got' = [got EXCEPT ![r] = value]
  /\ asked' = [asked EXCEPT ![r] = Absent]
  /\ kept' = [kept EXCEPT ![r] = {}]
  /\ UNCHANGED settings

\* A call that returns before anything else happens.
Lookup(r) ==
  /\ asked[r] = Absent
  /\ \E key \in Keys : got' = [got EXCEPT ![r] = settings[key]]
  /\ UNCHANGED <<settings, asked, kept>>

Next == Put \/ \E r \in Readers : Call(r) \/ Return(r) \/ Lookup(r)

Spec == Init /\ [][Next]_<<settings, asked, kept, got>>

=============================================================================
