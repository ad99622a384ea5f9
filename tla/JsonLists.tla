------------------------------ MODULE JsonLists ------------------------------
(***************************************************************************)
(* What the functions of cJSON.c that build and change a tree promise: an   *)
(* array or object has a sequence of items, an item is in one sequence or   *)
(* in the hands of the caller, and deleting it takes what is below it.      *)
(***************************************************************************)
EXTENDS Integers, SequencesExt, FiniteSetsExt

CONSTANT Nodes

VARIABLES
  items, \* the sequence of each item, empty for what has none
  live,  \* the items there are
  roots  \* those that the caller owns

\* The least set with n and the items of all that is in it.
Below(n, its) ==
  LET closed == {S \in SUBSET Nodes : n \in S /\ \A m \in S : Range(its[m]) \subseteq S}
  IN {m \in Nodes : \A S \in closed : m \in S}

\* The sequence of array becomes list.
With(array, list) == [items EXCEPT ![array] = list]

\* its are the sequences now, without what is below n, which is deleted.
DeletedFrom(n, its) ==
  LET gone == Below(n, its)
  IN live' = live \ gone /\ items' = [m \in Nodes |-> IF m \in gone THEN << >> ELSE its[m]]

Init == items = [n \in Nodes |-> << >>] /\ live = {} /\ roots = {}

\* An item the caller owns, or a new one, goes to a place in a sequence.
Insert ==
  \E n \in roots \cup (Nodes \ live) :
    /\ roots' = roots \ {n} /\ live' = live \cup {n}
    /\ \E array \in live \ Below(n, items) : \E k \in 1 .. Len(items[array]) + 1 :
         items' = With(array, InsertAt(items[array], k, n))

Detach ==
  \E array \in live : \E k \in DOMAIN items[array] :
    /\ roots' = roots \cup {items[array][k]} /\ live' = live
    /\ items' = With(array, RemoveAt(items[array], k))

DeleteItem ==
  /\ roots' = roots
  /\ \E array \in live : \E k \in DOMAIN items[array] :
       DeletedFrom(items[array][k], With(array, RemoveAt(items[array], k)))

Replace ==
  \E n \in roots :
    /\ roots' = roots \ {n}
    /\ \E array \in live \ Below(n, items) : \E k \in DOMAIN items[array] :
         DeletedFrom(items[array][k], With(array, ReplaceAt(items[array], k, n)))

Delete ==
  \E n \in roots :
    /\ roots' = roots \ {n}
    /\ DeletedFrom(n, items)

\* A new tree, of items that were not in use.
Create ==
  \E n \in Nodes \ live :
    /\ roots' = roots \cup {n}
    /\ live' = live \cup Below(n, items') /\ Below(n, items') \cap live = {}
    /\ \A m \in live : items'[m] = items[m]

Next == Insert \/ Detach \/ DeleteItem \/ Replace \/ Delete \/ Create

Spec == Init /\ [][Next]_<<items, live, roots>>

=============================================================================
