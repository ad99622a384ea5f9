------------------------------ MODULE JsonTree -------------------------------
(***************************************************************************)
(* The trees of cJSON.c in memory: items linked by next, prev and child,    *)
(* the prev of a first item pointing to the last, references that share the *)
(* items of another, and the key of an item, which it owns unless it is     *)
(* constant.  The caller makes legal calls only: it adds an item it owns,   *)
(* not below itself, and to no reference; any allocation may fail.  What an *)
(* item holds besides (type, numbers, strings) is left out.                 *)
(***************************************************************************)
EXTENDS Integers, SequencesExt, FiniteSetsExt

CONSTANTS
  Nodes,  \* addresses that items may have
  Names,  \* keys
  Fold,   \* what case_insensitive_strcmp takes a key for
  NULL,
  CJSON_CIRCULAR_LIMIT

ASSUME NodesAssumption == IsFiniteSet(Nodes) /\ Nodes \subseteq Nat \ {0}
ASSUME FoldAssumption == Fold \in [Names -> Names] /\ NULL \notin Names
ASSUME LimitAssumption == CJSON_CIRCULAR_LIMIT \in Nat

VARIABLES
  heap,  \* the items and their links
  roots, \* the items that the caller owns
  lost   \* items that nobody owns any more

vars == <<heap, roots, lost>>

Heap ==
  [next : [Nodes -> Nodes \cup {0}], prev : [Nodes -> Nodes \cup {0}],
   child : [Nodes -> Nodes \cup {0}], string : [Nodes -> Names \cup {NULL}],
   reference : SUBSET Nodes, \* cJSON_IsReference
   const : SUBSET Nodes,     \* cJSON_StringIsConst
   live : SUBSET Nodes,      \* allocated items
   strings : Nat]            \* allocated keys

\* The items from first on; one more than there can be when they are a circle.
Onward(h, from) == [n \in Nodes \cup {0} |-> IF n = 0 THEN << >> ELSE <<n>> \o from[h.next[n]]]
Chain(h, first) ==
  LET from[k \in 0 .. Cardinality(Nodes) + 1] ==
        IF k = 0 THEN [n \in Nodes \cup {0} |-> << >>] ELSE Onward(h, from[k - 1])
  IN from[Cardinality(Nodes) + 1][first]
Items(h, array) == Chain(h, h.child[array])

Containers(h) == h.live \ h.reference

-----------------------------------------------------------------------------
(* The helpers: what a call makes of the heap. *)

HasMemory(h) == h.live # Nodes
NewAddress(h) == Min(Nodes \ h.live)
cJSON_New_Item(h) == [h EXCEPT !.live = @ \cup {NewAddress(h)}]

suffix_object(h, prev, item) ==
  [h EXCEPT !.next[prev] = item, !.prev[item] = prev]

\* Mutant: the first item's prev is not moved to the new last item.
add_item_to_arrayStale(h, array, item) ==
  LET child == h.child[array]
  IN IF child = 0
     THEN [h EXCEPT !.child[array] = item, !.prev[item] = item,
                    !.next[item] = 0]
     ELSE IF h.prev[child] = 0 THEN h
     ELSE suffix_object(h, h.prev[child], item)

add_item_to_array(h, array, item) ==
  LET child == h.child[array]
  IN IF child = 0
     THEN [h EXCEPT !.child[array] = item, !.prev[item] = item,
                    !.next[item] = 0]
     ELSE IF h.prev[child] = 0 THEN h
     ELSE [suffix_object(h, h.prev[child], item) EXCEPT !.prev[child] = item]

OwnsKey(h, item) == item \notin h.const /\ h.string[item] # NULL

\* Mutant: a key that the item does not own is freed.
ReleasedAlways(h, item) == h.strings - (IF h.string[item] # NULL THEN 1 ELSE 0)

Released(h, item) == h.strings - (IF OwnsKey(h, item) THEN 1 ELSE 0)

\* Mutant: the key an item had is not freed.
KeyedKeeps(h, item, name, constant) ==
  [h EXCEPT !.strings = @ + (IF constant THEN 0 ELSE 1),
            !.string[item] = name,
            !.const = IF constant THEN @ \cup {item} ELSE @ \ {item}]

\* An item is given its key; the one it owned is freed.
Keyed(h, item, name, constant) ==
  [h EXCEPT !.strings = Released(h, item) + (IF constant THEN 0 ELSE 1),
            !.string[item] = name,
            !.const = IF constant THEN @ \cup {item} ELSE @ \ {item}]

add_item_to_object(h, object, name, item, constant) ==
  add_item_to_array(Keyed(h, item, name, constant), object, item)

create_reference(h, item) ==
  LET n == NewAddress(h)
  IN [cJSON_New_Item(h) EXCEPT
        !.child[n] = h.child[item],
        !.reference = @ \cup {n},
        !.const = IF item \in @ THEN @ \cup {n} ELSE @]

\* Mutant: the last item is taken out and the first still points to it.
cJSON_DetachItemViaPointerStale(h, parent, item) ==
  LET before == h.prev[item]
      after  == h.next[item]
      first  == h.child[parent] = item
      h1 == IF first THEN h ELSE [h EXCEPT !.next[before] = after]
      h2 == IF after = 0 THEN h1 ELSE [h1 EXCEPT !.prev[after] = before]
      h3 == IF first THEN [h2 EXCEPT !.child[parent] = after] ELSE h2
  IN [h3 EXCEPT !.prev[item] = 0, !.next[item] = 0]

cJSON_DetachItemViaPointer(h, parent, item) ==
  LET before == h.prev[item]
      after  == h.next[item]
      first  == h.child[parent] = item
      h1 == IF first THEN h ELSE [h EXCEPT !.next[before] = after]
      h2 == IF after = 0 THEN h1 ELSE [h1 EXCEPT !.prev[after] = before]
      h3 == IF first THEN [h2 EXCEPT !.child[parent] = after]
            ELSE IF after = 0 THEN [h2 EXCEPT !.prev[h2.child[parent]] = before]
            ELSE h2
  IN [h3 EXCEPT !.prev[item] = 0, !.next[item] = 0]

\* The least set with n and all that goes has for an item of it.
Reached(S, goes) == UNION {{m} \cup goes[m] : m \in S}
Closure(n, goes) ==
  LET after[k \in 0 .. Cardinality(Nodes)] ==
        IF k = 0 THEN {n} ELSE Reached(after[k - 1], goes)
  IN after[Cardinality(Nodes)]

\* Mutant: the items of a reference are freed with it.
DeletedAll(h, item) == Closure(item, [n \in Nodes |-> {h.next[n], h.child[n]} \ {0}])

\* What cJSON_Delete frees: the list from item on and all below it, but
\* nothing below a reference.
Deleted(h, item) ==
  Closure(item, [n \in Nodes |->
                  {h.next[n], IF n \in h.reference THEN 0 ELSE h.child[n]} \ {0}])

cJSON_Delete(h, item) ==
  LET gone == Deleted(h, item)
      cleared(f) == [n \in Nodes |-> IF n \in gone THEN 0 ELSE f[n]]
  IN [next |-> cleared(h.next), prev |-> cleared(h.prev),
      child |-> cleared(h.child),
      string |-> [n \in Nodes |-> IF n \in gone THEN NULL ELSE h.string[n]],
      reference |-> h.reference \ gone, const |-> h.const \ gone,
      live |-> h.live \ gone,
      strings |-> h.strings - Cardinality({n \in gone : OwnsKey(h, n)})]

Inserted(h, array, after, item) ==
  LET before == h.prev[after]
      h1 == [h EXCEPT !.next[item] = after, !.prev[item] = before,
                      !.prev[after] = item]
  IN IF after = h.child[array] THEN [h1 EXCEPT !.child[array] = item]
     ELSE [h1 EXCEPT !.next[before] = item]

\* The replacement takes the place of the item.
Replaced(h, parent, item, replacement) ==
  LET before == h.prev[item]
      after  == h.next[item]
      h1 == [h EXCEPT !.next[replacement] = after, !.prev[replacement] = before]
      h2 == IF after = 0 THEN h1 ELSE [h1 EXCEPT !.prev[after] = replacement]
      h3 == IF h.child[parent] = item
            THEN [h2 EXCEPT !.child[parent] = replacement,
                            !.prev[replacement] =
                              IF h2.prev[item] = item THEN replacement ELSE @]
            ELSE LET h4 == [h2 EXCEPT !.next[before] = replacement]
                 IN IF after = 0
                    THEN [h4 EXCEPT !.prev[h4.child[parent]] = replacement]
                    ELSE h4
  IN [h3 EXCEPT !.next[item] = 0, !.prev[item] = 0]

cJSON_ReplaceItemViaPointer(h, parent, item, replacement) ==
  cJSON_Delete(Replaced(h, parent, item, replacement), item)

-----------------------------------------------------------------------------
(* Looking up. *)

\* get_array_item and get_object_item: the first item that fits, 0 for none.
get_array_item(h, array, index) ==
  IF index < Len(Items(h, array)) THEN Items(h, array)[index + 1] ELSE 0

SameKey(m, n, case_sensitive) ==
  IF case_sensitive THEN m = n ELSE n # NULL /\ Fold[m] = Fold[n]
get_object_item(h, object, name, case_sensitive) ==
  LET list == Items(h, object)
      fits(n) == \/ case_sensitive /\ h.string[list[n]] = NULL
                 \/ SameKey(name, h.string[list[n]], case_sensitive)
      found == {n \in DOMAIN list : fits(n)}
  IN IF found = {} THEN 0
     ELSE IF h.string[list[Min(found)]] = NULL THEN 0 ELSE list[Min(found)]

-----------------------------------------------------------------------------
Init ==
  /\ heap = [next |-> [n \in Nodes |-> 0], prev |-> [n \in Nodes |-> 0],
             child |-> [n \in Nodes |-> 0],
             string |-> [n \in Nodes |-> NULL],
             reference |-> {}, const |-> {}, live |-> {}, strings |-> 0]
  /\ roots = {} /\ lost = {}

\* An item that may be added below array.
MayAdd(array, item) ==
  item \in roots /\ array \notin Deleted(heap, item)

Create ==
  /\ HasMemory(heap)
  /\ heap' = cJSON_New_Item(heap)
  /\ roots' = roots \cup {NewAddress(heap)}
  /\ lost' = lost

\* A reference to the items from first on, such as those of another array.
CreateReference ==
  \E first \in heap.live :
    /\ HasMemory(heap)
    /\ heap' = [cJSON_New_Item(heap) EXCEPT
                  !.child[NewAddress(heap)] = first,
                  !.reference = @ \cup {NewAddress(heap)}]
    /\ roots' = roots \cup {NewAddress(heap)}
    /\ lost' = lost

AddItemToArray ==
  \E array \in Containers(heap), item \in roots :
    /\ MayAdd(array, item)
    /\ heap' = add_item_to_array(heap, array, item)
    /\ roots' = roots \ {item}
    /\ lost' = lost

AddItemToObject ==
  \E object \in Containers(heap), item \in roots, name \in Names,
     constant \in BOOLEAN :
    /\ MayAdd(object, item)
    /\ heap' = add_item_to_object(heap, object, name, item, constant)
    /\ roots' = roots \ {item}
    /\ lost' = lost

AddItemReferenceToArray ==
  \E array \in Containers(heap), item \in heap.live :
    /\ HasMemory(heap)
    /\ heap' = add_item_to_array(create_reference(heap, item), array,
                                 NewAddress(heap))
    /\ UNCHANGED <<roots, lost>>

\* When there is no memory for the key, the reference is lost.
AddItemReferenceToObject ==
  \E object \in Containers(heap), item \in heap.live, name \in Names :
    /\ HasMemory(heap)
    /\ \/ /\ heap' = add_item_to_object(create_reference(heap, item), object,
                                        name, NewAddress(heap), FALSE)
          /\ lost' = lost
       \/ /\ heap' = create_reference(heap, item)
          /\ lost' = lost \cup {NewAddress(heap)}
    /\ UNCHANGED roots

\* cJSON_AddNullToObject and its like; what cannot be added is deleted.
AddNewToObject ==
  \E object \in Containers(heap), name \in Names :
    /\ HasMemory(heap)
    /\ heap' = add_item_to_object(cJSON_New_Item(heap), object, name,
                                  NewAddress(heap), FALSE)
    /\ UNCHANGED <<roots, lost>>

DetachItem ==
  \E parent \in Containers(heap) : \E item \in Range(Items(heap, parent)) :
    /\ heap' = cJSON_DetachItemViaPointer(heap, parent, item)
    /\ roots' = roots \cup {item}
    /\ lost' = lost

DetachItemFromObject ==
  \E object \in Containers(heap), name \in Names, case_sensitive \in BOOLEAN :
    LET item == get_object_item(heap, object, name, case_sensitive)
    IN /\ item # 0
       /\ heap' = cJSON_DetachItemViaPointer(heap, object, item)
       /\ roots' = roots \cup {item}
       /\ lost' = lost

DeleteItemFromArray ==
  \E array \in Containers(heap), which \in 0 .. Cardinality(Nodes) - 1 :
    LET item == get_array_item(heap, array, which)
    IN /\ item # 0
       /\ heap' = cJSON_Delete(cJSON_DetachItemViaPointer(heap, array, item),
                               item)
       /\ UNCHANGED <<roots, lost>>

InsertItemInArray ==
  \E array \in Containers(heap), item \in roots,
     which \in 0 .. Cardinality(Nodes) - 1 :
    LET after == get_array_item(heap, array, which)
    IN /\ MayAdd(array, item)
       /\ heap' = IF after = 0 THEN add_item_to_array(heap, array, item)
                  ELSE Inserted(heap, array, after, item)
       /\ roots' = roots \ {item}
       /\ lost' = lost

ReplaceItem ==
  \E parent \in Containers(heap), replacement \in roots :
    \E item \in Range(Items(heap, parent)) :
      /\ MayAdd(parent, replacement)
      /\ heap' = cJSON_ReplaceItemViaPointer(heap, parent, item, replacement)
      /\ roots' = roots \ {replacement}
      /\ lost' = lost

\* The replacement is given the key first, also when there is nothing to
\* replace; when there is no memory for the key it has none.
ReplaceItemInObject ==
  \E object \in Containers(heap), replacement \in roots, name \in Names,
     case_sensitive \in BOOLEAN :
    LET keyed == Keyed(heap, replacement, name, FALSE)
        item  == get_object_item(keyed, object, name, case_sensitive)
    IN /\ MayAdd(object, replacement)
       /\ \/ /\ heap' = [heap EXCEPT !.strings = Released(heap, replacement),
                                     !.string[replacement] = NULL]
             /\ roots' = roots
          \/ /\ item = 0
             /\ heap' = keyed
             /\ roots' = roots
          \/ /\ item # 0
             /\ heap' = cJSON_ReplaceItemViaPointer(keyed, object, item,
                                                    replacement)
             /\ roots' = roots \ {replacement}
       /\ lost' = lost

Delete ==
  \E item \in roots :
    /\ heap' = cJSON_Delete(heap, item)
    /\ roots' = roots \ {item}
    /\ lost' = lost

\* cJSON_CreateIntArray and its like: the items are linked as they are made.
Linked(h, array, list) ==
  LET last == Len(list)
  IN [h EXCEPT
        !.live = @ \cup {array} \cup Range(list),
        !.child[array] = IF last = 0 THEN 0 ELSE list[1],
        !.next = [n \in Nodes |->
                    IF \E k \in 1 .. last - 1 : list[k] = n
                    THEN list[1 + CHOOSE k \in 1 .. last : list[k] = n] ELSE @[n]],
        !.prev = [n \in Nodes |->
                    IF \E k \in 1 .. last : list[k] = n
                    THEN LET k == CHOOSE k \in 1 .. last : list[k] = n
                         IN list[IF k = 1 THEN last ELSE k - 1] ELSE @[n]]]

CreateArrayOf ==
  \E count \in 0 .. Cardinality(Nodes \ heap.live) - 1 :
    LET taken == CHOOSE S \in SUBSET (Nodes \ heap.live) : Cardinality(S) = count + 1
    IN /\ heap' = Linked(heap, Min(taken), SetToSeq(taken \ {Min(taken)}))
       /\ roots' = roots \cup {Min(taken)}
       /\ lost' = lost

-----------------------------------------------------------------------------
(* cJSON_Duplicate: an item for each way down from the original, through     *)
(* references too; past CJSON_CIRCULAR_LIMIT, or out of memory, nothing is   *)
(* left of the copy.                                                         *)

Further(S) ==
  UNION {{Append(way, n) : n \in Range(Items(heap, Last(way)))} : way \in S}
Ways(S, depth) ==
  LET level[k \in 0 .. depth] == IF k = 0 THEN S ELSE Further(level[k - 1])
  IN UNION {level[k] : k \in 0 .. depth}

\* The copies of the items of the sequence that the original of a way is in.
Copies(f, way) ==
  IF Len(way) = 1 THEN << >>
  ELSE LET list == Items(heap, way[Len(way) - 1])
       IN [k \in DOMAIN list |-> f[Append(Front(way), list[k])]]
PlaceOf(f, way) == CHOOSE k \in DOMAIN Copies(f, way) : Copies(f, way)[k] = f[way]

\* f gives each way the address of its copy.
Copied(f, recurse) ==
  LET ways == DOMAIN f
      new  == {f[way] : way \in ways}
      of(n) == CHOOSE way \in ways : f[way] = n
      original(n) == Last(of(n))
      after(n) ==
        LET list == Copies(f, of(n))
        IN IF list = << >> \/ Last(list) = n THEN 0
           ELSE list[PlaceOf(f, of(n)) + 1]
      before(n) ==
        LET list == Copies(f, of(n))
        IN IF list = << >> THEN 0
           ELSE IF list[1] = n THEN Last(list) ELSE list[PlaceOf(f, of(n)) - 1]
      below(n) ==
        IF recurse /\ heap.child[original(n)] # 0
        THEN f[Append(of(n), heap.child[original(n)])] ELSE 0
  IN [next |-> [n \in Nodes |-> IF n \in new THEN after(n) ELSE heap.next[n]],
      prev |-> [n \in Nodes |-> IF n \in new THEN before(n) ELSE heap.prev[n]],
      child |-> [n \in Nodes |-> IF n \in new THEN below(n) ELSE heap.child[n]],
      string |-> [n \in Nodes |->
        IF n \in new THEN heap.string[original(n)] ELSE heap.string[n]],
      reference |-> heap.reference,
      const |-> heap.const \cup {n \in new : original(n) \in heap.const},
      live |-> heap.live \cup new,
      strings |-> heap.strings
        + Cardinality({n \in new : OwnsKey(heap, original(n))})]

\* The caller duplicates nothing that refers to what it deleted.
Duplicate ==
  \E item \in heap.live, recurse \in BOOLEAN :
    LET ways == IF recurse THEN Ways({<<item>>}, CJSON_CIRCULAR_LIMIT)
                ELSE {<<item>>}
        free == Nodes \ heap.live
        addresses == {f \in [ways -> free] : IsInjective(f)}
    IN /\ \A way \in ways : Last(way) \in heap.live
       /\ Cardinality(ways) <= Cardinality(free)
       /\ recurse => \A way \in ways :
            Len(way) > CJSON_CIRCULAR_LIMIT => heap.child[Last(way)] = 0
       /\ LET f == CHOOSE f \in addresses : TRUE
          IN /\ heap' = Copied(f, recurse)
             /\ roots' = roots \cup {f[<<item>>]}
       /\ lost' = lost

Next ==
  \/ Create \/ CreateReference \/ CreateArrayOf
  \/ AddItemToArray \/ AddItemToObject
  \/ AddItemReferenceToArray \/ AddItemReferenceToObject \/ AddNewToObject
  \/ DetachItem \/ DetachItemFromObject \/ DeleteItemFromArray
  \/ InsertItemInArray \/ ReplaceItem \/ ReplaceItemInObject
  \/ Delete \/ Duplicate

Spec == Init /\ [][Next]_vars

-----------------------------------------------------------------------------
(* Properties. *)

TypeOK == heap \in Heap /\ roots \subseteq Nodes /\ lost \subseteq Nodes

\* After every call, whatever came before, the items of an array are linked
\* both ways, the first points back to the last, where the next is appended,
\* and an item in nobody's list points nowhere (cJSON.c:1958-2374).
ListsLinked ==
  /\ TypeOK
  /\ \A array \in Containers(heap) :
       LET list == Items(heap, array)
       IN list # << >> =>
            /\ heap.next[Last(list)] = 0
            /\ heap.prev[list[1]] = Last(list)
            /\ \A k \in 2 .. Len(list) : heap.prev[list[k]] = list[k - 1]
  /\ \A n \in roots : heap.next[n] = 0 /\ heap.prev[n] = 0

\* An allocated item is in one list, once, or the caller has it: each is freed
\* once and none is left behind, but for the reference that gets no key
\* (cJSON.c:2106); what is freed is in no list.  Every allocated key belongs to one
\* item that will free it (cJSON.c:2041-2076, 2386-2407).
Places(n) ==
  {p \in Containers(heap) \X (1 .. Cardinality(Nodes)) :
     p[2] <= Len(Items(heap, p[1])) /\ Items(heap, p[1])[p[2]] = n}
OwnedOnce ==
  /\ \A n \in Nodes :
       Cardinality(Places(n)) + (IF n \in roots THEN 1 ELSE 0)
         + (IF n \in lost THEN 1 ELSE 0) = (IF n \in heap.live THEN 1 ELSE 0)
  /\ heap.strings = Cardinality({n \in heap.live : OwnsKey(heap, n)})

\* The sequence of items each item has, empty for what has none.
Sequences == [n \in Nodes |-> IF n \in Containers(heap) THEN Items(heap, n) ELSE << >>]

\* The links implement sequences of items.
Lists == INSTANCE JsonLists WITH
  items <- Sequences, live <- heap.live, roots <- roots \cup lost
Implements == Lists!Spec

=============================================================================
