----------------------------- MODULE HashTable -----------------------------
(***************************************************************************)
(* hash.c, and a table of masala: a list of objects next to a hash from    *)
(* their ids to their items (cache.c, database.c, lookup.c, announce.c).   *)
(*                                                                         *)
(* hash_put does not copy keys.  A pair points at the id inside of the     *)
(* object, so that it is the object's own memory that hash_getpair reads   *)
(* when any key of the same bucket is searched.                            *)
(***************************************************************************)
EXTENDS List, SequencesExt

CONSTANTS Id,     \* ids, as 20 bytes
          Slot,   \* the buckets of the hash
          index   \* Id -> Slot: hash_this modulo the number of buckets

ASSUME HashAssumption == index \in [Id -> Slot]

VARIABLES
  hashed,  \* whether this list is the list of a table, or one by itself
  object,  \* objects allocated: payload -> its id
  pairs    \* slot -> sequence of PAIR: [key, value], the object a key is in
           \* and an item

hashvars == <<hashed, object, pairs>>

-----------------------------------------------------------------------------
(* hash.c.  m is the memory the keys are in. *)

\* The position of the pair, 0 if there is none.
hash_getpair(bucket, m, id) ==
  SelectInSeq(bucket, LAMBDA p : m[p.key] = id)

hash_get(m, id) == LET bucket == pairs[index[id]]
                       p == hash_getpair(bucket, m, id)
                   IN  IF p = 0 THEN NULL ELSE bucket[p].value

hash_put(m, key, item) ==
  LET slot == index[m[key]]
      p == hash_getpair(pairs[slot], m, m[key])
  IN  pairs' = [pairs EXCEPT ![slot] =
                  IF p = 0 THEN Append(@, [key |-> key, value |-> item])
                           ELSE [@ EXCEPT ![p].value = item]]

\* Faulty: the last pair is dropped.
hash_del_Last(m, id) ==
  LET slot == index[id]
      p == hash_getpair(pairs[slot], m, id)
  IN  pairs' = IF p = 0 THEN pairs
               ELSE [pairs EXCEPT ![slot] = RemoveAt(@, Len(@))]

hash_del(m, id) ==
  LET slot == index[id]
      p == hash_getpair(pairs[slot], m, id)
  IN  pairs' = IF p = 0 THEN pairs ELSE [pairs EXCEPT ![slot] = RemoveAt(@, p)]

-----------------------------------------------------------------------------
(* Tables.  Their lists are changed as module List says. *)

HashInit == /\ Init
            /\ hashed \in BOOLEAN
            /\ object = Nothing
            /\ pairs = [s \in Slot |-> << >>]

\* The end of lkp_put and the like: a new object with an id that is not there,
\* random or looked for before.
PutObject ==
  /\ Put
  /\ LET o == heap'[stop'].val
     IN  /\ o \notin DOMAIN object
         /\ \E id \in Id : /\ \A other \in DOMAIN object : object[other] # id
                           /\ object' = With(object, o, id)
                           /\ hash_put(object', o, stop')

\* lkp_del and the like, of the item i that is taken off the list.
DelObject(i) ==
  LET o == heap[i].val
  IN  /\ hash_del(object, object[o])
      /\ object' = Without(object, {o})

Deleted == DOMAIN heap \ DOMAIN heap'

TableNext ==
  \/ PutObject
  \/ (Del \/ SweepStep) /\ \E i \in Deleted : DelObject(i)
  \/ /\ SweepBegin \/ SweepStep \/ SweepEnd
     /\ Deleted = {} /\ sweep'.kind # "free"
     /\ UNCHANGED <<object, pairs>>

HashNext == /\ \/ hashed /\ TableNext
               \/ ~hashed /\ Next /\ UNCHANGED <<object, pairs>>
            /\ UNCHANGED hashed

HashSpec == HashInit /\ [][HashNext]_<<vars, hashvars>>

-----------------------------------------------------------------------------
\* Each object of the table is found by its id, and nothing else is: whatever
\* shares a bucket with it, whatever was deleted before, and in the middle of a
\* loop that deletes.  No pair has its key in memory that is free, which a
\* search for another id would read.  This is what the modules that have a list,
\* a hash and objects for a table take for granted of each of them.
Findable ==
  hashed =>
    /\ \A s \in Slot : \A p \in ToSet(pairs[s]) : p.key \in DOMAIN object
    /\ \A id \in Id :
         LET item == hash_get(object, id)
         IN  IF \E o \in DOMAIN object : object[o] = id
             THEN item \in DOMAIN heap /\ object[heap[item].val] = id
             ELSE item = NULL
    /\ {heap[i].val : i \in DOMAIN heap} = DOMAIN object
=============================================================================
