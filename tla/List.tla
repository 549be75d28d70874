-------------------------------- MODULE List --------------------------------
(***************************************************************************)
(* list.c: the doubly linked list under every table of masala, one LIST    *)
(* with its cells (ITEM), and the two expiry loops that walk it.           *)
(*                                                                         *)
(* list_ins never moves list->stop.  Behind the last item of a list of two *)
(* or more it leaves stop where it was, and a list_put after that would    *)
(* link the new item to the wrong one, or to one that is free.  No list of *)
(* masala gets both: the one that gets a list_ins, the list of buckets     *)
(* (bucket.c:240), gets its only list_put while it is empty (bucket.c:61). *)
(* This is the one restriction on the calls below.                         *)
(***************************************************************************)
EXTENDS Naturals, Sequences, FiniteSets, Sweeps, Tables

CONSTANTS Item,      \* memory cells list_put and list_ins may get
          Payload,   \* what the callers store
          NULL

ASSUME NullIsNoItem == NULL \notin Item

VARIABLES
  start, stop, counter,   \* the LIST
  heap,                   \* the live cells: [val, prev, next]
  sweep,                  \* the loop that is walking the list, if any
  call,                   \* history: the last operation, by position
  behind                  \* history: list_ins has been used behind the last
                          \* of two or more items

vars == <<start, stop, counter, heap, sweep, call, behind>>
list == <<start, stop, counter, heap, call, behind>>

Cell == [val : Payload, prev : Item \cup {NULL}, next : Item \cup {NULL}]
NoSweep == [kind |-> "none"]

\* i: the item under the cursor, j: the loop counter, was: the list at the
\* start of the loop (kept for the properties only).
Sweeping(kind, bad, i, j, was) ==
  [kind |-> kind, bad |-> bad, i |-> i, j |-> j, was |-> was]

-----------------------------------------------------------------------------
\* The cells in the order in which list_next visits them.
Chain ==
  LET c[k \in 1..counter] == IF k = 1 THEN start ELSE heap[c[k - 1]].next
  IN  c

Contents == [k \in 1..counter |-> heap[Chain[k]].val]

\* The last of them, where list->stop should point.
LastCell == IF counter = 0 THEN NULL ELSE Chain[counter]

Init ==
  /\ start = NULL /\ stop = NULL /\ counter = 0
  /\ heap = Nothing
  /\ sweep = NoSweep
  /\ call = << >>
  /\ behind = FALSE

\* Links of the cell i, if there is one, in the memory h.
LinkNext(h, i, to) == IF i = NULL THEN h ELSE [h EXCEPT ![i].next = to]
LinkPrev(h, i, to) == IF i = NULL THEN h ELSE [h EXCEPT ![i].prev = to]

Position(item) == CHOOSE k \in 1..counter : Chain[k] = item

list_put(v) == \E new \in Item \ DOMAIN heap :
  /\ heap' = With(LinkNext(heap, stop, new), new,
                  [val |-> v, prev |-> stop, next |-> NULL])
  /\ start' = IF start = NULL THEN new ELSE start
  /\ stop' = new
  /\ counter' = counter + 1

\* Faulty: the new item is not the predecessor of the next one.
list_ins_HalfLinked(here, v) ==
  \/ counter <= 1 /\ list_put(v)
  \/ /\ counter > 1
     /\ \E new \in Item \ DOMAIN heap :
          heap' = With(LinkNext(heap, here, new), new,
                       [val |-> v, prev |-> here, next |-> heap[here].next])
     /\ counter' = counter + 1
     /\ UNCHANGED <<start, stop>>

\* Faulty: every insertion is at the end.
list_ins_AtEnd(here, v) == list_put(v)

list_ins(here, v) ==
  \/ counter <= 1 /\ list_put(v)
  \/ /\ counter > 1
     /\ \E new \in Item \ DOMAIN heap :
          LET next == heap[here].next
              linked == LinkPrev(LinkNext(heap, here, new), next, new)
          IN  heap' = With(linked, new, [val |-> v, prev |-> here, next |-> next])
     /\ counter' = counter + 1
     /\ UNCHANGED <<start, stop>>

list_del(i) ==
  LET prev == heap[i].prev
      next == heap[i].next
      unlinked == LinkPrev(LinkNext(heap, prev, next), next, prev)
  IN  /\ heap' = Without(unlinked, {i})
      /\ start' = IF prev = NULL THEN next ELSE start
      /\ stop' = IF next = NULL THEN prev ELSE stop
      /\ counter' = counter - 1

\* stop is not where list_put needs it: masala appends to no such list.
Misled == stop # LastCell

Put == /\ sweep = NoSweep
       /\ ~Misled
       /\ \E v \in Payload : list_put(v) /\ call' = <<"put", counter, v>>
       /\ UNCHANGED <<sweep, behind>>

\* A list_ins into a list of one item is a list_put.
Ins == /\ sweep = NoSweep
       /\ counter <= 1 => ~Misled
       /\ \E here \in DOMAIN heap, v \in Payload :
            /\ list_ins(here, v)
            /\ call' = <<"ins", Position(here), v>>
            /\ behind' = (behind \/ (counter > 1 /\ here = LastCell))
       /\ UNCHANGED sweep

Del == /\ sweep = NoSweep
       /\ \E i \in DOMAIN heap : list_del(i) /\ call' = <<"del", Position(i)>>
       /\ UNCHANGED <<sweep, behind>>

-----------------------------------------------------------------------------
(* The loops.  "free" is list_free: delete the first item until none is    *)
(* left.  "linked" follows the items, "counted" also compares j with the   *)
(* current counter.                                                        *)

SweepBegin == /\ sweep = NoSweep
              /\ \E kind \in {"free", "linked", "counted"}, bad \in SUBSET Payload :
                   /\ kind = "free" => bad = Payload
                   /\ sweep' = Sweeping(kind, bad, start, 0, Contents)
              /\ UNCHANGED list

\* Faulty: the last item is taken for the end.
SweepEnds_AtStop == CASE sweep.kind = "free"    -> start = NULL
                      [] sweep.kind = "linked"  -> sweep.i = stop
                      [] sweep.kind = "counted" -> sweep.j >= counter

SweepEnds == CASE sweep.kind = "free"    -> start = NULL
               [] sweep.kind = "linked"  -> sweep.i = NULL
               [] sweep.kind = "counted" -> sweep.j >= counter

\* Where the loop stands after the item under its cursor.
Advanced(item) == [sweep EXCEPT !.i = heap[item].next,
                                !.j = IF sweep.kind = "counted" THEN @ + 1 ELSE @]

\* One round of the loop body: next = list_next(item) is read first.
SweepStep ==
  /\ sweep # NoSweep
  /\ ~SweepEnds
  /\ LET item == IF sweep.kind = "free" THEN start ELSE sweep.i IN
       /\ sweep' = Advanced(item)
       /\ IF heap[item].val \in sweep.bad
          THEN list_del(item) /\ call' = <<"del", Position(item)>> /\ UNCHANGED behind
          ELSE UNCHANGED list

SweepEnd == /\ sweep # NoSweep
            /\ SweepEnds
            /\ sweep' = NoSweep
            /\ UNCHANGED list

Next == Put \/ Ins \/ Del \/ SweepBegin \/ SweepStep \/ SweepEnd

Spec == Init /\ [][Next]_vars

-----------------------------------------------------------------------------
TypeOK ==
  /\ DOMAIN heap \subseteq Item
  /\ heap \in [DOMAIN heap -> Cell]
  /\ start \in DOMAIN heap \cup {NULL} /\ stop \in Item \cup {NULL}
  /\ behind \in BOOLEAN
  /\ counter \in Nat
  /\ call = << >> \/ call[1] \in {"put", "ins", "del"}
  /\ sweep = NoSweep \/ /\ sweep.bad \subseteq Payload
                        /\ sweep.i \in DOMAIN heap \cup {NULL}

\* The links agree, list_ins behind the last item included: from start, counter
\* cells are visited, each once and all of them, and every prev is the inverse
\* of a next.  stop is the last cell for as long as list_ins has not been used
\* behind the last of two or more items; from then on it may point to another
\* one or to one that list_del has freed (list.c:117-123), and only an empty
\* list is sure to have none.  A list_del that misses one of its four cases
\* breaks the links a few operations later.
WellLinked ==
  /\ counter = Cardinality(DOMAIN heap)
  /\ {Chain[k] : k \in 1..counter} = DOMAIN heap
  /\ \A k \in 1..counter :
       /\ heap[Chain[k]].prev = IF k = 1 THEN NULL ELSE Chain[k - 1]
       /\ heap[Chain[k]].next = IF k = counter THEN NULL ELSE Chain[k + 1]
  /\ ~behind => stop = LastCell
  /\ counter = 0 => start = NULL /\ stop = NULL

\* When a loop ends it has deleted what Sweeps says: the linked loop and
\* list_free all they should, the counted loop (db_expire, nbhd_expire) only
\* what it reaches before j meets the falling counter.
SweepResult ==
  (sweep # NoSweep /\ SweepEnds) =>
    Contents = IF sweep.kind = "counted"
               THEN CountedSweep(sweep.was, sweep.bad)
               ELSE Keep(sweep.was, DOMAIN sweep.was \ BadAt(sweep.was, sweep.bad))

\* list.c implements the sequence its callers have in mind, as list_next walks
\* it: every call masala makes, list_ins behind the last item and list_del inside
\* of a loop too, changes it in the place the call names and nowhere else.  A
\* list_put while list_ins has left stop behind would not; masala makes none.
Abstract == INSTANCE ListSeq WITH items <- Contents
ImplementsSequence == Abstract!Spec
=============================================================================
