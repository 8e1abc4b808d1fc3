------------------------------ MODULE LinkList ------------------------------
(***************************************************************************)
(* The doubly linked list with a pool of nodes that LINKLIST_IMPL of       *)
(* game/include/adt/linklist.h makes.  A list value holds the fields of    *)
(* the pool and the head of the free nodes; the head of the list itself is *)
(* the user's.                                                             *)
(***************************************************************************)
EXTENDS Integers

CONSTANT SIZE      \* the pool has SIZE + 1 nodes

ASSUME SizeAssumption == SIZE \in Nat \ {0}

NULL == -1
Node == 0 .. SIZE
Ptr  == Node \cup {NULL}

List == [next : [Node -> Ptr], prev : [Node -> Ptr], free_head : Ptr]

\* Static memory is zero.
Unused == [next |-> [p \in Node |-> NULL], prev |-> [p \in Node |-> NULL], free_head |-> NULL]

\* The first new() links the pool.
Linked(l) ==
  IF l.free_head # NULL THEN l
  ELSE [next |-> [p \in Node |-> IF p < SIZE THEN p + 1 ELSE l.next[p]],
        prev |-> l.prev, free_head |-> 0]

\* assert(free_head->_next != NULL) of new(): the last node is never handed out.
HasFree(l) == Linked(l).next[Linked(l).free_head] # NULL

\* The node new() returns, and what it leaves behind.
NewNode(l) == Linked(l).free_head

AfterNew(l) ==
  LET p == NewNode(l)
  IN  [next |-> [Linked(l).next EXCEPT ![p] = NULL],
       prev |-> [l.prev EXCEPT ![p] = NULL],
       free_head |-> Linked(l).next[p]]

\* insert(NULL, next, obj)
InsertBefore(l, next, obj) ==
  [l EXCEPT !.next = [l.next EXCEPT ![obj] = next],
            !.prev = [l.prev EXCEPT ![obj] = NULL, ![next] = obj]]

Remove(l, p) ==
  [next |-> [q \in Node |-> IF q = l.prev[p] THEN l.next[p] ELSE l.next[q]],
   prev |-> [q \in Node |-> IF q = l.next[p] THEN l.prev[p] ELSE l.prev[q]],
   free_head |-> l.free_head]

Free(l, p) ==
  [l EXCEPT !.next = [l.next EXCEPT ![p] = l.free_head], !.free_head = p]

\* The nodes from p on, in their order.
Chain(l, p) ==
  LET walk[i \in 0 .. SIZE + 1] ==
        IF i = 0 THEN p
        ELSE LET q == walk[i - 1] IN IF q = NULL THEN NULL ELSE l.next[q]
  IN  [i \in {j \in 1 .. SIZE + 1 : walk[j - 1] \in Node} |-> walk[i - 1]]

\* The chain from p ends.
Ends(l, p) == \A i \in DOMAIN Chain(l, p) :
                i = SIZE + 1 => l.next[Chain(l, p)[i]] = NULL
=============================================================================
