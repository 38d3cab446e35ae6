---------------------------- MODULE GlthreadList ----------------------------
(***************************************************************************)
(* One list under every operation of gluethread/glthread.c, beside the     *)
(* sequence of nodes it stands for.  The callers keep the preconditions    *)
(* the stack's callers keep: a node is inserted only when it is not in a   *)
(* list, and glthread_priority_insert is used on lists kept sorted by it.  *)
(***************************************************************************)
EXTENDS Glthread, Integers, Sequences, SequencesExt

CONSTANTS ListHead,   \* the glthread_t that heads the list, none of Elems
          Elems,      \* the nodes that can be linked into it
          KeyOf       \* what the list's comp_fn compares, a number for each

ListAssumption ==
  /\ ListHead \notin Elems
  /\ NULL \notin Elems \cup {ListHead}
  /\ KeyOf \in [Elems -> Int]

VARIABLES gl,    \* the left and right pointer of every node
          list   \* the sequence of nodes the list should hold

vars == <<gl, list>>

Nodes == Elems \cup {ListHead}

Linked == ToSet(list)

Sorted == \A i, j \in DOMAIN list : i < j => KeyOf[list[i]] <= KeyOf[list[j]]

\* The place of a node in the sequence; the head is at place 0.
Place(c) == IF c = ListHead THEN 0 ELSE CHOOSE i \in DOMAIN list : list[i] = c

\* Before the first larger key.
InsertedByKey(n) ==
  InsertAt(list, CHOOSE i \in 1..(Len(list) + 1) :
                   /\ i <= Len(list) => KeyOf[list[i]] > KeyOf[n]
                   /\ \A j \in 1..(i - 1) : KeyOf[list[j]] <= KeyOf[n], n)

Init ==
  /\ gl = [left |-> [n \in Nodes |-> NULL], right |-> [n \in Nodes |-> NULL]]
  /\ list = <<>>

AddNext(c, n) ==
  /\ n \notin Linked
  /\ gl' = glthread_add_next(gl, c, n)
  /\ list' = InsertAt(list, Place(c) + 1, n)

AddBefore(c, n) ==
  /\ n \notin Linked
  /\ gl' = glthread_add_before(gl, c, n)
  /\ list' = InsertAt(list, Place(c), n)

AddLast(n) ==
  /\ n \notin Linked
  /\ gl' = glthread_add_last(gl, ListHead, n)
  /\ list' = Append(list, n)

PriorityInsert(n) ==
  /\ n \notin Linked
  /\ Sorted
  /\ gl' = glthread_priority_insert(gl, ListHead, n, KeyOf)
  /\ list' = InsertedByKey(n)

\* The tables also remove nodes that are in no list; nothing must happen.
RemoveNode(n) ==
  /\ gl' = remove_glthread(gl, n)
  /\ list' = IF n \in Linked THEN RemoveAt(list, Place(n)) ELSE list

DequeueFirst ==
  /\ gl.right[ListHead] # NULL
  /\ gl' = dequeue_glthread_first(gl, ListHead)
  /\ list' = Tail(list)

DeleteList ==
  /\ gl' = delete_glthread_list(gl, ListHead)
  /\ list' = <<>>

Next ==
  \/ \E c \in Linked \cup {ListHead}, n \in Elems : AddNext(c, n)
  \/ \E c \in Linked, n \in Elems : AddBefore(c, n)
  \/ \E n \in Elems : AddLast(n) \/ PriorityInsert(n) \/ RemoveNode(n)
  \/ DequeueFirst
  \/ DeleteList

Spec == Init /\ [][Next]_vars

-----------------------------------------------------------------------------
\* The pointers of glthread.c always spell out the sequence the operations
\* were meant to build, in both directions, and an element outside the list
\* keeps no pointer into it; loops over the list end, and glthread_get_last finds
\* the last element.
Represents ==
  LET at(i) == IF i = 0 THEN ListHead ELSE IF i > Len(list) THEN NULL ELSE list[i]
  IN /\ \A i \in 0..Len(list) : gl.right[at(i)] = at(i + 1)
     /\ \A i \in 1..Len(list) : gl.left[at(i)] = at(i - 1)
     /\ gl.left[ListHead] = NULL
     /\ \A n \in Elems \ Linked : IsUnlinked(gl, n)
     /\ IterationEnds(gl, ListHead)
     /\ glthread_get_last(gl, ListHead) = IF list = <<>> THEN NULL ELSE Last(list)
=============================================================================
