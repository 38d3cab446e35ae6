------------------------------ MODULE Glthread ------------------------------
(***************************************************************************)
(* gluethread/glthread.c: the intrusive doubly linked list every table and *)
(* queue of the stack is made of.  The pointers of all the nodes are one   *)
(* record of two functions, gl.left and gl.right, so that what the C code  *)
(* does to a node that is already linked (a second insertion, a removal of *)
(* an unlinked node) comes out as it does in memory.  The head of a list   *)
(* is a node like the others.                                              *)
(***************************************************************************)
EXTENDS Integers

CONSTANT NULL

\* IS_GLTHREAD_LIST_EMPTY: both pointers are 0 (also used to ask whether a
\* node is linked at all).
IsUnlinked(gl, n) == gl.left[n] = NULL /\ gl.right[n] = NULL

init_glthread(gl, n) ==
  [left  |-> [gl.left EXCEPT ![n] = NULL],
   right |-> [gl.right EXCEPT ![n] = NULL]]

\* The assignments are made in the order of the code: c and n may be the
\* same node, or already linked.
glthread_add_next(gl, c, n) ==
  LET temp == gl.right[c]
  IN IF temp = NULL
     THEN [left  |-> [gl.left EXCEPT ![n] = c],
           right |-> [gl.right EXCEPT ![c] = n]]
     ELSE [left  |-> [[gl.left EXCEPT ![n] = c] EXCEPT ![temp] = n],
           right |-> [[gl.right EXCEPT ![c] = n] EXCEPT ![n] = temp]]

glthread_add_before(gl, c, n) ==
  LET temp == gl.left[c]
  IN IF temp = NULL
     THEN [left  |-> [[gl.left EXCEPT ![n] = NULL] EXCEPT ![c] = n],
           right |-> [gl.right EXCEPT ![n] = c]]
     ELSE [left  |-> [[gl.left EXCEPT ![n] = temp] EXCEPT ![c] = n],
           right |-> [[gl.right EXCEPT ![temp] = n] EXCEPT ![n] = c]]

\* Mutant: a neighbour keeps its pointer to the removed node.
kept(f, x, v) == f

\* x->left = v or x->right = v, when x is not 0.
relinked(f, x, v) == IF x = NULL THEN f ELSE [f EXCEPT ![x] = v]

remove_glthread(gl, c) ==
  LET l == gl.left[c]
      r == gl.right[c]
  IN IF l = NULL /\ r = NULL
     THEN gl
     ELSE [left  |-> [relinked(gl.left, r, l) EXCEPT ![c] = NULL],
           right |-> [relinked(gl.right, l, r) EXCEPT ![c] = NULL]]

(***************************************************************************)
(* The walks.  Walk(gl, h, A) is the set of nodes a loop visits that       *)
(* starts at h and follows the right pointers as long as the next node is  *)
(* in A: the least set that holds h and is closed under that step.         *)
(***************************************************************************)
Walk(gl, h, A) ==
  {x \in DOMAIN gl.right :
     \A S \in SUBSET DOMAIN gl.right :
       /\ h \in S
       /\ \A y \in S : gl.right[y] \in A => gl.right[y] \in S
       => x \in S}

WalkEnds(gl, h, A) == {x \in Walk(gl, h, A) : gl.right[x] \notin A}

\* The loop ITERATE_GLTHREAD ends iff the walk reaches a 0 pointer; on a
\* cyclic list it runs for ever.
IterationEnds(gl, h) == WalkEnds(gl, h, DOMAIN gl.right) # {}

LastNode(gl, h) == CHOOSE x \in WalkEnds(gl, h, DOMAIN gl.right) : TRUE

glthread_get_last(gl, h) == IF gl.right[h] = NULL THEN NULL ELSE LastNode(gl, h)

\* Only meaningful when IterationEnds(gl, h).
glthread_add_last(gl, h, n) == glthread_add_next(gl, LastNode(gl, h), n)

\* comp_fn(new, curr) = -1 iff key[new] < key[curr]: the loop passes every
\* node whose key is not larger and inserts before the first one that is.
glthread_priority_insert(gl, h, n, key) ==
  LET fresh == init_glthread(gl, n)
      passed == {x \in DOMAIN key : key[x] <= key[n]}
      prev == CHOOSE x \in WalkEnds(fresh, h, passed) : TRUE
  IN glthread_add_next(fresh, prev, n)

\* The node returned is gl.right[h]; only meaningful when it is not NULL.
dequeue_glthread_first(gl, h) == remove_glthread(gl, gl.right[h])

\* The loop removes each node it visits.
delete_glthread_list(gl, h) ==
  LET gone == Walk(gl, h, DOMAIN gl.right) \ {h}
  IN [left  |-> [x \in DOMAIN gl.left |-> IF x \in gone THEN NULL ELSE gl.left[x]],
      right |-> [x \in DOMAIN gl.right |->
                   IF x \in gone \cup {h} THEN NULL ELSE gl.right[x]]]
=============================================================================
