------------------------------ MODULE LibList -------------------------------
(* The list of module GlthreadList as one part among others, with names of *)
(* its own for what other parts have too.                                  *)
CONSTANTS ListHead, Elems, KeyOf,
          NilNode   \* a pointer to no node
VARIABLES gl, list

listVars == <<gl, list>>

List == INSTANCE GlthreadList WITH NULL <- NilNode

ASSUME ListAssumption == List!ListAssumption

\* Module GlthreadList: the list of glthread.c.
Represents == List!Represents
=============================================================================
