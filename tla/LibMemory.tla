----------------------------- MODULE LibMemory ------------------------------
(* The memory of module MemoryManager as one part among others, with names *)
(* of its own for what other parts have too, and its refinement of Heap.   *)
CONSTANTS META, PAGE_HDR, SYSTEM_PAGE_SIZE, Sizes, MaxPages
VARIABLES pages, free_list

memoryVars == <<pages, free_list>>

Memory == INSTANCE MemoryManager

ASSUME MemoryAssumption == Memory!MemoryAssumption

HeapOf == INSTANCE Heap WITH Sizes <- Memory!Pieces, live <- Memory!live

\* mm.c: what applications hold are pieces of the size they asked for, each with
\* its header, that overlap no other piece (module Heap), whatever was split,
\* merged and returned before.
ImplementsHeap == HeapOf!Spec

\* Module MemoryManager: the blocks of mm.c and its list of free ones.
BlocksSound == Memory!BlocksSound
=============================================================================
