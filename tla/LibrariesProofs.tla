-------------------------- MODULE LibrariesProofs --------------------------
(***************************************************************************)
(* Three parts of the run Libraries, for all values of their constants:    *)
(* the overload state of IsisOverload for any time limits and any number   *)
(* of jobs that wait; the lists of GlthreadList of any nodes with any keys; *)
(* and the memory of MemoryManager for any sizes, which implements Heap.   *)
(***************************************************************************)
EXTENDS IsisOverload, LibList, LibMemory, Integers, Sequences, FiniteSets,
        SequenceTheorems, FiniteSetTheorems, WellFoundedInduction, TLAPS
-----------------------------------------------------------------------------
(* The overload state.  OverloadSound is inductive as it stands. *)

\* NULL is no job's argument and no timer.
OverloadAssumption == NULL # "node" /\ NULL \notin Timers

\* What a handler owes Becomes: types, the LSP that follows, and a time limit that limits.
Kept(n) ==
  /\ n \in [protocol : Protocol, ovl_status : BOOLEAN, timeout_val : Timeouts \union {0},
            ovl_timer : Timers \union {NULL}, lsp_pkt_gen_task : BOOLEAN]
  /\ n.protocol = "enabled" => lsp = n.ovl_status \/ n.lsp_pkt_gen_task
  /\ n.ovl_timer # NULL => n.ovl_status /\ n.ovl_timer.val = n.timeout_val
  /\ n.ovl_timer # NULL /\ n.ovl_timer # node_info.ovl_timer => n.ovl_timer.state = "armed"
  /\ n.protocol # "enabled" =>
       n.ovl_timer = NULL \/ (node_info.protocol # "enabled" /\ n.ovl_timer # NULL)

-----------------------------------------------------------------------------

\* isis_set_overload and the other handlers, as far as they go through Becomes.
LEMMA BecomesKeeps ==
  ASSUME OverloadAssumption, OverloadSound, NEW n, Kept(n), Becomes(n)
  PROVE  OverloadSound'
<1>1. TypeOK'
  BY DEF OverloadSound, TypeOK, Kept, Becomes, LateAfter
<1>2. LspTellsOverload' /\ LimitLimits'
  BY DEF OverloadSound, LspTellsOverload, LimitLimits, Kept, Becomes
<1>3. JobEndsOverload'
  <2> SUFFICES ASSUME ~meddled' PROVE JobEndsOverload'
    BY DEF JobEndsOverload
  <2>1. /\ ~meddled
        /\ n.ovl_timer # node_info.ovl_timer => ovl_jobs = <<>> /\ node_info.protocol = "enabled"
        /\ node_info' = n /\ ovl_jobs' = ovl_jobs /\ ovl_crashed' = ovl_crashed
    BY DEF Becomes
  <2>2. /\ ovl_crashed = "no"
        /\ ovl_jobs = IF node_info.ovl_timer # NULL /\ ~Armed(node_info) THEN <<"node">> ELSE <<>>
        /\ node_info.protocol # "enabled" => node_info.ovl_timer = NULL
    BY <2>1 DEF OverloadSound, JobEndsOverload
  <2>3. CASE n.ovl_timer = node_info.ovl_timer
    BY <2>1, <2>2, <2>3 DEF JobEndsOverload, Armed, Kept
  <2>4. CASE n.ovl_timer # node_info.ovl_timer
    BY <2>1, <2>2, <2>4 DEF JobEndsOverload, Armed, Kept
  <2> QED BY <2>3, <2>4
<1> QED BY <1>1, <1>2, <1>3 DEF OverloadSound

\* isis_overload_timer_expire, isis_unset_overload: the overload ends with its time limit.
LEMMA LiftedKept ==
  ASSUME OverloadAssumption, OverloadSound, NEW val \in Timeouts \union {0},
         NEW n, n = regenerated(stopped([node_info EXCEPT !.ovl_status = FALSE, !.timeout_val = val]))
  PROVE  Kept(n) /\ n.ovl_timer = NULL
BY DEF OverloadSound, TypeOK, LspTellsOverload, Kept, regenerated, stopped

\* isis_set_overload: the part that both commands share.
LEMMA SetKept ==
  ASSUME OverloadAssumption, OverloadSound, Enabled
  PROVE  /\ Kept(set(node_info))
         /\ set(node_info).ovl_status
         /\ set(node_info).ovl_timer = node_info.ovl_timer
         /\ set(node_info).timeout_val = node_info.timeout_val
         /\ set(node_info).protocol = node_info.protocol
BY DEF OverloadSound, TypeOK, LspTellsOverload, LimitLimits, Kept, regenerated, set

-----------------------------------------------------------------------------

LEMMA InitHolds ==
  ASSUME OverloadAssumption, Init
  PROVE  OverloadSound
<1>1. node_info = [protocol |-> "enabled", ovl_status |-> FALSE, timeout_val |-> 0,
                   ovl_timer |-> NULL, lsp_pkt_gen_task |-> TRUE]
  BY DEF Init, Fresh, regenerated
<1>2. TypeOK
  <2>1. ovl_jobs \in Seq({"node", NULL})
    BY DEF Init
  <2>2. late \subseteq {"node", NULL}
    BY DEF Init
  <2>3. lsp \in BOOLEAN /\ meddled \in BOOLEAN /\ ovl_crashed \in {"no", "NULL", "assert"}
    BY DEF Init
  <2> QED BY <1>1, <2>1, <2>2, <2>3 DEF TypeOK, Protocol
<1>3. LspTellsOverload /\ LimitLimits /\ JobEndsOverload
  BY <1>1 DEF Init, LspTellsOverload, LimitLimits, JobEndsOverload
<1> QED BY <1>2, <1>3 DEF OverloadSound

LEMMA NextKeeps ==
  ASSUME OverloadAssumption, OverloadSound, [Next]_vars
  PROVE  OverloadSound'
<1> USE DEF OverloadAssumption
<1>1. CASE TimerFires
  <2>1. TypeOK'
    <3>1. node_info.ovl_timer \in Timers
      BY <1>1 DEF TimerFires, OverloadSound, TypeOK, Armed
    <3>2. [node_info.ovl_timer EXCEPT !.state = "fired"] \in Timers
      BY <3>1 DEF Timers
    <3>3. ovl_jobs' \in Seq({"node", NULL})
      BY <1>1 DEF TimerFires, OverloadSound, TypeOK
    <3> QED BY <1>1, <3>2, <3>3 DEF TimerFires, OverloadSound, TypeOK
  <2>2. LspTellsOverload' /\ LimitLimits'
    BY <1>1 DEF TimerFires, OverloadSound, TypeOK, LspTellsOverload, LimitLimits, Armed, Timers
  <2>3. JobEndsOverload'
    BY <1>1 DEF TimerFires, OverloadSound, TypeOK, JobEndsOverload, Armed, Timers
  <2> QED BY <2>1, <2>2, <2>3 DEF OverloadSound
<1>2. CASE TimerExpire
  <2>1. CASE Head(ovl_jobs) = NULL \/ node_info.protocol = "disabled" \/ node_info.ovl_timer = NULL
    <3>1. meddled
      BY <1>2, <2>1 DEF TimerExpire, OverloadSound, JobEndsOverload, TypeOK
    <3> QED BY <1>2, <2>1, <3>1 DEF TimerExpire, OverloadSound, TypeOK, LspTellsOverload,
                                  LimitLimits, JobEndsOverload
  <2>2. CASE ~(Head(ovl_jobs) = NULL \/ node_info.protocol = "disabled" \/ node_info.ovl_timer = NULL)
    <3> DEFINE n == regenerated([stopped(node_info) EXCEPT !.ovl_status = FALSE, !.timeout_val = 0])
    <3>1. n = regenerated(stopped([node_info EXCEPT !.ovl_status = FALSE, !.timeout_val = 0]))
      BY DEF OverloadSound, TypeOK, stopped
    <3>2. Kept(n) /\ n.ovl_timer = NULL
      BY <3>1, LiftedKept
    <3>3. /\ node_info' = n /\ late' = LateAfter(n) /\ ovl_jobs' = Tail(ovl_jobs)
          /\ lsp' = lsp /\ meddled' = meddled /\ ovl_crashed' = ovl_crashed
      BY <1>2, <2>2 DEF TimerExpire
    <3>4. TypeOK'
      BY <1>2, <3>2, <3>3 DEF TimerExpire, OverloadSound, TypeOK, Kept, LateAfter
    <3>5. LspTellsOverload' /\ LimitLimits'
      BY <3>2, <3>3 DEF LspTellsOverload, LimitLimits, Kept
    <3>6. ~meddled => ovl_jobs' = <<>>
      BY <1>2, <3>3 DEF TimerExpire, OverloadSound, JobEndsOverload
    <3>7. JobEndsOverload'
      BY <3>2, <3>3, <3>6 DEF JobEndsOverload, OverloadSound
    <3> QED BY <3>4, <3>5, <3>7 DEF OverloadSound
  <2> QED BY <2>1, <2>2
<1>3. ASSUME NEW arg \in late, TimerMoves(<<arg>>) \/ TimerMoves(<<>>) PROVE OverloadSound'
  <2>1. CASE TimerMoves(<<arg>>)
    <3>1. arg \in {"node", NULL}
      BY <1>3 DEF OverloadSound, TypeOK
    <3>2. ovl_jobs' \in Seq({"node", NULL})
      BY <2>1, <3>1 DEF TimerMoves, OverloadSound, TypeOK
    <3>3. meddled' = TRUE
      BY <2>1 DEF TimerMoves
    <3> QED BY <2>1, <3>2, <3>3 DEF TimerMoves, OverloadSound, TypeOK, LspTellsOverload, LimitLimits,
                                  JobEndsOverload
  <2>2. CASE TimerMoves(<<>>)
    BY <1>3, <2>2 DEF TimerMoves, OverloadSound, TypeOK, LspTellsOverload, LimitLimits,
                     JobEndsOverload, Armed
  <2> QED BY <1>3, <2>1, <2>2
<1>4. CASE SetOverload
  BY <1>4, SetKept, BecomesKeeps DEF SetOverload
<1>5. CASE UnsetOverload
  <2>1. node_info.timeout_val \in Timeouts \union {0}
    BY DEF OverloadSound, TypeOK
  <2>2. [node_info EXCEPT !.ovl_status = FALSE]
        = [node_info EXCEPT !.ovl_status = FALSE, !.timeout_val = node_info.timeout_val]
    BY DEF OverloadSound, TypeOK
  <2> QED BY <1>5, <2>1, <2>2, LiftedKept, BecomesKeeps DEF UnsetOverload
<1>6. CASE UnsetOverloadTimeout
  <2>1. Kept(stopped(node_info))
    BY DEF OverloadSound, TypeOK, LspTellsOverload, Kept, stopped
  <2> QED BY <1>6, <2>1, BecomesKeeps DEF UnsetOverloadTimeout
<1>7. ASSUME NEW val \in Timeouts, SetOverloadTimeout(val) PROVE OverloadSound'
  <2> DEFINE n == set(node_info)
  <2>1. Enabled
    BY <1>7 DEF SetOverloadTimeout
  <2>2. /\ Kept(n) /\ n.ovl_status /\ n.ovl_timer = node_info.ovl_timer
        /\ n.timeout_val = node_info.timeout_val /\ n.protocol = node_info.protocol
    BY <2>1, SetKept
  <2>3. Kept(stopped(n))
    BY <2>2 DEF Kept, stopped
  <2>4. [state |-> "armed", val |-> val] \in Timers
    BY DEF Timers
  <2>5. Kept(started(n, val))
    BY <2>2, <2>4 DEF Kept, started
  <2> QED BY <1>7, <2>2, <2>3, <2>5, BecomesKeeps DEF SetOverloadTimeout
<1>8. CASE GenerateLsp
  BY <1>8 DEF GenerateLsp, OverloadSound, TypeOK, LspTellsOverload, LimitLimits, JobEndsOverload, Armed
<1>9. CASE ShutDown
  <2> DEFINE n == [stopped(node_info) EXCEPT !.protocol = "shutdown pending", !.lsp_pkt_gen_task = TRUE]
  <2>1. Kept(n)
    BY <1>9 DEF ShutDown, OverloadSound, TypeOK, Kept, stopped, Protocol
  <2> QED BY <1>9, <2>1, BecomesKeeps DEF ShutDown
<1>10. CASE ShutDownNow
  <2>1. CASE node_info.ovl_timer # NULL
    BY <1>10, <2>1 DEF ShutDownNow, OverloadSound, TypeOK, LspTellsOverload, LimitLimits, JobEndsOverload
  <2>2. CASE node_info.ovl_timer = NULL
    <3>1. /\ node_info' = Fresh("disabled") /\ lsp' = FALSE
          /\ ovl_crashed' = ovl_crashed /\ ovl_jobs' = ovl_jobs /\ late' = late /\ meddled' = meddled
      BY <1>10, <2>2 DEF ShutDownNow
    <3>2. TypeOK'
      BY <3>1 DEF OverloadSound, TypeOK, Fresh, Protocol
    <3>3. LspTellsOverload' /\ LimitLimits'
      BY <3>1 DEF LspTellsOverload, LimitLimits, Fresh
    <3>4. JobEndsOverload'
      BY <2>2, <3>1 DEF OverloadSound, JobEndsOverload, Fresh
    <3> QED BY <3>2, <3>3, <3>4 DEF OverloadSound
  <2> QED BY <2>1, <2>2
<1>11. CASE Start
  <2>1. Kept(regenerated(Fresh("enabled")))
    BY DEF Kept, Fresh, regenerated, Protocol
  <2> QED BY <1>11, <2>1, BecomesKeeps DEF Start
<1>12. CASE UNCHANGED vars
  BY <1>12 DEF vars, OverloadSound, TypeOK, LspTellsOverload, LimitLimits, JobEndsOverload, Armed
<1> QED BY <1>1, <1>2, <1>3, <1>4, <1>5, <1>6, <1>7, <1>8, <1>9, <1>10, <1>11, <1>12 DEF Next

\* isis_rtr.c: whatever the time limits and the number of late jobs, the last LSP or the
\* next one tells the overload, a time limit runs only for an overload, and a job that
\* nothing came before ends it.
THEOREM OverloadCorrect ==
  ASSUME OverloadAssumption
  PROVE  Spec => []OverloadSound
<1>1. Init => OverloadSound
  BY InitHolds
<1>2. OverloadSound /\ [Next]_vars => OverloadSound'
  BY NextKeeps
<1> QED BY <1>1, <1>2, PTL DEF Spec

-----------------------------------------------------------------------------
(* Sequences: the elements, an insertion and a removal. *)

Els(s) == {s[i] : i \in 1..Len(s)}

IsLeast(i, I) == i \in I /\ \A j \in I : i <= j

LEMMA LeastOf ==
  ASSUME NEW I \in SUBSET Nat, I # {}
  PROVE  \E i \in I : \A j \in I : i <= j
<1>1. PICK i \in I : \A j \in I : ~(<<j, i>> \in OpToRel(<, Nat))
  BY WFMin, NatLessThanWellFounded
<1>2. ASSUME NEW j \in I, j < i PROVE FALSE
  <2>1. <<j, i>> \in OpToRel(<, Nat)
    BY <1>2, Zenon DEF OpToRel
  <2> QED
    BY <1>1, <2>1
<1> QED
  BY <1>2

\* What InsertAt and RemoveAt of SequencesExt are made of.
Grown(s, p, e) == (SubSeq(s, 1, p) \o <<e>>) \o SubSeq(s, p + 1, Len(s))
Shrunk(s, p) == SubSeq(s, 1, p - 1) \o SubSeq(s, p + 1, Len(s))

LEMMA InsertAtHas ==
  ASSUME NEW X, NEW s \in Seq(X), NEW p \in 0..Len(s), NEW e \in X
  PROVE  /\ Grown(s, p, e) \in Seq(X) /\ Len(Grown(s, p, e)) = Len(s) + 1
         /\ \A i \in 1..(Len(s) + 1) :
              Grown(s, p, e)[i] = IF i <= p THEN s[i] ELSE IF i = p + 1 THEN e ELSE s[i - 1]
<1> DEFINE u == SubSeq(s, 1, p)
           v == SubSeq(s, p + 1, Len(s))
           w == u \o <<e>>
           t == w \o v
<1>1. PICK n \in Nat : Len(s) = n
  OBVIOUS
<1>2. u \in Seq(X) /\ Len(u) = p /\ \A i \in 1..p : u[i] = s[i]
  BY <1>1
<1>3. v \in Seq(X) /\ Len(v) = n - p /\ \A i \in 1..(n - p) : v[i] = s[p + i]
  BY <1>1
<1>4. Grown(s, p, e) = t
  BY DEF Grown
<1> HIDE DEF u, v
<1>5. /\ w \in Seq(X) /\ Len(w) = p + 1
      /\ \A i \in 1..(p + 1) : w[i] = IF i <= p THEN s[i] ELSE e
  BY <1>1, <1>2
<1> HIDE DEF w
<1>6. p \in Nat /\ p <= n /\ n \in Nat
  BY <1>1
<1>7. /\ t \in Seq(X) /\ Len(t) = n + 1
      /\ \A i \in 1..(n + 1) : t[i] = IF i <= p + 1 THEN w[i] ELSE v[i - (p + 1)]
  <2>1. /\ t \in Seq(X) /\ Len(t) = Len(w) + Len(v)
        /\ \A i \in 1..(Len(w) + Len(v)) : t[i] = IF i <= Len(w) THEN w[i] ELSE v[i - Len(w)]
    BY <1>3, <1>5, ConcatProperties
  <2>2. Len(w) = p + 1 /\ (p + 1) + Len(v) = n + 1
    BY <1>3, <1>5, <1>6
  <2> HIDE DEF t
  <2> QED
    BY ONLY <2>1, <2>2
<1> HIDE DEF t
<1>8. \A i \in 1..(n + 1) : t[i] = IF i <= p THEN s[i] ELSE IF i = p + 1 THEN e ELSE s[i - 1]
  <2> SUFFICES ASSUME NEW i \in 1..(n + 1)
               PROVE  t[i] = IF i <= p THEN s[i] ELSE IF i = p + 1 THEN e ELSE s[i - 1]
    OBVIOUS
  <2>1. CASE i <= p + 1
    <3>1. i \in 1..(p + 1)
      BY <1>6, <2>1
    <3>2. t[i] = w[i] /\ w[i] = IF i <= p THEN s[i] ELSE e
      BY <1>5, <1>7, <2>1, <3>1
    <3> QED
      BY <1>6, <2>1, <3>2
  <2>2. CASE i > p + 1
    <3>1. i - (p + 1) \in 1..(n - p) /\ p + (i - (p + 1)) = i - 1 /\ ~(i <= p + 1) /\ ~(i <= p) /\ i # p + 1
      BY ONLY <1>6, <2>2, i \in 1..(n + 1)
    <3>2. t[i] = v[i - (p + 1)]
      BY <1>7, <3>1
    <3>3. v[i - (p + 1)] = s[p + (i - (p + 1))]
      BY <1>3, <3>1
    <3> QED
      BY ONLY <3>1, <3>2, <3>3
  <2> QED
    BY <1>6, <2>1, <2>2
<1> QED
  BY <1>1, <1>4, <1>7, <1>8

LEMMA RemoveAtHas ==
  ASSUME NEW X, NEW s \in Seq(X), NEW p \in 1..Len(s)
  PROVE  /\ Shrunk(s, p) \in Seq(X) /\ Len(Shrunk(s, p)) = Len(s) - 1
         /\ \A i \in 1..(Len(s) - 1) : Shrunk(s, p)[i] = IF i < p THEN s[i] ELSE s[i + 1]
<1> DEFINE u == SubSeq(s, 1, p - 1)
           v == SubSeq(s, p + 1, Len(s))
           t == u \o v
<1>1. PICK n \in Nat : Len(s) = n
  OBVIOUS
<1>2. u \in Seq(X) /\ Len(u) = p - 1 /\ \A i \in 1..(p - 1) : u[i] = s[i]
  BY <1>1
<1>3. v \in Seq(X) /\ Len(v) = n - p /\ \A i \in 1..(n - p) : v[i] = s[p + i]
  BY <1>1
<1>4. Shrunk(s, p) = t
  BY DEF Shrunk
<1> HIDE DEF u, v
<1>5. p \in Nat /\ 1 <= p /\ p <= n /\ n \in Nat
  BY <1>1
<1>6. /\ t \in Seq(X) /\ Len(t) = n - 1
      /\ \A i \in 1..(n - 1) : t[i] = IF i <= p - 1 THEN u[i] ELSE v[i - (p - 1)]
  <2>1. /\ t \in Seq(X) /\ Len(t) = Len(u) + Len(v)
        /\ \A i \in 1..(Len(u) + Len(v)) : t[i] = IF i <= Len(u) THEN u[i] ELSE v[i - Len(u)]
    BY <1>2, <1>3, ConcatProperties
  <2>2. Len(u) = p - 1 /\ (p - 1) + Len(v) = n - 1
    BY <1>2, <1>3, <1>5
  <2> HIDE DEF t
  <2> QED
    BY ONLY <2>1, <2>2
<1> HIDE DEF t
<1>7. \A i \in 1..(n - 1) : t[i] = IF i < p THEN s[i] ELSE s[i + 1]
  <2> SUFFICES ASSUME NEW i \in 1..(n - 1) PROVE t[i] = IF i < p THEN s[i] ELSE s[i + 1]
    OBVIOUS
  <2>1. CASE i < p
    <3>1. i \in 1..(p - 1) /\ i <= p - 1
      BY <1>5, <2>1
    <3> QED
      BY <1>2, <1>6, <2>1, <3>1
  <2>2. CASE i >= p
    <3>1. i - (p - 1) \in 1..(n - p) /\ p + (i - (p - 1)) = i + 1 /\ ~(i <= p - 1) /\ ~(i < p)
      BY ONLY <1>5, <2>2, i \in 1..(n - 1)
    <3>2. t[i] = v[i - (p - 1)]
      BY <1>6, <3>1
    <3>3. v[i - (p - 1)] = s[p + (i - (p - 1))]
      BY <1>3, <3>1
    <3> QED
      BY ONLY <3>1, <3>2, <3>3
  <2> QED
    BY <1>5, <2>1, <2>2
<1> QED
  BY <1>1, <1>4, <1>6, <1>7

\* t is s with e after place p, or without the element at place p.
WithOne(t, s, p, e) ==
  /\ Len(t) = Len(s) + 1
  /\ \A i \in 1..Len(t) : t[i] = IF i <= p THEN s[i] ELSE IF i = p + 1 THEN e ELSE s[i - 1]
Without(t, s, p) ==
  /\ Len(t) = Len(s) - 1
  /\ \A i \in 1..Len(t) : t[i] = IF i < p THEN s[i] ELSE s[i + 1]

LEMMA WithOneEls ==
  ASSUME NEW s, Len(s) \in Nat, NEW p \in 0..Len(s), NEW e, NEW t, WithOne(t, s, p, e)
  PROVE  Els(t) = Els(s) \union {e}
<1>1. ASSUME NEW i \in 1..Len(t) PROVE t[i] \in Els(s) \union {e}
  <2>1. i <= p => i \in 1..Len(s) /\ t[i] = s[i]
    BY DEF WithOne
  <2>2. i > p + 1 => i - 1 \in 1..Len(s) /\ t[i] = s[i - 1]
    BY DEF WithOne
  <2>3. i = p + 1 => t[i] = e
    BY DEF WithOne
  <2>4. i <= p \/ i > p + 1 \/ i = p + 1
    OBVIOUS
  <2> QED
    BY <2>1, <2>2, <2>3, <2>4 DEF Els
<1>2. ASSUME NEW i \in 1..Len(s) PROVE s[i] \in Els(t)
  <2>1. CASE i <= p
    <3>1. i \in 1..Len(t) /\ t[i] = s[i]
      BY <2>1 DEF WithOne
    <3> QED
      BY <3>1 DEF Els
  <2>2. CASE i > p
    <3>1. i + 1 \in 1..Len(t) /\ t[i + 1] = s[i]
      BY <2>2 DEF WithOne
    <3> QED
      BY <3>1 DEF Els
  <2> QED
    BY <2>1, <2>2
<1>3. e \in Els(t)
  <2>1. p + 1 \in 1..Len(t) /\ t[p + 1] = e
    BY DEF WithOne
  <2> QED
    BY <2>1 DEF Els
<1> QED
  BY <1>1, <1>2, <1>3 DEF Els

LEMMA WithoutEls ==
  ASSUME NEW s, Len(s) \in Nat, NEW p \in 1..Len(s), NEW t, Without(t, s, p),
         \A i \in 1..Len(s) : s[i] = s[p] => i = p
  PROVE  Els(t) = Els(s) \ {s[p]}
<1>1. ASSUME NEW i \in 1..Len(t) PROVE t[i] \in Els(s) \ {s[p]}
  <2>1. i < p => i \in 1..Len(s) /\ t[i] = s[i]
    BY DEF Without
  <2>2. ~(i < p) => i + 1 \in 1..Len(s) /\ i + 1 # p /\ t[i] = s[i + 1]
    BY DEF Without
  <2> QED
    BY <2>1, <2>2 DEF Els
<1>2. ASSUME NEW i \in 1..Len(s), i # p PROVE s[i] \in Els(t)
  <2>1. CASE i < p
    <3>1. i \in 1..Len(t) /\ t[i] = s[i]
      BY <2>1 DEF Without
    <3> QED
      BY <3>1 DEF Els
  <2>2. CASE i > p
    <3>1. i - 1 \in 1..Len(t) /\ t[i - 1] = s[i]
      BY <2>2 DEF Without
    <3> QED
      BY <3>1 DEF Els
  <2> QED
    BY <1>2, <2>1, <2>2
<1> QED
  BY <1>1, <1>2 DEF Els

LEMMA InsertsOne ==
  ASSUME NEW X, NEW s \in Seq(X), NEW p \in 0..Len(s), NEW e \in X
  PROVE  Memory!InsertAt(s, p + 1, e) \in Seq(X) /\ WithOne(Memory!InsertAt(s, p + 1, e), s, p, e)
<1>1. Memory!InsertAt(s, p + 1, e) = Grown(s, p, e)
  <2>1. (p + 1) - 1 = p
    OBVIOUS
  <2> QED
    BY <2>1 DEF Memory!InsertAt, Grown
<1> QED
  BY <1>1, InsertAtHas DEF WithOne

LEMMA RemovesOne ==
  ASSUME NEW X, NEW s \in Seq(X), NEW p \in 1..Len(s)
  PROVE  Memory!RemoveAt(s, p) \in Seq(X) /\ Without(Memory!RemoveAt(s, p), s, p)
<1>1. Memory!RemoveAt(s, p) = Shrunk(s, p)
  BY DEF Memory!RemoveAt, Shrunk
<1> QED
  BY <1>1, RemoveAtHas DEF Without

-----------------------------------------------------------------------------
(* Lists.  The nodes of a sequence, with the head before them.             *)

At(s, i) == IF i = 0 THEN ListHead ELSE IF i > Len(s) THEN NilNode ELSE s[i]
IsList(s) == s \in Seq(Elems) /\ \A i, j \in 1..Len(s) : s[i] = s[j] => i = j

Pointers == [left : [List!Nodes -> List!Nodes \union {NilNode}],
             right : [List!Nodes -> List!Nodes \union {NilNode}]]

\* The pointers g spell the sequence s.
Spells(g, s) ==
  /\ g \in Pointers
  /\ \A i \in 0..Len(s) : g.right[At(s, i)] = At(s, i + 1)
  /\ \A i \in 1..Len(s) : g.left[At(s, i)] = At(s, i - 1)
  /\ g.left[ListHead] = NilNode
  /\ \A n \in Elems \ List!ToSet(s) : g.left[n] = NilNode /\ g.right[n] = NilNode

ListInv == IsList(list) /\ Spells(gl, list)

LEMMA NodesAre ==
  /\ List!Nodes = Elems \union {ListHead} /\ ListHead \notin Elems /\ NilNode \notin List!Nodes
  /\ KeyOf \in [Elems -> Int]
BY ListAssumption DEF List!ListAssumption, List!Nodes

LEMMA AtIs ==
  ASSUME NEW s, IsList(s)
  PROVE  /\ Len(s) \in Nat /\ At(s, 0) = ListHead /\ At(s, Len(s) + 1) = NilNode
         /\ \A i \in 1..Len(s) : At(s, i) = s[i] /\ At(s, i) \in Elems
         /\ \A i \in 0..Len(s) : At(s, i) \in List!Nodes /\ At(s, i) # NilNode
         /\ \A i, j \in 0..(Len(s) + 1) : At(s, i) = At(s, j) => i = j
         /\ \A n : n \in List!ToSet(s) <=> \E i \in 1..Len(s) : At(s, i) = n
         /\ List!ToSet(s) \subseteq Elems
<1>1. Len(s) \in Nat /\ DOMAIN s = 1..Len(s) /\ \A i \in 1..Len(s) : s[i] \in Elems
  BY DEF IsList
<1>2. \A i \in 1..Len(s) : At(s, i) = s[i] /\ At(s, i) \in Elems
  BY <1>1 DEF At
<1>3. At(s, 0) = ListHead /\ At(s, Len(s) + 1) = NilNode
  BY <1>1 DEF At
<1>4. \A i \in 0..Len(s) : At(s, i) \in List!Nodes /\ At(s, i) # NilNode
  BY <1>1, <1>2, <1>3, NodesAre
<1>5. ASSUME NEW i \in 0..(Len(s) + 1), NEW j \in 0..(Len(s) + 1), At(s, i) = At(s, j) PROVE i = j
  <2>1. \A k \in 0..(Len(s) + 1) : k = 0 \/ k \in 1..Len(s) \/ k = Len(s) + 1
    BY <1>1
  <2>2. \A k \in 1..Len(s) : At(s, k) # ListHead /\ At(s, k) # NilNode /\ ListHead # NilNode
    BY <1>2, NodesAre
  <2>3. ListHead # NilNode
    BY NodesAre
  <2> QED
    BY <1>2, <1>3, <1>5, <2>1, <2>2, <2>3 DEF IsList
<1>6. \A n : n \in List!ToSet(s) <=> \E i \in 1..Len(s) : At(s, i) = n
  BY <1>1, <1>2 DEF List!ToSet
<1> QED
  BY <1>1, <1>2, <1>3, <1>4, <1>5, <1>6

\* A sequence with one more node at place p + 1, or without the one at p.
IsInserted(s, t, p, n) ==
  /\ IsList(t) /\ Len(t) = Len(s) + 1
  /\ \A i \in 0..(Len(t) + 1) : At(t, i) = IF i <= p THEN At(s, i) ELSE IF i = p + 1 THEN n ELSE At(s, i - 1)
  /\ List!ToSet(t) = List!ToSet(s) \union {n}
IsRemoved(s, t, p) ==
  /\ IsList(t) /\ Len(t) = Len(s) - 1
  /\ \A i \in 0..(Len(t) + 1) : At(t, i) = IF i < p THEN At(s, i) ELSE At(s, i + 1)
  /\ List!ToSet(t) = List!ToSet(s) \ {At(s, p)}

LEMMA InsertedIs ==
  ASSUME NEW s, IsList(s), NEW p \in 0..Len(s), NEW n \in Elems, n \notin List!ToSet(s),
         NEW t, Len(t) = Len(s) + 1, t \in Seq(Elems),
         \A i \in 1..Len(t) : t[i] = IF i <= p THEN s[i] ELSE IF i = p + 1 THEN n ELSE s[i - 1]
  PROVE  IsInserted(s, t, p, n)
<1>1. Len(s) \in Nat /\ p \in Nat /\ p <= Len(s)
  BY AtIs
<1>2. \A i \in 1..Len(t) : \/ i <= p /\ i \in 1..Len(s) /\ t[i] = s[i]
                           \/ i = p + 1 /\ t[i] = n
                           \/ i > p + 1 /\ i - 1 \in 1..Len(s) /\ t[i] = s[i - 1]
  BY <1>1
<1>3. \A i \in 1..Len(s) : s[i] # n
  BY AtIs
<1>4. IsList(t)
  <2> SUFFICES ASSUME NEW i \in 1..Len(t), NEW j \in 1..Len(t), t[i] = t[j] PROVE i = j
    BY DEF IsList
  <2>1. \A k, l \in 1..Len(s) : s[k] = s[l] => k = l
    BY DEF IsList
  <2>2. CASE i = p + 1 \/ j = p + 1
    BY <1>2, <1>3, <2>2, SMTT(30)
  <2>3. CASE i # p + 1 /\ j # p + 1
    <3> DEFINE k == IF i <= p THEN i ELSE i - 1
               l == IF j <= p THEN j ELSE j - 1
    <3>1. k \in 1..Len(s) /\ t[i] = s[k] /\ l \in 1..Len(s) /\ t[j] = s[l]
      BY <1>1, <1>2, <2>3
    <3>2. k = l
      BY <2>1, <3>1
    <3> QED
      BY <1>1, <2>3, <3>2
  <2> QED
    BY <2>2, <2>3
<1>5. \A i \in 0..(Len(t) + 1) : At(t, i) = IF i <= p THEN At(s, i) ELSE IF i = p + 1 THEN n ELSE At(s, i - 1)
  BY <1>1, <1>2 DEF At
<1>6. ASSUME NEW m PROVE m \in List!ToSet(t) <=> m \in List!ToSet(s) \union {n}
  <2>1. m \in List!ToSet(t) <=> \E i \in 1..Len(t) : t[i] = m
    BY <1>4, AtIs
  <2>2. m \in List!ToSet(s) <=> \E i \in 1..Len(s) : s[i] = m
    BY AtIs
  <2>3. p + 1 \in 1..Len(t) /\ t[p + 1] = n
    BY <1>1
  <2>4. \A i \in 1..Len(s) : \E j \in 1..Len(t) : t[j] = s[i]
    <3> SUFFICES ASSUME NEW i \in 1..Len(s) PROVE \E j \in 1..Len(t) : t[j] = s[i]
      OBVIOUS
    <3>1. CASE i <= p
      BY <1>1, <3>1
    <3>2. CASE i > p
      <4>1. i + 1 \in 1..Len(t) /\ t[i + 1] = s[i]
        BY <1>1, <3>2
      <4> QED
        BY <4>1
    <3> QED
      BY <1>1, <3>1, <3>2
  <2> QED
    BY <1>2, <2>1, <2>2, <2>3, <2>4
<1> QED
  BY <1>4, <1>5, <1>6 DEF IsInserted

LEMMA InsertAtIs ==
  ASSUME NEW s, IsList(s), NEW p \in 0..Len(s), NEW n \in Elems, n \notin List!ToSet(s)
  PROVE  IsInserted(s, List!InsertAt(s, p + 1, n), p, n)
<1> DEFINE t == List!InsertAt(s, p + 1, n)
<1>1. Len(s) \in Nat /\ s \in Seq(Elems)
  BY AtIs DEF IsList
<1>2. t = Grown(s, p, n)
  <2>1. (p + 1) - 1 = p
    BY <1>1
  <2> QED
    BY <2>1 DEF List!InsertAt, Grown
<1> HIDE DEF t
<1>3. /\ t \in Seq(Elems) /\ Len(t) = Len(s) + 1
      /\ \A i \in 1..Len(t) : t[i] = IF i <= p THEN s[i] ELSE IF i = p + 1 THEN n ELSE s[i - 1]
  <2>1. Grown(s, p, n) \in Seq(Elems) /\ Len(Grown(s, p, n)) = Len(s) + 1
    BY <1>1, InsertAtHas
  <2>2. \A i \in 1..(Len(s) + 1) : Grown(s, p, n)[i] = IF i <= p THEN s[i] ELSE IF i = p + 1 THEN n ELSE s[i - 1]
    BY <1>1, InsertAtHas
  <2> QED
    BY ONLY <1>2, <2>1, <2>2
<1> QED
  BY <1>3, InsertedIs DEF t

LEMMA RemoveAtIs ==
  ASSUME NEW s, IsList(s), NEW p \in 1..Len(s)
  PROVE  IsRemoved(s, List!RemoveAt(s, p), p)
<1> DEFINE t == List!RemoveAt(s, p)
<1>1. Len(s) \in Nat /\ s \in Seq(Elems) /\ \A i, j \in 1..Len(s) : s[i] = s[j] => i = j
  BY AtIs DEF IsList
<1>4. t = Shrunk(s, p)
  BY DEF List!RemoveAt, Shrunk
<1>5. t \in Seq(Elems) /\ Len(t) = Len(s) - 1
  BY <1>1, <1>4, RemoveAtHas
<1> HIDE DEF t
<1>6. \A i \in 1..Len(t) : t[i] = IF i < p THEN s[i] ELSE s[i + 1]
  BY ONLY <1>1, <1>4, <1>5, p \in 1..Len(s), RemoveAtHas
<1>7. \A i \in 1..Len(t) : \/ i < p /\ i \in 1..Len(s) /\ t[i] = s[i]
                           \/ i >= p /\ i + 1 \in 1..Len(s) /\ t[i] = s[i + 1]
  BY <1>1, <1>5, <1>6
<1>8. IsList(t)
  <2> SUFFICES ASSUME NEW i \in 1..Len(t), NEW j \in 1..Len(t), t[i] = t[j] PROVE i = j
    BY <1>5 DEF IsList
  <2> DEFINE k == IF i < p THEN i ELSE i + 1
             l == IF j < p THEN j ELSE j + 1
  <2>1. k \in 1..Len(s) /\ t[i] = s[k] /\ l \in 1..Len(s) /\ t[j] = s[l]
    BY <1>1, <1>7
  <2>2. k = l
    BY <1>1, <2>1
  <2> QED
    BY <1>1, <2>2
<1>9. \A i \in 0..(Len(t) + 1) : At(t, i) = IF i < p THEN At(s, i) ELSE At(s, i + 1)
  BY <1>1, <1>5, <1>7 DEF At
<1>10. ASSUME NEW m PROVE m \in List!ToSet(t) <=> m \in List!ToSet(s) \ {At(s, p)}
  <2>1. m \in List!ToSet(t) <=> \E i \in 1..Len(t) : t[i] = m
    BY <1>8, AtIs
  <2>2. m \in List!ToSet(s) <=> \E i \in 1..Len(s) : s[i] = m
    BY AtIs
  <2>3. At(s, p) = s[p]
    BY AtIs
  <2>4. \A i \in 1..Len(s) : i # p => \E j \in 1..Len(t) : t[j] = s[i]
    <3> SUFFICES ASSUME NEW i \in 1..Len(s), i # p PROVE \E j \in 1..Len(t) : t[j] = s[i]
      OBVIOUS
    <3>1. CASE i < p
      <4>1. i \in 1..Len(t) /\ t[i] = s[i]
        BY <1>1, <1>5, <1>6, <3>1
      <4> QED
        BY <4>1
    <3>2. CASE i > p
      <4>1. i - 1 \in 1..Len(t) /\ (i - 1) + 1 = i /\ ~(i - 1 < p)
        BY <1>1, <1>5, <3>2
      <4>2. t[i - 1] = s[i]
        BY <1>6, <4>1
      <4> QED
        BY <4>1, <4>2
    <3> QED
      BY <1>1, <3>1, <3>2
  <2>5. \A i \in 1..Len(t) : t[i] # s[p]
    BY <1>1, <1>7
  <2> QED
    BY <1>7, <2>1, <2>2, <2>3, <2>4, <2>5
<1> QED
  BY <1>5, <1>8, <1>9, <1>10 DEF IsRemoved, t

LEMMA TailRemoves ==
  ASSUME NEW s, IsList(s), s # <<>>
  PROVE  Tail(s) = List!RemoveAt(s, 1) /\ 1 \in 1..Len(s)
<1>1. s \in Seq(Elems) /\ Len(s) \in Nat \ {0}
  BY DEF IsList
<1>2. SubSeq(s, 1, 1 - 1) = <<>>
  BY <1>1
<1>3. SubSeq(s, 1 + 1, Len(s)) = Tail(s) /\ Tail(s) \in Seq(Elems)
  BY <1>1
<1>4. <<>> \o Tail(s) = Tail(s)
  BY <1>3, ConcatEmptySeq
<1> QED
  BY <1>1, <1>2, <1>3, <1>4 DEF List!RemoveAt

-----------------------------------------------------------------------------
(* What the operations make of the pointers. *)

\* The pointers with n between c and temp; temp may be no node.
IsAdded(g, h, c, temp, n) ==
  /\ h \in Pointers
  /\ \A x \in List!Nodes : h.right[x] = IF x = c THEN n ELSE IF x = n THEN temp ELSE g.right[x]
  /\ \A x \in List!Nodes : h.left[x] = IF x = n THEN c ELSE IF x = temp THEN n ELSE g.left[x]

LEMMA AddedSpells ==
  ASSUME NEW g, NEW h, NEW s, NEW t, NEW p \in 0..Len(s), NEW n \in Elems,
         IsList(s), Spells(g, s), n \notin List!ToSet(s), IsInserted(s, t, p, n),
         IsAdded(g, h, At(s, p), At(s, p + 1), n)
  PROVE  Spells(h, t)
<1> DEFINE c == At(s, p)
           temp == At(s, p + 1)
<1>1. /\ Len(s) \in Nat /\ p \in Nat /\ Len(t) = Len(s) + 1
      /\ n \in List!Nodes /\ n # NilNode /\ c \in List!Nodes /\ c # NilNode /\ c # n
  BY AtIs, NodesAre DEF IsInserted
<1>2. g.right[c] = temp /\ temp \in List!Nodes \union {NilNode} /\ temp # n /\ temp # c
  <2>1. temp \in List!Nodes \union {NilNode} /\ temp # n
    BY <1>1, AtIs, NodesAre
  <2>2. p + 1 \in 0..(Len(s) + 1) /\ p \in 0..(Len(s) + 1) /\ p + 1 # p
    BY <1>1
  <2>3. temp # c
    BY <2>2, AtIs
  <2> QED
    BY <2>1, <2>3 DEF Spells
<1>3. /\ \A x \in List!Nodes : h.right[x] = IF x = c THEN n ELSE IF x = n THEN temp ELSE g.right[x]
      /\ \A x \in List!Nodes : h.left[x] = IF x = n THEN c ELSE IF x = temp THEN n ELSE g.left[x]
      /\ h \in Pointers
  BY DEF IsAdded
<1>4. \A i \in 0..(Len(t) + 1) : At(t, i) = IF i <= p THEN At(s, i) ELSE IF i = p + 1 THEN n ELSE At(s, i - 1)
  BY DEF IsInserted
<1>5. \A i, j \in 0..(Len(s) + 1) : At(s, i) = At(s, j) => i = j
  BY AtIs
<1>6. \A i \in 0..Len(s) : At(s, i) # n /\ At(s, i) \in List!Nodes
  BY AtIs, NodesAre
<1>7. ASSUME NEW i \in 0..Len(t) PROVE h.right[At(t, i)] = At(t, i + 1)
  <2>1. CASE i < p
    <3>1. i \in 0..Len(s) /\ i # p /\ At(t, i) = At(s, i) /\ At(t, i + 1) = At(s, i + 1)
      BY <1>1, <1>4, <2>1
    <3>2. At(s, i) # c /\ At(s, i) # n /\ At(s, i) \in List!Nodes
      BY <1>1, <1>5, <1>6, <3>1
    <3> HIDE DEF c
    <3> QED
      BY <1>3, <3>1, <3>2 DEF Spells
  <2>2. CASE i = p
    <3>1. At(t, i) = c /\ At(t, i + 1) = n
      BY <1>1, <1>4, <2>2
    <3> QED
      BY <1>1, <1>3, <3>1
  <2>3. CASE i = p + 1
    <3>1. At(t, i) = n /\ At(t, i + 1) = temp
      BY <1>1, <1>4, <2>3
    <3> QED
      BY <1>1, <1>3, <3>1
  <2>4. CASE i > p + 1
    <3>1. i - 1 \in 0..Len(s) /\ i - 1 # p /\ At(t, i) = At(s, i - 1) /\ At(t, i + 1) = At(s, i) /\ (i - 1) + 1 = i
      BY <1>1, <1>4, <2>4
    <3>2. At(s, i - 1) # c /\ At(s, i - 1) # n /\ At(s, i - 1) \in List!Nodes
      BY <1>1, <1>5, <1>6, <3>1
    <3>3. g.right[At(s, i - 1)] = At(s, i)
      BY <3>1 DEF Spells
    <3> HIDE DEF c
    <3> QED
      BY <1>3, <3>1, <3>2, <3>3
  <2> QED
    BY <1>1, <2>1, <2>2, <2>3, <2>4
<1>8. ASSUME NEW i \in 1..Len(t) PROVE h.left[At(t, i)] = At(t, i - 1)
  <2>1. CASE i <= p
    <3>1. i \in 1..Len(s) /\ i # p + 1 /\ At(t, i) = At(s, i) /\ At(t, i - 1) = At(s, i - 1)
      BY <1>1, <1>4, <2>1
    <3>2. At(s, i) # temp /\ At(s, i) # n /\ At(s, i) \in List!Nodes
      BY <1>1, <1>5, <1>6, <3>1
    <3>3. g.left[At(s, i)] = At(s, i - 1)
      BY <3>1 DEF Spells
    <3> HIDE DEF temp
    <3> QED
      BY <1>3, <3>1, <3>2, <3>3
  <2>2. CASE i = p + 1
    <3>1. At(t, i) = n /\ At(t, i - 1) = c
      BY <1>1, <1>4, <2>2
    <3> QED
      BY <1>1, <1>3, <3>1
  <2>3. CASE i = p + 2
    <3>1. At(t, i) = temp /\ At(t, i - 1) = n /\ p + 1 \in 0..Len(s)
      BY <1>1, <1>4, <2>3
    <3>2. temp \in List!Nodes
      BY <1>6, <3>1
    <3> QED
      BY <1>2, <1>3, <3>1, <3>2
  <2>4. CASE i > p + 2
    <3>1. /\ i - 1 \in 1..Len(s) /\ i - 1 # p + 1 /\ At(t, i) = At(s, i - 1)
          /\ At(t, i - 1) = At(s, (i - 1) - 1)
      BY <1>1, <1>4, <2>4
    <3>2. At(s, i - 1) # temp /\ At(s, i - 1) # n /\ At(s, i - 1) \in List!Nodes
      BY <1>1, <1>5, <1>6, <3>1
    <3>3. g.left[At(s, i - 1)] = At(s, (i - 1) - 1)
      BY <3>1 DEF Spells
    <3> HIDE DEF temp
    <3> QED
      BY <1>3, <3>1, <3>2, <3>3
  <2> QED
    BY <1>1, <2>1, <2>2, <2>3, <2>4
<1>9. h.left[ListHead] = NilNode
  <2>1. ListHead \in List!Nodes /\ ListHead # n /\ g.left[ListHead] = NilNode
    BY NodesAre DEF Spells
  <2>2. temp # ListHead
    <3>1. At(s, 0) = ListHead /\ 0 \in 0..(Len(s) + 1) /\ p + 1 \in 0..(Len(s) + 1) /\ p + 1 # 0
      BY <1>1, AtIs
    <3> QED
      BY <1>5, <3>1
  <2> QED
    BY <1>3, <2>1, <2>2
<1>10. ASSUME NEW m \in Elems \ List!ToSet(t) PROVE h.left[m] = NilNode /\ h.right[m] = NilNode
  <2>1. m \in List!Nodes /\ m # n /\ m \notin List!ToSet(s) /\ m # ListHead
    BY NodesAre DEF IsInserted
  <2>2. \A i \in 0..Len(s) : At(s, i) # m
    BY <2>1, AtIs
  <2>3. m # c /\ m # temp
    BY <1>1, <2>1, <2>2, AtIs, NodesAre
  <2>4. g.left[m] = NilNode /\ g.right[m] = NilNode
    BY <2>1 DEF Spells
  <2> QED
    BY <1>3, <2>1, <2>3, <2>4
<1> QED
  BY <1>3, <1>7, <1>8, <1>9, <1>10 DEF Spells

LEMMA PointersAre ==
  ASSUME NEW g \in Pointers
  PROVE  /\ g.left \in [List!Nodes -> List!Nodes \union {NilNode}]
         /\ g.right \in [List!Nodes -> List!Nodes \union {NilNode}]
         /\ DOMAIN g.right = List!Nodes /\ DOMAIN g.left = List!Nodes
BY DEF Pointers

\* glthread_add_next, after c, when n is in no list
LEMMA AddNextIs ==
  ASSUME NEW g \in Pointers, NEW c \in List!Nodes, NEW n \in List!Nodes, n # c,
         g.right[n] = NilNode, g.right[c] # n, g.right[c] # c
  PROVE  IsAdded(g, List!glthread_add_next(g, c, n), c, g.right[c], n)
<1> DEFINE temp == g.right[c]
           h == List!glthread_add_next(g, c, n)
<1>1. /\ g.left \in [List!Nodes -> List!Nodes \union {NilNode}]
      /\ g.right \in [List!Nodes -> List!Nodes \union {NilNode}] /\ NilNode \notin List!Nodes
  BY PointersAre, NodesAre
<1>2. CASE temp = NilNode
  <2> DEFINE L == [g.left EXCEPT ![n] = c]
             R == [g.right EXCEPT ![c] = n]
  <2>1. h = [left |-> L, right |-> R]
    BY <1>2 DEF List!glthread_add_next
  <2>2. \A x \in List!Nodes : R[x] = IF x = c THEN n ELSE IF x = n THEN temp ELSE g.right[x]
    BY <1>1, <1>2
  <2>3. \A x \in List!Nodes : L[x] = IF x = n THEN c ELSE IF x = temp THEN n ELSE g.left[x]
    BY <1>1, <1>2
  <2>4. L \in [List!Nodes -> List!Nodes \union {NilNode}] /\ R \in [List!Nodes -> List!Nodes \union {NilNode}]
    BY <1>1
  <2> HIDE DEF L, R
  <2>5. h.left = L /\ h.right = R /\ h \in Pointers
    BY <2>1, <2>4 DEF Pointers
  <2> QED
    BY <2>2, <2>3, <2>5 DEF IsAdded
<1>3. CASE temp # NilNode
  <2> DEFINE L1 == [g.left EXCEPT ![n] = c]
             L == [L1 EXCEPT ![temp] = n]
             R1 == [g.right EXCEPT ![c] = n]
             R == [R1 EXCEPT ![n] = temp]
  <2>1. h = [left |-> L, right |-> R]
    BY <1>3 DEF List!glthread_add_next
  <2>2. temp \in List!Nodes
    BY <1>1, <1>3
  <2>3. R1 \in [List!Nodes -> List!Nodes \union {NilNode}] /\ L1 \in [List!Nodes -> List!Nodes \union {NilNode}]
    BY <1>1
  <2>4. \A x \in List!Nodes : R[x] = IF x = c THEN n ELSE IF x = n THEN temp ELSE g.right[x]
    BY <1>1, <2>2
  <2>5. \A x \in List!Nodes : L[x] = IF x = n THEN c ELSE IF x = temp THEN n ELSE g.left[x]
    BY <1>1, <2>2
  <2>6. L \in [List!Nodes -> List!Nodes \union {NilNode}] /\ R \in [List!Nodes -> List!Nodes \union {NilNode}]
    <3> HIDE DEF L1, R1
    <3> QED
      BY <2>2, <2>3
  <2> HIDE DEF L, R
  <2>7. h.left = L /\ h.right = R /\ h \in Pointers
    BY <2>1, <2>6 DEF Pointers
  <2> QED
    BY <2>4, <2>5, <2>7 DEF IsAdded
<1> QED
  BY <1>2, <1>3

\* glthread_add_before: n comes between c and the node before it.
LEMMA AddBeforeIs ==
  ASSUME NEW g \in Pointers, NEW c \in List!Nodes, NEW n \in List!Nodes, n # c,
         NEW temp \in List!Nodes, g.left[c] = temp, temp # n, temp # c
  PROVE  IsAdded(g, List!glthread_add_before(g, c, n), temp, c, n)
<1> DEFINE h == List!glthread_add_before(g, c, n)
           L1 == [g.left EXCEPT ![n] = temp]
           L == [L1 EXCEPT ![c] = n]
           R1 == [g.right EXCEPT ![temp] = n]
           R == [R1 EXCEPT ![n] = c]
<1>1. /\ g.left \in [List!Nodes -> List!Nodes \union {NilNode}]
      /\ g.right \in [List!Nodes -> List!Nodes \union {NilNode}] /\ NilNode \notin List!Nodes
  BY PointersAre, NodesAre
<1>2. h = [left |-> L, right |-> R]
  BY <1>1 DEF List!glthread_add_before
<1>3. R1 \in [List!Nodes -> List!Nodes \union {NilNode}] /\ L1 \in [List!Nodes -> List!Nodes \union {NilNode}]
  BY <1>1
<1>4. \A x \in List!Nodes : R[x] = IF x = temp THEN n ELSE IF x = n THEN c ELSE g.right[x]
  BY <1>1
<1>5. \A x \in List!Nodes : L[x] = IF x = n THEN temp ELSE IF x = c THEN n ELSE g.left[x]
  BY <1>1
<1>6. L \in [List!Nodes -> List!Nodes \union {NilNode}] /\ R \in [List!Nodes -> List!Nodes \union {NilNode}]
  <2> HIDE DEF L1, R1
  <2> QED
    BY <1>3
<1> HIDE DEF L, R
<1>7. h.left = L /\ h.right = R /\ h \in Pointers
  BY <1>2, <1>6 DEF Pointers
<1> QED
  BY <1>4, <1>5, <1>7 DEF IsAdded

\* Next to a node of the list: after the one at place p, or before the one at p + 1.
LEMMA AddedNext ==
  ASSUME NEW g, NEW s, NEW t, NEW p \in 0..Len(s), NEW n \in Elems,
         IsList(s), Spells(g, s), n \notin List!ToSet(s), IsInserted(s, t, p, n)
  PROVE  Spells(List!glthread_add_next(g, At(s, p), n), t)
<1> DEFINE c == At(s, p)
<1>1. Len(s) \in Nat /\ p + 1 \in 0..(Len(s) + 1) /\ p \in 0..(Len(s) + 1) /\ p + 1 # p
  BY AtIs
<1>2. c \in List!Nodes /\ n \in List!Nodes /\ n # c
  BY AtIs, NodesAre
<1>3. g \in Pointers /\ g.right[c] = At(s, p + 1) /\ g.right[n] = NilNode
  BY DEF Spells
<1>4. At(s, p + 1) # n
  BY <1>1, AtIs, NodesAre
<1>5. At(s, p + 1) # c
  BY <1>1, AtIs
<1> HIDE DEF c
<1>6. IsAdded(g, List!glthread_add_next(g, c, n), c, g.right[c], n)
  BY <1>2, <1>3, <1>4, <1>5, AddNextIs
<1> QED
  BY <1>3, <1>6, AddedSpells DEF c

LEMMA AddedBefore ==
  ASSUME NEW g, NEW s, NEW t, NEW p \in 0..Len(s), p < Len(s), NEW n \in Elems,
         IsList(s), Spells(g, s), n \notin List!ToSet(s), IsInserted(s, t, p, n)
  PROVE  Spells(List!glthread_add_before(g, At(s, p + 1), n), t)
<1> DEFINE c == At(s, p + 1)
           temp == At(s, p)
<1>1. /\ Len(s) \in Nat /\ p + 1 \in 1..Len(s) /\ p + 1 \in 0..(Len(s) + 1) /\ p \in 0..(Len(s) + 1)
      /\ p + 1 # p /\ (p + 1) - 1 = p
  BY AtIs
<1>2. c \in List!Nodes /\ n \in List!Nodes /\ n # c /\ temp \in List!Nodes /\ temp # n
  BY <1>1, AtIs, NodesAre
<1>3. g \in Pointers /\ g.left[c] = temp
  BY <1>1 DEF Spells
<1>4. temp # c
  BY <1>1, AtIs
<1> HIDE DEF c, temp
<1>5. IsAdded(g, List!glthread_add_before(g, c, n), temp, c, n)
  BY <1>2, <1>3, <1>4, AddBeforeIs
<1> QED
  BY <1>5, AddedSpells DEF c, temp

\* The pointers without c, which was between l and r.
IsCut(g, h, l, c, r) ==
  /\ h \in Pointers
  /\ \A x \in List!Nodes : h.right[x] = IF x = c THEN NilNode ELSE IF x = l THEN r ELSE g.right[x]
  /\ \A x \in List!Nodes : h.left[x] = IF x = c THEN NilNode ELSE IF x = r THEN l ELSE g.left[x]

LEMMA RemoveIs ==
  ASSUME NEW g \in Pointers, NEW c \in List!Nodes, NEW l \in List!Nodes, g.left[c] = l
  PROVE  IsCut(g, List!remove_glthread(g, c), l, c, g.right[c])
<1> DEFINE r == g.right[c]
           h == List!remove_glthread(g, c)
           L1 == IF r = NilNode THEN g.left ELSE [g.left EXCEPT ![r] = l]
           L == [L1 EXCEPT ![c] = NilNode]
           R1 == [g.right EXCEPT ![l] = r]
           R == [R1 EXCEPT ![c] = NilNode]
<1>1. /\ g.left \in [List!Nodes -> List!Nodes \union {NilNode}]
      /\ g.right \in [List!Nodes -> List!Nodes \union {NilNode}] /\ NilNode \notin List!Nodes
  BY PointersAre, NodesAre
<1>2. h = [left |-> L, right |-> R]
  BY <1>1 DEF List!remove_glthread, List!relinked
<1>3. R1 \in [List!Nodes -> List!Nodes \union {NilNode}]
  BY <1>1
<1>4. /\ L1 \in [List!Nodes -> List!Nodes \union {NilNode}]
      /\ \A x \in List!Nodes : L1[x] = IF x = r THEN l ELSE g.left[x]
  <2>1. CASE r = NilNode
    BY <1>1, <2>1
  <2>2. CASE r # NilNode
    <3>1. r \in List!Nodes /\ L1 = [g.left EXCEPT ![r] = l]
      BY <1>1, <2>2
    <3> HIDE DEF L1
    <3> QED
      BY <1>1, <3>1
  <2> QED
    BY <2>1, <2>2
<1>5. \A x \in List!Nodes : R[x] = IF x = c THEN NilNode ELSE IF x = l THEN r ELSE g.right[x]
  BY <1>1
<1> HIDE DEF L1
<1>6. \A x \in List!Nodes : L[x] = IF x = c THEN NilNode ELSE IF x = r THEN l ELSE g.left[x]
  BY <1>4
<1>7. L \in [List!Nodes -> List!Nodes \union {NilNode}] /\ R \in [List!Nodes -> List!Nodes \union {NilNode}]
  <2> HIDE DEF R1
  <2> QED
    BY <1>3, <1>4
<1> HIDE DEF L, R
<1>8. h.left = L /\ h.right = R /\ h \in Pointers
  BY <1>2, <1>7 DEF Pointers
<1> QED
  BY <1>5, <1>6, <1>8 DEF IsCut

LEMMA CutSpells ==
  ASSUME NEW g, NEW h, NEW s, NEW t, NEW p \in 1..Len(s),
         IsList(s), Spells(g, s), IsRemoved(s, t, p),
         IsCut(g, h, At(s, p - 1), At(s, p), At(s, p + 1))
  PROVE  Spells(h, t)
<1> DEFINE l == At(s, p - 1)
           c == At(s, p)
           r == At(s, p + 1)
<1>1. /\ Len(s) \in Nat /\ p \in Nat /\ p > 0 /\ Len(t) = Len(s) - 1
      /\ p - 1 \in 0..Len(s) /\ p + 1 \in 0..(Len(s) + 1)
  BY AtIs DEF IsRemoved
<1>2. /\ \A x \in List!Nodes : h.right[x] = IF x = c THEN NilNode ELSE IF x = l THEN r ELSE g.right[x]
      /\ \A x \in List!Nodes : h.left[x] = IF x = c THEN NilNode ELSE IF x = r THEN l ELSE g.left[x]
      /\ h \in Pointers
  BY DEF IsCut
<1>3. \A i \in 0..(Len(t) + 1) : At(t, i) = IF i < p THEN At(s, i) ELSE At(s, i + 1)
  BY DEF IsRemoved
<1>4. \A i, j \in 0..(Len(s) + 1) : At(s, i) = At(s, j) => i = j
  BY AtIs
<1>5. \A i \in 0..Len(s) : At(s, i) \in List!Nodes
  BY AtIs
<1>6. ASSUME NEW i \in 0..Len(t) PROVE h.right[At(t, i)] = At(t, i + 1)
  <2>1. CASE i < p - 1
    <3>1. i \in 0..Len(s) /\ i # p /\ i # p - 1 /\ At(t, i) = At(s, i) /\ At(t, i + 1) = At(s, i + 1)
      BY <1>1, <1>3, <2>1
    <3>2. At(s, i) # c /\ At(s, i) # l /\ At(s, i) \in List!Nodes
      BY <1>1, <1>4, <1>5, <3>1
    <3> HIDE DEF c, l
    <3> QED
      BY <1>2, <3>1, <3>2 DEF Spells
  <2>2. CASE i = p - 1
    <3>1. At(t, i) = l /\ At(t, i + 1) = r
      BY <1>1, <1>3, <2>2
    <3>2. l # c /\ l \in List!Nodes
      BY <1>1, <1>4, <1>5
    <3> QED
      BY <1>2, <3>1, <3>2
  <2>3. CASE i > p - 1
    <3>1. i + 1 \in 0..Len(s) /\ i + 1 # p /\ i + 1 # p - 1 /\ At(t, i) = At(s, i + 1)
          /\ At(t, i + 1) = At(s, (i + 1) + 1)
      BY <1>1, <1>3, <2>3
    <3>2. At(s, i + 1) # c /\ At(s, i + 1) # l /\ At(s, i + 1) \in List!Nodes
      BY <1>1, <1>4, <1>5, <3>1
    <3>3. g.right[At(s, i + 1)] = At(s, (i + 1) + 1)
      BY <3>1 DEF Spells
    <3> HIDE DEF c, l
    <3> QED
      BY <1>2, <3>1, <3>2, <3>3
  <2> QED
    BY <1>1, <2>1, <2>2, <2>3
<1>7. ASSUME NEW i \in 1..Len(t) PROVE h.left[At(t, i)] = At(t, i - 1)
  <2>1. CASE i < p
    <3>1. i \in 1..Len(s) /\ i # p /\ i # p + 1 /\ At(t, i) = At(s, i) /\ At(t, i - 1) = At(s, i - 1)
      BY <1>1, <1>3, <2>1
    <3>2. At(s, i) # c /\ At(s, i) # r /\ At(s, i) \in List!Nodes
      BY <1>1, <1>4, <1>5, <3>1
    <3>3. g.left[At(s, i)] = At(s, i - 1)
      BY <3>1 DEF Spells
    <3> HIDE DEF c, r
    <3> QED
      BY <1>2, <3>1, <3>2, <3>3
  <2>2. CASE i = p
    <3>1. At(t, i) = r /\ At(t, i - 1) = l /\ p + 1 \in 0..Len(s) /\ p + 1 # p
      BY <1>1, <1>3, <2>2
    <3>2. r # c /\ r \in List!Nodes
      BY <1>1, <1>4, <1>5, <3>1
    <3> QED
      BY <1>2, <3>1, <3>2
  <2>3. CASE i > p
    <3>1. /\ i + 1 \in 1..Len(s) /\ i + 1 # p /\ i + 1 # p + 1 /\ At(t, i) = At(s, i + 1)
          /\ At(t, i - 1) = At(s, i) /\ (i + 1) - 1 = i
      BY <1>1, <1>3, <2>3
    <3>2. At(s, i + 1) # c /\ At(s, i + 1) # r /\ At(s, i + 1) \in List!Nodes
      BY <1>1, <1>4, <1>5, <3>1
    <3>3. g.left[At(s, i + 1)] = At(s, i)
      BY <3>1 DEF Spells
    <3> HIDE DEF c, r
    <3> QED
      BY <1>2, <3>1, <3>2, <3>3
  <2> QED
    BY <1>1, <2>1, <2>2, <2>3
<1>8. h.left[ListHead] = NilNode
  <2>1. ListHead \in List!Nodes /\ g.left[ListHead] = NilNode
    BY NodesAre DEF Spells
  <2>2. At(s, 0) = ListHead /\ 0 \in 0..(Len(s) + 1) /\ p + 1 # 0
    BY <1>1, AtIs
  <2>3. r # ListHead
    BY <1>1, <1>4, <2>2
  <2> QED
    BY <1>2, <2>1, <2>3
<1>9. ASSUME NEW m \in Elems \ List!ToSet(t) PROVE h.left[m] = NilNode /\ h.right[m] = NilNode
  <2>1. CASE m = c
    <3>1. m \in List!Nodes
      BY NodesAre
    <3> QED
      BY <1>2, <2>1, <3>1
  <2>2. CASE m # c
    <3>1. m \in List!Nodes /\ m \notin List!ToSet(s) /\ m # ListHead /\ m # NilNode
      BY <2>2, NodesAre DEF IsRemoved
    <3>2. \A i \in 0..(Len(s) + 1) : At(s, i) # m
      <4>1. \A i \in 0..(Len(s) + 1) : i = 0 \/ i \in 1..Len(s) \/ i = Len(s) + 1
        BY <1>1
      <4> QED
        BY <3>1, <4>1, AtIs
    <3>3. m # l /\ m # r
      BY <1>1, <3>2
    <3>4. g.left[m] = NilNode /\ g.right[m] = NilNode
      BY <3>1 DEF Spells
    <3> QED
      BY <1>2, <2>2, <3>1, <3>3, <3>4
  <2> QED
    BY <2>1, <2>2
<1> QED
  BY <1>2, <1>6, <1>7, <1>8, <1>9 DEF Spells

\* remove_glthread of the node at place p
LEMMA Removed ==
  ASSUME NEW g, NEW s, NEW t, NEW p \in 1..Len(s),
         IsList(s), Spells(g, s), IsRemoved(s, t, p)
  PROVE  Spells(List!remove_glthread(g, At(s, p)), t)
<1>1. Len(s) \in Nat /\ p \in 0..Len(s) /\ p - 1 \in 0..Len(s)
  BY AtIs
<1>2. At(s, p) \in List!Nodes /\ At(s, p - 1) \in List!Nodes
  BY <1>1, AtIs
<1>3. g \in Pointers /\ g.left[At(s, p)] = At(s, p - 1) /\ g.right[At(s, p)] = At(s, p + 1)
  BY <1>1 DEF Spells
<1>4. IsCut(g, List!remove_glthread(g, At(s, p)), At(s, p - 1), At(s, p), g.right[At(s, p)])
  BY <1>2, <1>3, RemoveIs
<1> QED
  BY <1>3, <1>4, CutSpells

\* Nothing happens to a node in no list.
LEMMA NotRemoved ==
  ASSUME NEW g, NEW s, Spells(g, s), NEW n \in Elems, n \notin List!ToSet(s)
  PROVE  List!remove_glthread(g, n) = g
BY DEF Spells, List!remove_glthread

-----------------------------------------------------------------------------
(* The walks. *)

\* A walk from the head through A passes the nodes up to the last one in A.
LEMMA WalkIs ==
  ASSUME NEW g, NEW s, IsList(s), Spells(g, s), NEW A, NEW k \in 0..Len(s),
         \A i \in 1..k : At(s, i) \in A, At(s, k + 1) \notin A
  PROVE  /\ List!Walk(g, ListHead, A) = {At(s, i) : i \in 0..k}
         /\ List!WalkEnds(g, ListHead, A) = {At(s, k)}
<1> DEFINE W == {At(s, i) : i \in 0..k}
<1>1. Len(s) \in Nat /\ k \in Nat /\ k <= Len(s) /\ At(s, 0) = ListHead
  BY AtIs
<1>2. DOMAIN g.right = List!Nodes /\ \A i \in 0..k : g.right[At(s, i)] = At(s, i + 1) /\ At(s, i) \in List!Nodes
  BY <1>1, PointersAre, AtIs DEF Spells
<1>3. W \in SUBSET DOMAIN g.right /\ ListHead \in W
  <2>1. 0 \in 0..k
    BY <1>1
  <2>2. ListHead \in W
    BY <1>1, <2>1
  <2>3. \A x \in W : x \in DOMAIN g.right
    BY <1>2
  <2> QED
    BY <2>2, <2>3
<1>4. \A y \in W : g.right[y] \in A => g.right[y] \in W
  <2> SUFFICES ASSUME NEW i \in 0..k, g.right[At(s, i)] \in A PROVE g.right[At(s, i)] \in W
    OBVIOUS
  <2>1. g.right[At(s, i)] = At(s, i + 1)
    BY <1>2
  <2>2. i # k
    BY <2>1
  <2>3. i + 1 \in 0..k
    BY <1>1, <2>2
  <2> QED
    BY <2>1, <2>3
<1>5. ASSUME NEW S \in SUBSET DOMAIN g.right, ListHead \in S, \A y \in S : g.right[y] \in A => g.right[y] \in S
      PROVE  W \subseteq S
  <2> DEFINE I == {i \in 0..k : At(s, i) \notin S}
  <2>1. ASSUME I # {} PROVE FALSE
    <3>1. PICK i \in I : \A j \in I : i <= j
      <4>1. I \in SUBSET Nat
        BY <1>1
      <4> QED
        BY <2>1, <4>1, LeastOf
    <3>2. i # 0 /\ i \in 0..k
      BY <1>1, <1>5
    <3>3. i - 1 \in 0..k /\ i \in 1..k /\ (i - 1) + 1 = i /\ ~(i <= i - 1)
      BY <1>1, <3>2
    <3>4. At(s, i - 1) \in S
      BY <3>1, <3>3
    <3>5. g.right[At(s, i - 1)] = At(s, i) /\ At(s, i) \in A
      BY <1>2, <3>3
    <3> QED
      BY <1>5, <3>1, <3>4, <3>5
  <2> QED
    BY <2>1
<1>6. List!Walk(g, ListHead, A) = W
  <2>1. ASSUME NEW x \in W PROVE x \in List!Walk(g, ListHead, A)
    <3> HIDE DEF W
    <3> QED
      BY <1>3, <1>5, <2>1 DEF List!Walk
  <2>2. ASSUME NEW x \in List!Walk(g, ListHead, A) PROVE x \in W
    <3> HIDE DEF W
    <3> QED
      BY <1>3, <1>4, <2>2 DEF List!Walk
  <2> HIDE DEF W
  <2> QED
    BY <2>1, <2>2
<1>7. \A i \in 0..k : g.right[At(s, i)] \notin A <=> i = k
  <2> SUFFICES ASSUME NEW i \in 0..k PROVE At(s, i + 1) \notin A <=> i = k
    BY <1>2
  <2>1. i # k => i + 1 \in 1..k
    BY <1>1
  <2> QED
    BY <2>1
<1>8. List!WalkEnds(g, ListHead, A) = {x \in W : g.right[x] \notin A}
  BY <1>6 DEF List!WalkEnds
<1>9. {x \in W : g.right[x] \notin A} = {At(s, k)}
  BY <1>1, <1>7
<1> QED
  BY <1>6, <1>8, <1>9

\* The whole list: a loop over it ends, at its last node.
LEMMA WholeWalk ==
  ASSUME NEW g, NEW s, IsList(s), Spells(g, s)
  PROVE  /\ List!Walk(g, ListHead, DOMAIN g.right) = {At(s, i) : i \in 0..Len(s)}
         /\ List!IterationEnds(g, ListHead)
         /\ List!LastNode(g, ListHead) = At(s, Len(s))
<1>1. DOMAIN g.right = List!Nodes
  BY PointersAre DEF Spells
<1>2. Len(s) \in 0..Len(s) /\ At(s, Len(s) + 1) \notin List!Nodes /\ \A i \in 1..Len(s) : At(s, i) \in List!Nodes
  BY AtIs, NodesAre
<1>3. /\ List!Walk(g, ListHead, List!Nodes) = {At(s, i) : i \in 0..Len(s)}
      /\ List!WalkEnds(g, ListHead, List!Nodes) = {At(s, Len(s))}
  BY <1>2, WalkIs
<1> QED
  BY <1>1, <1>3 DEF List!IterationEnds, List!LastNode

-----------------------------------------------------------------------------
(* The operations keep the pointers and the sequence together. *)

LEMMA PlaceIs ==
  ASSUME IsList(list), NEW c \in List!Linked
  PROVE  List!Place(c) \in 1..Len(list) /\ At(list, List!Place(c)) = c
<1>1. DOMAIN list = 1..Len(list) /\ c # ListHead
  BY AtIs, NodesAre DEF IsList, List!Linked
<1>2. \E i \in 1..Len(list) : list[i] = c
  BY AtIs DEF List!Linked
<1> QED
  BY <1>1, <1>2, AtIs DEF List!Place

LEMMA HeadPlace == List!Place(ListHead) = 0
BY DEF List!Place

LEMMA ListStarts == List!Init => ListInv
<1> SUFFICES ASSUME List!Init PROVE ListInv
  OBVIOUS
<1>1. list = <<>> /\ Len(list) = 0 /\ IsList(list)
  BY DEF List!Init, IsList
<1>2. /\ gl \in Pointers
      /\ \A n \in List!Nodes : gl.left[n] = NilNode /\ gl.right[n] = NilNode
  BY DEF List!Init, Pointers
<1>3. At(list, 0) = ListHead /\ At(list, 0 + 1) = NilNode
  BY <1>1, AtIs
<1> QED
  BY <1>1, <1>2, <1>3, NodesAre DEF ListInv, Spells

LEMMA ListAddNext ==
  ASSUME ListInv, NEW c \in List!Linked \union {ListHead}, NEW n \in Elems, List!AddNext(c, n)
  PROVE  ListInv'
<1> DEFINE p == List!Place(c)
<1>1. IsList(list) /\ Spells(gl, list) /\ n \notin List!ToSet(list)
  BY DEF ListInv, List!AddNext, List!Linked
<1>2. p \in 0..Len(list) /\ At(list, p) = c
  BY <1>1, PlaceIs, HeadPlace, AtIs
<1>3. gl' = List!glthread_add_next(gl, At(list, p), n) /\ list' = List!InsertAt(list, p + 1, n)
  BY <1>2 DEF List!AddNext
<1> HIDE DEF p
<1>4. IsInserted(list, list', p, n)
  BY <1>1, <1>2, <1>3, InsertAtIs
<1>5. Spells(gl', list')
  BY <1>1, <1>2, <1>3, <1>4, AddedNext
<1> QED
  BY <1>4, <1>5 DEF ListInv, IsInserted

LEMMA ListAddBefore ==
  ASSUME ListInv, NEW c \in List!Linked, NEW n \in Elems, List!AddBefore(c, n)
  PROVE  ListInv'
<1> DEFINE p == List!Place(c) - 1
<1>1. IsList(list) /\ Spells(gl, list) /\ n \notin List!ToSet(list) /\ Len(list) \in Nat
  BY AtIs DEF ListInv, List!AddBefore, List!Linked
<1>2. p \in 0..Len(list) /\ p < Len(list) /\ At(list, p + 1) = c /\ p + 1 = List!Place(c)
  BY <1>1, PlaceIs
<1>3. gl' = List!glthread_add_before(gl, At(list, p + 1), n) /\ list' = List!InsertAt(list, p + 1, n)
  BY <1>2 DEF List!AddBefore
<1> HIDE DEF p
<1>4. IsInserted(list, list', p, n)
  BY <1>1, <1>2, <1>3, InsertAtIs
<1>5. Spells(gl', list')
  BY <1>1, <1>2, <1>3, <1>4, AddedBefore
<1> QED
  BY <1>4, <1>5 DEF ListInv, IsInserted

LEMMA ListAddLast ==
  ASSUME ListInv, NEW n \in Elems, List!AddLast(n)
  PROVE  ListInv'
<1> DEFINE p == Len(list)
<1>1. IsList(list) /\ Spells(gl, list) /\ n \notin List!ToSet(list) /\ p \in 0..Len(list)
  BY AtIs DEF ListInv, List!AddLast, List!Linked
<1>2. gl' = List!glthread_add_next(gl, At(list, p), n) /\ list' = Append(list, n)
  BY <1>1, WholeWalk DEF List!AddLast, List!glthread_add_last
<1>3. IsInserted(list, list', p, n)
  <2>1. list \in Seq(Elems)
    BY <1>1 DEF IsList
  <2>2. /\ list' \in Seq(Elems) /\ Len(list') = Len(list) + 1
        /\ \A i \in 1..Len(list') : list'[i] = IF i <= p THEN list[i] ELSE IF i = p + 1 THEN n ELSE list[i - 1]
    BY <1>2, <2>1
  <2> QED
    BY <1>1, <2>2, InsertedIs
<1>4. Spells(gl', list')
  BY <1>1, <1>2, <1>3, AddedNext
<1> QED
  BY <1>3, <1>4 DEF ListInv, IsInserted

LEMMA ListRemoveNode ==
  ASSUME ListInv, NEW n \in Elems, List!RemoveNode(n)
  PROVE  ListInv'
<1>1. IsList(list) /\ Spells(gl, list)
  BY DEF ListInv
<1>2. CASE n \in List!Linked
  <2> DEFINE p == List!Place(n)
  <2>1. p \in 1..Len(list) /\ At(list, p) = n
    BY <1>1, <1>2, PlaceIs
  <2>2. gl' = List!remove_glthread(gl, At(list, p)) /\ list' = List!RemoveAt(list, p)
    BY <1>2, <2>1 DEF List!RemoveNode
  <2> HIDE DEF p
  <2>3. IsRemoved(list, list', p)
    BY <1>1, <2>1, <2>2, RemoveAtIs
  <2>4. Spells(gl', list')
    BY <1>1, <2>1, <2>2, <2>3, Removed
  <2> QED
    BY <2>3, <2>4 DEF ListInv, IsRemoved
<1>3. CASE n \notin List!Linked
  <2>1. gl' = gl /\ list' = list
    BY <1>1, <1>3, NotRemoved DEF List!RemoveNode, List!Linked
  <2> QED
    BY <1>1, <2>1 DEF ListInv
<1> QED
  BY <1>2, <1>3

LEMMA ListDequeue ==
  ASSUME ListInv, List!DequeueFirst
  PROVE  ListInv'
<1>1. IsList(list) /\ Spells(gl, list) /\ Len(list) \in Nat
  BY AtIs DEF ListInv
<1>2. gl.right[ListHead] = At(list, 1) /\ gl.right[ListHead] # NilNode
  <2>1. 0 \in 0..Len(list) /\ At(list, 0) = ListHead /\ 0 + 1 = 1
    BY <1>1, AtIs
  <2>2. gl.right[At(list, 0)] = At(list, 0 + 1)
    BY <1>1, <2>1 DEF Spells
  <2> QED
    BY <2>1, <2>2 DEF List!DequeueFirst
<1>3. list # <<>>
  <2>1. list = <<>> => Len(list) = 0
    OBVIOUS
  <2>2. At(list, Len(list) + 1) = NilNode
    BY <1>1, AtIs
  <2> QED
    BY <1>2, <2>1, <2>2
<1>4. list' = List!RemoveAt(list, 1) /\ 1 \in 1..Len(list)
  BY <1>1, <1>3, TailRemoves DEF List!DequeueFirst
<1>5. gl' = List!remove_glthread(gl, At(list, 1))
  BY <1>2 DEF List!DequeueFirst, List!dequeue_glthread_first
<1>6. IsRemoved(list, list', 1)
  BY <1>1, <1>4, RemoveAtIs
<1>7. Spells(gl', list')
  BY <1>1, <1>4, <1>5, <1>6, Removed
<1> QED
  BY <1>6, <1>7 DEF ListInv, IsRemoved

LEMMA ListDeleteList ==
  ASSUME ListInv, List!DeleteList
  PROVE  ListInv'
<1>1. IsList(list) /\ Spells(gl, list) /\ Len(list) \in Nat
  BY AtIs DEF ListInv
<1>2. List!Walk(gl, ListHead, DOMAIN gl.right) = {At(list, i) : i \in 0..Len(list)}
  BY <1>1, WholeWalk
<1>3. List!Walk(gl, ListHead, DOMAIN gl.right) \ {ListHead} = List!ToSet(list)
  <2>1. \A x : x \in List!ToSet(list) <=> \E i \in 1..Len(list) : At(list, i) = x
    BY <1>1, AtIs
  <2>2. \A i \in 0..Len(list) : At(list, i) = ListHead <=> i = 0
    BY <1>1, AtIs
  <2>3. \A i : i \in 1..Len(list) <=> i \in 0..Len(list) /\ i # 0
    BY <1>1
  <2> QED
    BY <1>2, <2>1, <2>2, <2>3
<1>4. /\ DOMAIN gl.right = List!Nodes /\ DOMAIN gl.left = List!Nodes
      /\ gl.left \in [List!Nodes -> List!Nodes \union {NilNode}]
      /\ gl.right \in [List!Nodes -> List!Nodes \union {NilNode}]
  BY <1>1, PointersAre DEF Spells
<1> DEFINE L == [x \in List!Nodes |-> IF x \in List!ToSet(list) THEN NilNode ELSE gl.left[x]]
           R == [x \in List!Nodes |-> IF x \in List!ToSet(list) \union {ListHead} THEN NilNode ELSE gl.right[x]]
<1>5. gl' = [left |-> L, right |-> R] /\ list' = <<>>
  BY <1>3, <1>4 DEF List!DeleteList, List!delete_glthread_list
<1>6. \A x \in List!Nodes : L[x] = NilNode /\ R[x] = NilNode
  <2>1. \A x \in Elems \ List!ToSet(list) : gl.left[x] = NilNode /\ gl.right[x] = NilNode
    BY <1>1 DEF Spells
  <2>2. gl.left[ListHead] = NilNode
    BY <1>1 DEF Spells
  <2> QED
    BY <2>1, <2>2, NodesAre
<1>7. L \in [List!Nodes -> List!Nodes \union {NilNode}] /\ R \in [List!Nodes -> List!Nodes \union {NilNode}]
  BY <1>4
<1> HIDE DEF L, R
<1>8. gl'.left = L /\ gl'.right = R /\ gl' \in Pointers
  BY <1>5, <1>7 DEF Pointers
<1>9. IsList(list') /\ Len(list') = 0
  BY <1>5 DEF IsList
<1>10. At(list', 0) = ListHead /\ At(list', 0 + 1) = NilNode
  BY <1>9, AtIs
<1> QED
  BY <1>6, <1>8, <1>9, <1>10, NodesAre DEF ListInv, Spells

\* The place of glthread_priority_insert: before the first larger key.
LEMMA ByKeyIs ==
  ASSUME ListInv, NEW n \in Elems, n \notin List!Linked, List!Sorted
  PROVE  \E p \in 0..Len(list) : /\ List!InsertedByKey(n) = List!InsertAt(list, p + 1, n)
                                 /\ \A i \in 1..p : KeyOf[list[i]] <= KeyOf[n]
                                 /\ p < Len(list) => KeyOf[list[p + 1]] > KeyOf[n]
<1> DEFINE Here(i) == /\ i <= Len(list) => KeyOf[list[i]] > KeyOf[n]
                      /\ \A j \in 1..(i - 1) : KeyOf[list[j]] <= KeyOf[n]
           q == CHOOSE i \in 1..(Len(list) + 1) : Here(i)
<1>1. Len(list) \in Nat /\ IsList(list) /\ \A i \in 1..Len(list) : KeyOf[list[i]] \in Int
  <2>1. IsList(list)
    BY DEF ListInv
  <2> QED
    BY <2>1, AtIs, NodesAre
<1>2. KeyOf[n] \in Int
  BY NodesAre
<1>3. \E i \in 1..(Len(list) + 1) : Here(i)
  <2> DEFINE I == {i \in 1..(Len(list) + 1) : i <= Len(list) => KeyOf[list[i]] > KeyOf[n]}
  <2>1. I \in SUBSET Nat /\ Len(list) + 1 \in I
    BY <1>1
  <2>2. PICK i \in I : \A j \in I : i <= j
    BY <2>1, LeastOf
  <2>3. i \in 1..(Len(list) + 1) /\ (i <= Len(list) => KeyOf[list[i]] > KeyOf[n])
    BY <2>2
  <2>4. ASSUME NEW j \in 1..(i - 1) PROVE KeyOf[list[j]] <= KeyOf[n]
    <3>1. j \in 1..Len(list) /\ ~(i <= j)
      BY <1>1, <2>3
    <3>2. j \notin I
      BY <2>2, <3>1
    <3>3. ~(KeyOf[list[j]] > KeyOf[n])
      BY <1>1, <3>1, <3>2
    <3> QED
      BY <1>1, <1>2, <3>1, <3>3
  <2> QED
    BY <2>3, <2>4
<1>4. q \in 1..(Len(list) + 1) /\ Here(q)
  BY <1>3
<1>5. List!InsertedByKey(n) = List!InsertAt(list, q, n)
  BY DEF List!InsertedByKey
<1> HIDE DEF q
<1>6. q - 1 \in 0..Len(list) /\ (q - 1) + 1 = q /\ (q - 1 < Len(list) => q <= Len(list))
  BY <1>1, <1>4
<1> QED
  BY <1>4, <1>5, <1>6

LEMMA ListPriorityInsert ==
  ASSUME ListInv, NEW n \in Elems, List!PriorityInsert(n)
  PROVE  ListInv'
<1>1. IsList(list) /\ Spells(gl, list) /\ n \notin List!ToSet(list) /\ Len(list) \in Nat
  BY AtIs DEF ListInv, List!PriorityInsert, List!Linked
<1>2. PICK p \in 0..Len(list) : /\ List!InsertedByKey(n) = List!InsertAt(list, p + 1, n)
                                /\ \A i \in 1..p : KeyOf[list[i]] <= KeyOf[n]
                                /\ p < Len(list) => KeyOf[list[p + 1]] > KeyOf[n]
  BY ByKeyIs DEF List!PriorityInsert
<1>3. List!init_glthread(gl, n) = gl
  <2> DEFINE L == [gl.left EXCEPT ![n] = NilNode]
             R == [gl.right EXCEPT ![n] = NilNode]
  <2>1. gl.left[n] = NilNode /\ gl.right[n] = NilNode /\ gl \in Pointers
    BY <1>1 DEF Spells
  <2>2. L = gl.left /\ R = gl.right
    BY <2>1 DEF Pointers
  <2>3. gl = [left |-> gl.left, right |-> gl.right]
    BY <2>1 DEF Pointers
  <2>4. List!init_glthread(gl, n) = [left |-> L, right |-> R]
    BY DEF List!init_glthread
  <2> QED
    BY <2>2, <2>3, <2>4
<1> DEFINE passed == {x \in DOMAIN KeyOf : KeyOf[x] <= KeyOf[n]}
<1>4. List!WalkEnds(gl, ListHead, passed) = {At(list, p)}
  <2>1. DOMAIN KeyOf = Elems /\ KeyOf[n] \in Int /\ \A x \in Elems : KeyOf[x] \in Int
    BY NodesAre
  <2>2. \A i \in 1..p : i \in 1..Len(list)
    BY <1>1
  <2>3. ASSUME NEW i \in 1..p PROVE At(list, i) \in passed
    <3>1. At(list, i) = list[i] /\ At(list, i) \in Elems
      BY <1>1, <2>2, AtIs
    <3> QED
      BY <1>2, <2>1, <3>1
  <2>4. At(list, p + 1) \notin passed
    <3>1. CASE p < Len(list)
      <4>1. p + 1 \in 1..Len(list)
        BY <1>1, <3>1
      <4>2. At(list, p + 1) = list[p + 1] /\ At(list, p + 1) \in Elems
        BY <1>1, <4>1, AtIs
      <4>3. KeyOf[At(list, p + 1)] > KeyOf[n]
        BY <1>2, <3>1, <4>2
      <4> QED
        BY <2>1, <4>2, <4>3
    <3>2. CASE ~(p < Len(list))
      <4>1. p = Len(list)
        BY <1>1, <3>2
      <4> QED
        BY <1>1, <2>1, <4>1, AtIs, NodesAre
    <3> QED
      BY <3>1, <3>2
  <2> HIDE DEF passed
  <2> QED
    BY <1>1, <2>3, <2>4, WalkIs
<1>5. gl' = List!glthread_add_next(gl, At(list, p), n)
  <2>1. gl' = List!glthread_priority_insert(gl, ListHead, n, KeyOf)
    BY DEF List!PriorityInsert
  <2> QED
    BY <1>3, <1>4, <2>1 DEF List!glthread_priority_insert
<1>6. list' = List!InsertAt(list, p + 1, n)
  BY <1>2 DEF List!PriorityInsert
<1> HIDE DEF passed
<1>7. IsInserted(list, list', p, n)
  BY <1>1, <1>6, InsertAtIs
<1>8. Spells(gl', list')
  BY <1>1, <1>5, <1>7, AddedNext
<1> QED
  BY <1>7, <1>8 DEF ListInv, IsInserted

LEMMA ListKept == ListInv /\ [List!Next]_List!vars => ListInv'
<1> SUFFICES ASSUME ListInv, [List!Next]_List!vars PROVE ListInv'
  OBVIOUS
<1>1. CASE \E c \in List!Linked \union {ListHead}, n \in Elems : List!AddNext(c, n)
  BY <1>1, ListAddNext
<1>2. CASE \E c \in List!Linked, n \in Elems : List!AddBefore(c, n)
  BY <1>2, ListAddBefore
<1>3. CASE \E n \in Elems : List!AddLast(n) \/ List!PriorityInsert(n) \/ List!RemoveNode(n)
  BY <1>3, ListAddLast, ListPriorityInsert, ListRemoveNode
<1>4. CASE List!DequeueFirst
  BY <1>4, ListDequeue
<1>5. CASE List!DeleteList
  BY <1>5, ListDeleteList
<1>6. CASE UNCHANGED List!vars
  BY <1>6 DEF ListInv, List!vars
<1> QED
  BY <1>1, <1>2, <1>3, <1>4, <1>5, <1>6 DEF List!Next

LEMMA ListShows == ListInv => Represents
<1> SUFFICES ASSUME ListInv PROVE Represents
  OBVIOUS
<1>1. IsList(list) /\ Spells(gl, list) /\ Len(list) \in Nat
  BY AtIs DEF ListInv
<1>2. \A i \in 0..Len(list) : gl.right[At(list, i)] = At(list, i + 1)
  BY <1>1 DEF Spells
<1>3. \A i \in 1..Len(list) : gl.left[At(list, i)] = At(list, i - 1)
  BY <1>1 DEF Spells
<1>4. gl.left[ListHead] = NilNode /\ \A n \in Elems \ List!Linked : List!IsUnlinked(gl, n)
  BY <1>1 DEF Spells, List!Linked, List!IsUnlinked
<1>5. List!IterationEnds(gl, ListHead) /\ List!LastNode(gl, ListHead) = At(list, Len(list))
  BY <1>1, WholeWalk
<1>6. gl.right[ListHead] = At(list, 1)
  <2>1. 0 \in 0..Len(list) /\ 0 + 1 = 1
    BY <1>1
  <2> QED
    BY <1>1, <1>2, <2>1, AtIs
<1>7. List!glthread_get_last(gl, ListHead) = IF list = <<>> THEN NilNode ELSE List!Last(list)
  <2>1. CASE list = <<>>
    <3>1. Len(list) = 0 /\ At(list, Len(list) + 1) = NilNode
      BY <1>1, <2>1, AtIs
    <3> QED
      BY <1>6, <2>1, <3>1 DEF List!glthread_get_last
  <2>2. CASE list # <<>>
    <3>1. Len(list) \in 1..Len(list) /\ 1 \in 1..Len(list)
      <4>1. Len(list) # 0
        BY <1>1, <2>2 DEF IsList
      <4> QED
        BY <1>1, <4>1
    <3>2. At(list, Len(list)) = list[Len(list)] /\ At(list, 1) # NilNode
      BY <1>1, <3>1, AtIs
    <3> QED
      BY <1>5, <1>6, <2>2, <3>2 DEF List!glthread_get_last, List!Last
  <2> QED
    BY <2>1, <2>2
<1> QED
  BY <1>2, <1>3, <1>4, <1>5, <1>7 DEF Represents, List!Represents, At

\* Whatever the operations do to a list of any nodes with any keys, in any
\* order, the pointers of glthread.c spell the sequence that is meant, both
\* ways, a node outside keeps no pointer, and every walk ends at the last node.
THEOREM ListRepresents == List!Spec => []Represents
<1>1. List!Init => ListInv
  BY ListStarts
<1>2. ListInv /\ [List!Next]_List!vars => ListInv'
  BY ListKept
<1>3. ListInv => Represents
  BY ListShows
<1> QED
  BY <1>1, <1>2, <1>3, PTL DEF List!Spec

-----------------------------------------------------------------------------
(* The blocks of one page. *)

Block == [offset : Nat, block_size : Nat, is_free : BOOLEAN]

\* Where the block ends.
Past(b) == b.offset + META + b.block_size

\* Blocks that lie one behind the other before end; no two free ones are neighbours.
Laid(bs, end) ==
  /\ bs \in Seq(Block) /\ end \in Nat
  /\ \A j, k \in 1..Len(bs) : j < k => Past(bs[j]) <= bs[k].offset
  /\ \A k \in 1..Len(bs) : Past(bs[k]) <= end
Merged(bs) == \A k \in 1..(Len(bs) - 1) : ~(bs[k].is_free /\ bs[k + 1].is_free)

LEMMA Sizes0 ==
  META \in Nat /\ META > 0 /\ PAGE_HDR \in Nat /\ SYSTEM_PAGE_SIZE \in Nat /\ PAGE_HDR + META < SYSTEM_PAGE_SIZE
BY MemoryAssumption DEF Memory!MemoryAssumption

LEMMA PastIs ==
  ASSUME NEW b \in Block
  PROVE  /\ b.offset \in Nat /\ b.block_size \in Nat /\ b.is_free \in BOOLEAN
         /\ Past(b) \in Nat /\ b.offset < Past(b) /\ b.offset + META <= Past(b)
         /\ b = [offset |-> b.offset, block_size |-> b.block_size, is_free |-> b.is_free]
BY Sizes0 DEF Block, Past

LEMMA LaidIs ==
  ASSUME NEW bs, NEW end, Laid(bs, end)
  PROVE  /\ Len(bs) \in Nat /\ DOMAIN bs = 1..Len(bs)
         /\ \A k \in 1..Len(bs) : bs[k] \in Block
         /\ \A j, k \in 1..Len(bs) : bs[j].offset = bs[k].offset => j = k
         /\ \A j, k \in 1..Len(bs) : bs[j] = bs[k] => j = k
<1>1. Len(bs) \in Nat /\ DOMAIN bs = 1..Len(bs) /\ \A k \in 1..Len(bs) : bs[k] \in Block
  BY DEF Laid
<1>2. ASSUME NEW j \in 1..Len(bs), NEW k \in 1..Len(bs), j < k PROVE bs[j].offset # bs[k].offset
  <2>1. bs[j].offset \in Nat /\ bs[k].offset \in Nat /\ Past(bs[j]) \in Nat /\ bs[j].offset < Past(bs[j])
    BY <1>1, PastIs
  <2>2. Past(bs[j]) <= bs[k].offset
    BY <1>2 DEF Laid
  <2> QED
    BY <2>1, <2>2
<1>3. \A j, k \in 1..Len(bs) : bs[j].offset = bs[k].offset => j = k
  <2> SUFFICES ASSUME NEW j \in 1..Len(bs), NEW k \in 1..Len(bs), bs[j].offset = bs[k].offset PROVE j = k
    OBVIOUS
  <2>1. ~(j < k) /\ ~(k < j)
    BY <1>2
  <2> QED
    BY <1>1, <2>1
<1> QED
  BY <1>1, <1>3

\* A block that ends before what comes behind b.
Fits(blk, bs, b, end) ==
  /\ blk \in Block /\ Past(blk) <= end
  /\ \A k \in 1..Len(bs) : b < k => Past(blk) <= bs[k].offset

\* X is s with e in the place of the element at p.
Replaced(X, s, p, e) == X = [s EXCEPT ![p] = e]
Changed(X, s, p, e) == Len(X) = Len(s) /\ \A k \in 1..Len(s) : X[k] = IF k = p THEN e ELSE s[k]

\* Another block in the place of the one at b.
LEMMA ChangedLaid ==
  ASSUME NEW bs, NEW end, Laid(bs, end), NEW b \in 1..Len(bs), NEW blk, Fits(blk, bs, b, end),
         blk.offset = bs[b].offset, NEW X, Replaced(X, bs, b, blk)
  PROVE  /\ Laid(X, end) /\ Changed(X, bs, b, blk)
         /\ Els(X) = (Els(bs) \ {bs[b]}) \union {blk}
<1>1. /\ Len(bs) \in Nat /\ bs \in Seq(Block) /\ \A k \in 1..Len(bs) : bs[k] \in Block
      /\ \A j, k \in 1..Len(bs) : bs[j] = bs[k] => j = k
  BY LaidIs DEF Laid
<1> USE DEF Fits, Replaced
<1>2. X \in Seq(Block) /\ Len(X) = Len(bs) /\ \A k \in 1..Len(bs) : X[k] = IF k = b THEN blk ELSE bs[k]
  BY <1>1
<1>3. \A j, k \in 1..Len(X) : j < k => Past(X[j]) <= X[k].offset
  BY <1>1, <1>2 DEF Laid
<1>4. \A k \in 1..Len(X) : Past(X[k]) <= end
  BY <1>2 DEF Laid
<1>5. Els(X) = (Els(bs) \ {bs[b]}) \union {blk}
  BY <1>1, <1>2 DEF Els
<1> QED
  BY <1>2, <1>3, <1>4, <1>5 DEF Laid, Changed

\* One more behind the one at b.
LEMMA InsertedLaid ==
  ASSUME NEW bs, NEW end, Laid(bs, end), NEW b \in 1..Len(bs), NEW blk, Fits(blk, bs, b, end),
         Past(bs[b]) <= blk.offset, NEW t, WithOne(t, bs, b, blk), t \in Seq(Block)
  PROVE  Laid(t, end) /\ Els(t) = Els(bs) \union {blk}
<1>1. Len(bs) \in Nat /\ \A k \in 1..Len(bs) : bs[k] \in Block
  BY LaidIs
<1> USE DEF Fits
<1>2. /\ Len(t) = Len(bs) + 1 /\ b \in Nat /\ b <= Len(bs)
      /\ \A i \in 1..Len(t) : \/ i <= b /\ i \in 1..Len(bs) /\ t[i] = bs[i]
                              \/ i = b + 1 /\ t[i] = blk
                              \/ i > b + 1 /\ i - 1 \in 1..Len(bs) /\ t[i] = bs[i - 1]
  BY <1>1 DEF WithOne
<1>3. \A j \in 1..b : Past(bs[j]) <= blk.offset
  <2> SUFFICES ASSUME NEW j \in 1..b, j # b PROVE Past(bs[j]) <= blk.offset
    OBVIOUS
  <2>1. j \in 1..Len(bs) /\ j < b
    BY <1>2
  <2>2. Past(bs[j]) <= bs[b].offset
    BY <2>1 DEF Laid
  <2>3. Past(bs[j]) \in Nat /\ bs[b].offset \in Nat /\ Past(bs[b]) \in Nat /\ bs[b].offset < Past(bs[b]) /\ blk.offset \in Nat
    BY <1>1, <2>1, PastIs
  <2> QED
    BY <2>2, <2>3
<1>4. ASSUME NEW j \in 1..Len(t), NEW k \in 1..Len(t), j < k PROVE Past(t[j]) <= t[k].offset
  <2>1. CASE k <= b
    <3>1. j \in 1..Len(bs) /\ k \in 1..Len(bs) /\ t[j] = bs[j] /\ t[k] = bs[k]
      BY <1>2, <1>4, <2>1
    <3> QED
      BY <1>4, <3>1 DEF Laid
  <2>2. CASE k = b + 1
    <3>1. j \in 1..b /\ t[j] = bs[j] /\ t[k] = blk
      BY <1>2, <1>4, <2>2
    <3> QED
      BY <1>3, <3>1
  <2>3. CASE k > b + 1
    <3>1. k - 1 \in 1..Len(bs) /\ t[k] = bs[k - 1] /\ b < k - 1
      BY <1>2, <2>3
    <3>2. CASE j <= b
      <4>1. j \in 1..Len(bs) /\ t[j] = bs[j] /\ j < k - 1
        BY <1>2, <2>3, <3>2
      <4> QED
        BY <3>1, <4>1 DEF Laid
    <3>3. CASE j = b + 1
      BY <1>2, <3>1, <3>3
    <3>4. CASE j > b + 1
      <4>1. j - 1 \in 1..Len(bs) /\ t[j] = bs[j - 1] /\ j - 1 < k - 1
        BY <1>2, <1>4, <3>4
      <4> QED
        BY <3>1, <4>1 DEF Laid
    <3> QED
      BY <1>2, <3>2, <3>3, <3>4
  <2> QED
    BY <1>2, <2>1, <2>2, <2>3
<1>5. \A k \in 1..Len(t) : Past(t[k]) <= end
  BY <1>2 DEF Laid
<1>6. Els(t) = Els(bs) \union {blk}
  <2>1. b \in 0..Len(bs)
    BY <1>2
  <2> QED
    BY <1>1, <2>1, WithOneEls
<1> QED
  BY <1>4, <1>5, <1>6 DEF Laid

\* One less.
LEMMA RemovedLaid ==
  ASSUME NEW bs, NEW end, Laid(bs, end), NEW b \in 1..Len(bs), NEW t, Without(t, bs, b), t \in Seq(Block)
  PROVE  Laid(t, end) /\ Els(t) = Els(bs) \ {bs[b]}
<1>1. Len(bs) \in Nat /\ \A j, k \in 1..Len(bs) : bs[j] = bs[k] => j = k
  BY LaidIs
<1>2. /\ Len(t) = Len(bs) - 1
      /\ \A i \in 1..Len(t) : \/ i < b /\ i \in 1..Len(bs) /\ t[i] = bs[i]
                              \/ i >= b /\ i + 1 \in 1..Len(bs) /\ t[i] = bs[i + 1]
  BY <1>1 DEF Without
<1>3. \A j, k \in 1..Len(t) : j < k => Past(t[j]) <= t[k].offset
  <2> SUFFICES ASSUME NEW j \in 1..Len(t), NEW k \in 1..Len(t), j < k PROVE Past(t[j]) <= t[k].offset
    OBVIOUS
  <2>1. \E l, m \in 1..Len(bs) : l < m /\ t[j] = bs[l] /\ t[k] = bs[m]
    <3>1. CASE k < b
      <4>1. j \in 1..Len(bs) /\ k \in 1..Len(bs) /\ t[j] = bs[j] /\ t[k] = bs[k]
        BY <1>1, <1>2, <3>1
      <4> QED
        BY <4>1
    <3>2. CASE k >= b /\ j < b
      <4>1. j \in 1..Len(bs) /\ k + 1 \in 1..Len(bs) /\ t[j] = bs[j] /\ t[k] = bs[k + 1] /\ j < k + 1
        BY <1>1, <1>2, <3>2
      <4> QED
        BY <4>1
    <3>3. CASE k >= b /\ j >= b
      <4>1. j + 1 \in 1..Len(bs) /\ k + 1 \in 1..Len(bs) /\ t[j] = bs[j + 1] /\ t[k] = bs[k + 1] /\ j + 1 < k + 1
        BY <1>1, <1>2, <3>3
      <4> QED
        BY <4>1
    <3> QED
      BY <1>1, <3>1, <3>2, <3>3
  <2> QED
    BY <2>1 DEF Laid
<1>4. \A k \in 1..Len(t) : Past(t[k]) <= end
  BY <1>2 DEF Laid
<1>5. Els(t) = Els(bs) \ {bs[b]}
  BY <1>1, WithoutEls
<1> QED
  BY <1>3, <1>4, <1>5 DEF Laid

\* What an allocation leaves of the free block at b: the piece that was asked for,
\* and the rest where there is room for one.
Taken(blk, size) == [offset |-> blk.offset, block_size |-> size, is_free |-> FALSE]
Rest(blk, size) ==
  [offset |-> blk.offset + META + size, block_size |-> blk.block_size - size - META, is_free |-> TRUE]

TakenFrom(X, bs, end, b, size) ==
  /\ Laid(bs, end) /\ Merged(bs) /\ b \in 1..Len(bs) /\ bs[b].is_free
  /\ size \in Nat /\ size <= bs[b].block_size
  /\ X = [bs EXCEPT ![b] = Taken(bs[b], size)]

LEMMA TakenLaid ==
  ASSUME NEW bs, NEW end, NEW b, NEW size, NEW X, TakenFrom(X, bs, end, b, size)
  PROVE  /\ Laid(X, end) /\ Merged(X) /\ Taken(bs[b], size) \in Block
         /\ Changed(X, bs, b, Taken(bs[b], size))
         /\ Els(X) = (Els(bs) \ {bs[b]}) \union {Taken(bs[b], size)}
<1> USE DEF TakenFrom
<1> DEFINE blk == Taken(bs[b], size)
<1>1. bs[b] \in Block /\ Len(bs) \in Nat
  BY LaidIs
<1>2. blk \in Block /\ blk.offset = bs[b].offset /\ ~blk.is_free /\ Past(blk) <= Past(bs[b]) /\ Past(blk) \in Nat
  BY <1>1, PastIs, Sizes0 DEF Past, Block, Taken
<1>3. Past(bs[b]) <= end /\ \A k \in 1..Len(bs) : b < k => Past(bs[b]) <= bs[k].offset
  BY DEF Laid
<1>4. \A k \in 1..Len(bs) : bs[k] \in Block /\ bs[k].offset \in Nat /\ Past(bs[b]) \in Nat
  BY LaidIs, PastIs
<1>5. \A k \in 1..Len(bs) : b < k => Past(blk) <= bs[k].offset
  <2> HIDE DEF blk
  <2> QED
    BY <1>2, <1>3, <1>4
<1>6. Past(blk) <= end
  <2>1. end \in Nat
    BY DEF Laid
  <2> HIDE DEF blk
  <2> QED
    BY <1>2, <1>3, <1>4, <2>1
<1>7. Replaced(X, bs, b, blk) /\ Laid(bs, end) /\ b \in 1..Len(bs)
  BY DEF Replaced
<1> HIDE DEF blk
<1>8. Laid(X, end) /\ Changed(X, bs, b, blk) /\ Els(X) = (Els(bs) \ {bs[b]}) \union {blk}
  <2>1. Fits(blk, bs, b, end)
    BY <1>2, <1>5, <1>6 DEF Fits
  <2> QED
    BY ONLY <1>2, <1>7, <2>1, ChangedLaid
<1>9. Merged(X)
  <2>1. \A k \in 1..(Len(X) - 1) : k \in 1..Len(bs) /\ k + 1 \in 1..Len(bs) /\ k \in 1..(Len(bs) - 1)
    BY <1>1, <1>8 DEF Changed
  <2> QED
    BY <1>2, <1>8, <2>1 DEF Merged, Changed
<1> QED
  BY <1>2, <1>8, <1>9 DEF blk

SplitFrom(Y, X, bs, end, b, size) ==
  /\ TakenFrom(X, bs, end, b, size) /\ size + META <= bs[b].block_size
  /\ Y = Memory!InsertAt(X, b + 1, Rest(bs[b], size))

LEMMA RestLaid ==
  ASSUME NEW bs, NEW end, NEW b, NEW size, NEW X, NEW Y, SplitFrom(Y, X, bs, end, b, size)
  PROVE  /\ Laid(Y, end) /\ Merged(Y) /\ Rest(bs[b], size) \in Block /\ Taken(bs[b], size) \in Block
         /\ Els(Y) = (Els(bs) \ {bs[b]}) \union {Taken(bs[b], size), Rest(bs[b], size)}
<1> USE DEF SplitFrom, TakenFrom
<1> DEFINE blk == Taken(bs[b], size)
           rest == Rest(bs[b], size)
<1>1. bs[b] \in Block /\ Len(bs) \in Nat /\ b \in 0..Len(bs)
  BY LaidIs
<1>2. size <= bs[b].block_size /\ bs[b].block_size \in Nat
  BY <1>1, PastIs, Sizes0
<1>3. /\ Laid(X, end) /\ blk \in Block /\ Merged(X) /\ Changed(X, bs, b, blk)
      /\ Els(X) = (Els(bs) \ {bs[b]}) \union {blk}
  <2>1. TakenFrom(X, bs, end, b, size)
    BY <1>2 DEF TakenFrom
  <2> HIDE DEF TakenFrom
  <2> QED
    BY ONLY <2>1, TakenLaid
<1>4. rest \in Block /\ Past(rest) = Past(bs[b]) /\ Past(blk) = rest.offset /\ rest.is_free /\ ~blk.is_free
  <2>1. PICK o \in Nat, z \in Nat : bs[b].offset = o /\ bs[b].block_size = z
    BY <1>1, <1>2, PastIs
  <2>2. /\ blk = [offset |-> o, block_size |-> size, is_free |-> FALSE]
        /\ rest = [offset |-> o + META + size, block_size |-> z - size - META, is_free |-> TRUE]
    BY <2>1 DEF Taken, Rest
  <2>3. z - size - META \in Nat /\ o + META + size \in Nat
    BY <1>2, <2>1, Sizes0
  <2> HIDE DEF blk, rest
  <2> QED
    BY <2>1, <2>2, <2>3, Sizes0 DEF Past, Block
<1> HIDE DEF blk, rest
<1>5. X[b] = blk /\ b \in 1..Len(X) /\ Len(X) = Len(bs)
  BY <1>3 DEF Changed
<1>6. Past(X[b]) <= rest.offset
  <2>1. rest.offset \in Nat
    BY <1>4, PastIs
  <2> QED
    BY <1>4, <1>5, <2>1
<1>7. Past(rest) <= end /\ \A k \in 1..Len(X) : b < k => Past(rest) <= X[k].offset
  BY <1>3, <1>4, <1>5 DEF Laid, Changed
<1>8. Y \in Seq(Block) /\ WithOne(Y, X, b, rest)
  <2>1. X \in Seq(Block) /\ b \in 0..Len(X)
    BY <1>1, <1>3 DEF Laid
  <2> QED
    BY <1>4, <2>1, InsertsOne DEF rest
<1>9. Laid(Y, end) /\ Els(Y) = Els(X) \union {rest}
  <2>1. Fits(rest, X, b, end)
    BY <1>4, <1>7 DEF Fits
  <2> QED
    BY ONLY <1>3, <1>5, <1>6, <1>8, <2>1, InsertedLaid
<1>10. Merged(Y)
  <2> SUFFICES ASSUME NEW k \in 1..(Len(Y) - 1), Y[k].is_free, Y[k + 1].is_free PROVE FALSE
    BY DEF Merged
  <2>1. Len(Y) = Len(bs) + 1 /\ \A i \in 1..Len(Y) : Y[i] = IF i <= b THEN X[i] ELSE IF i = b + 1 THEN rest ELSE X[i - 1]
    BY <1>5, <1>8 DEF WithOne
  <2>2. k \in 1..Len(Y) /\ k + 1 \in 1..Len(Y)
    BY <1>1, <2>1
  <2>7. \A i \in 1..(Len(X) - 1) : ~(X[i].is_free /\ X[i + 1].is_free)
    BY <1>3 DEF Merged
  <2>3. CASE k < b
    <3>1. Y[k] = X[k] /\ Y[k + 1] = X[k + 1] /\ k \in 1..(Len(X) - 1)
      BY ONLY <1>1, <1>5, <2>1, <2>2, <2>3, b \in 1..Len(bs)
    <3> QED
      BY <2>7, <3>1
  <2>4. CASE k = b
    <3>1. Y[k] = X[b]
      BY ONLY <1>1, <2>1, <2>2, <2>4, b \in 1..Len(bs)
    <3> QED
      BY <1>4, <1>5, <3>1
  <2>5. CASE k = b + 1
    <3>1. Y[k + 1] = X[b + 1] /\ b \in 1..(Len(bs) - 1) /\ b + 1 \in 1..Len(bs) /\ b + 1 # b
      BY ONLY <1>1, <2>1, <2>2, <2>5, b \in 1..Len(bs)
    <3>2. X[b + 1] = bs[b + 1]
      BY <1>3, <3>1 DEF Changed
    <3> QED
      BY <3>1, <3>2 DEF Merged
  <2>6. CASE k > b + 1
    <3>1. Y[k] = X[k - 1] /\ Y[k + 1] = X[(k - 1) + 1] /\ k - 1 \in 1..(Len(X) - 1)
      BY ONLY <1>1, <1>5, <2>1, <2>2, <2>6, b \in 1..Len(bs)
    <3> QED
      BY <2>7, <3>1
  <2> QED
    BY <1>1, <2>2, <2>3, <2>4, <2>5, <2>6
<1> QED
  BY <1>3, <1>4, <1>9, <1>10 DEF blk, rest

\* The block at b given back, with the room behind it.
Freed(page, b) == [offset |-> page.blocks[b].offset, block_size |-> Memory!room(page, b), is_free |-> TRUE]

NextGone(bs, b) == IF b < Len(bs) /\ bs[b + 1].is_free THEN {bs[b + 1]} ELSE {}
PrevFree(bs, b) == b > 1 /\ bs[b - 1].is_free

LEMMA FreedFits ==
  ASSUME NEW page, NEW b \in 1..Len(page.blocks), Laid(page.blocks, Memory!PageEnd(page))
  PROVE  /\ Fits(Freed(page, b), page.blocks, b, Memory!PageEnd(page))
         /\ Freed(page, b).offset = page.blocks[b].offset /\ Freed(page, b).is_free
<1> DEFINE bs == page.blocks
           end == Memory!PageEnd(page)
           to == IF b < Len(bs) THEN bs[b + 1].offset ELSE end
           blk == Freed(page, b)
<1>1. b \in 1..Len(bs) /\ Len(bs) \in Nat /\ end \in Nat /\ \A k \in 1..Len(bs) : bs[k] \in Block
  BY LaidIs DEF Laid
<1>2. \A k \in 1..Len(bs) : bs[k].offset \in Nat /\ Past(bs[k]) \in Nat /\ bs[k].offset + META <= Past(bs[k])
  BY <1>1, PastIs
<1>3. Past(bs[b]) <= end /\ \A k \in 1..Len(bs) : b < k => Past(bs[b]) <= bs[k].offset
  BY DEF Laid
<1>4. to \in Nat /\ bs[b].offset + META <= to
  <2> HIDE DEF bs, end
  <2>1. CASE b < Len(bs)
    <3>1. b + 1 \in 1..Len(bs) /\ b < b + 1
      BY <1>1, <2>1
    <3> QED
      BY <1>2, <1>3, <2>1, <3>1, Sizes0
  <2>2. CASE ~(b < Len(bs))
    <3>1. to = end
      BY <2>2
    <3> HIDE DEF to
    <3> QED
      BY <1>1, <1>2, <1>3, <3>1, Sizes0
  <2> QED
    BY <2>1, <2>2
<1>5. Memory!room(page, b) = to - (bs[b].offset + META)
  BY DEF Memory!room, Memory!Data
<1>6. PICK o \in Nat, e \in Nat : bs[b].offset = o /\ to = e
  BY <1>2, <1>4
<1>7. blk = [offset |-> o, block_size |-> e - (o + META), is_free |-> TRUE]
  BY <1>5, <1>6 DEF Freed
<1>8. e - (o + META) \in Nat
  BY <1>4, <1>6, Sizes0, SMTT(30)
<1> HIDE DEF blk
<1>9. blk \in Block /\ Past(blk) = e /\ blk.offset = o /\ blk.is_free
  BY <1>7, <1>8, Sizes0 DEF Block, Past
<1>10. e <= end
  <2>1. CASE b < Len(bs)
    <3>1. b + 1 \in 1..Len(bs) /\ e = bs[b + 1].offset
      BY <1>1, <1>6, <2>1
    <3>2. Past(bs[b + 1]) <= end /\ bs[b + 1].offset + META <= Past(bs[b + 1]) /\ Past(bs[b + 1]) \in Nat
      BY <1>2, <3>1 DEF Laid
    <3> HIDE DEF bs, end, to
    <3> QED
      BY <1>1, <3>1, <3>2, Sizes0
  <2>2. CASE ~(b < Len(bs))
    BY <1>1, <1>6, <2>2
  <2> QED
    BY <2>1, <2>2
<1>11. ASSUME NEW k \in 1..Len(bs), b < k PROVE e <= bs[k].offset
  <2>1. b + 1 \in 1..Len(bs) /\ e = bs[b + 1].offset /\ b + 1 <= k
    BY <1>1, <1>6, <1>11
  <2>2. CASE k = b + 1
    BY <1>1, <1>2, <2>1, <2>2
  <2>3. CASE k # b + 1
    <3>1. b + 1 < k
      BY <1>1, <2>1, <2>3
    <3>2. Past(bs[b + 1]) <= bs[k].offset
      BY <2>1, <3>1 DEF Laid
    <3>3. /\ bs[b + 1].offset \in Nat /\ Past(bs[b + 1]) \in Nat /\ bs[b + 1].offset + META <= Past(bs[b + 1])
          /\ bs[k].offset \in Nat
      BY <1>2, <2>1
    <3>4. e \in Nat /\ META \in Nat
      BY Sizes0
    <3> HIDE DEF bs, end, to
    <3> QED
      BY ONLY <2>1, <3>2, <3>3, <3>4, SMTT(30)
  <2> QED
    BY <2>2, <2>3
<1> QED
  BY <1>6, <1>9, <1>10, <1>11 DEF Fits, blk

\* The blocks after the next one is taken in: only those at b - 1 and b may both be free.
NextDone(X, bs, b, end, blk) ==
  /\ Laid(X, end) /\ b \in 1..Len(X) /\ X[b] = blk
  /\ \A k \in 1..(b - 1) : X[k] = bs[k]
  /\ \A k \in 1..(Len(X) - 1) : k # b - 1 => ~(X[k].is_free /\ X[k + 1].is_free)
  /\ Els(X) = (Els(bs) \ ({bs[b]} \union NextGone(bs, b))) \union {blk}

LEMMA NextIsDone ==
  ASSUME NEW bs, NEW end, Laid(bs, end), Merged(bs), NEW b \in 1..Len(bs),
         NEW blk, Fits(blk, bs, b, end), blk.offset = bs[b].offset, blk.is_free,
         NEW X, Replaced(X, bs, b, blk)
  PROVE  NextDone(IF Memory!IsFree(X, b + 1) THEN Memory!union(X, b) ELSE X, bs, b, end, blk)
<1>1. Laid(X, end) /\ Changed(X, bs, b, blk) /\ Els(X) = (Els(bs) \ {bs[b]}) \union {blk}
  BY ChangedLaid
<1>2. /\ Len(bs) \in Nat /\ Len(X) = Len(bs) /\ DOMAIN X = 1..Len(bs)
      /\ \A k \in 1..Len(bs) : X[k] = IF k = b THEN blk ELSE bs[k]
  BY <1>1, LaidIs DEF Changed
<1>3. Memory!IsFree(X, b + 1) <=> b < Len(bs) /\ bs[b + 1].is_free
  <2>1. b + 1 \in 1..Len(bs) <=> b < Len(bs)
    BY <1>2
  <2>2. b + 1 # b
    BY <1>2
  <2> QED
    BY <1>2, <2>1, <2>2 DEF Memory!IsFree
<1>4. \A k \in 1..(Len(bs) - 1) : ~(bs[k].is_free /\ bs[k + 1].is_free)
  BY DEF Merged
<1>5. CASE ~Memory!IsFree(X, b + 1)
  <2>1. \A k \in 1..(b - 1) : X[k] = bs[k]
    BY <1>2
  <2>2. ASSUME NEW k \in 1..(Len(X) - 1), k # b - 1, X[k].is_free, X[k + 1].is_free PROVE FALSE
    <3>1. k \in 1..Len(bs) /\ k + 1 \in 1..Len(bs) /\ k + 1 # b /\ k \in 1..(Len(bs) - 1)
      BY <1>2, <2>2
    <3>2. X[k + 1] = bs[k + 1] /\ bs[k + 1].is_free
      BY <1>2, <2>2, <3>1
    <3>3. k # b
      BY <1>2, <1>3, <1>5, <3>1, <3>2
    <3>4. X[k] = bs[k]
      BY <1>2, <3>1, <3>3
    <3> QED
      BY <1>4, <2>2, <3>1, <3>2, <3>4
  <2>3. NextGone(bs, b) = {} /\ b \in 1..Len(X) /\ X[b] = blk
    BY <1>2, <1>3, <1>5 DEF NextGone
  <2> QED
    BY <1>1, <1>5, <2>1, <2>2, <2>3 DEF NextDone
<1>6. CASE Memory!IsFree(X, b + 1)
  <2> DEFINE Y == Memory!union(X, b)
  <2>1. b + 1 \in 1..Len(bs) /\ bs[b + 1].is_free /\ X[b + 1] = bs[b + 1] /\ NextGone(bs, b) = {bs[b + 1]}
    BY <1>2, <1>3, <1>6 DEF NextGone
  <2>2. Y \in Seq(Block) /\ Without(Y, X, b + 1)
    <3>1. X \in Seq(Block) /\ b + 1 \in 1..Len(X)
      BY <1>1, <1>2, <2>1 DEF Laid
    <3> QED
      BY <3>1, RemovesOne DEF Memory!union
  <2> HIDE DEF Y
  <2>3. Laid(Y, end) /\ Els(Y) = Els(X) \ {X[b + 1]}
    BY <1>1, <1>2, <2>1, <2>2, RemovedLaid
  <2>4. /\ Len(Y) = Len(bs) - 1
        /\ \A i \in 1..Len(Y) : Y[i] = IF i < b + 1 THEN X[i] ELSE X[i + 1]
    BY <1>2, <2>2 DEF Without
  <2>5. b \in 1..Len(Y) /\ Y[b] = blk /\ \A k \in 1..(b - 1) : Y[k] = bs[k]
    BY ONLY <1>2, <2>1, <2>4, b \in 1..Len(bs)
  <2>6. ASSUME NEW k \in 1..(Len(Y) - 1), k # b - 1, Y[k].is_free, Y[k + 1].is_free PROVE FALSE
    <3>1. CASE k < b - 1
      <4>1. k \in 1..(Len(bs) - 1) /\ Y[k] = bs[k] /\ Y[k + 1] = bs[k + 1]
        BY ONLY <1>2, <2>4, <3>1, k \in 1..(Len(Y) - 1), b \in 1..Len(bs)
      <4> QED
        BY <1>4, <2>6, <4>1
    <3>2. CASE k >= b
      <4>1. k + 1 \in 1..(Len(bs) - 1) /\ Y[k + 1] = bs[(k + 1) + 1]
        BY ONLY <1>2, <2>4, <3>2, k \in 1..(Len(Y) - 1), b \in 1..Len(bs)
      <4>2. k = b \/ Y[k] = bs[k + 1]
        BY ONLY <1>2, <2>4, <3>2, k \in 1..(Len(Y) - 1), b \in 1..Len(bs)
      <4>3. bs[k + 1].is_free
        BY <2>1, <2>6, <4>2
      <4> QED
        BY <1>4, <2>6, <4>1, <4>3
    <3> QED
      BY <1>2, <2>6, <3>1, <3>2
  <2>7. Els(Y) = (Els(bs) \ ({bs[b]} \union NextGone(bs, b))) \union {blk}
    <3>1. blk # bs[b + 1]
      <4>1. X[b] = blk /\ b # b + 1 /\ b \in 1..Len(X) /\ b + 1 \in 1..Len(X)
        BY <1>2, <2>1
      <4> QED
        BY <1>1, <2>1, <4>1, LaidIs
    <3> QED
      BY <1>1, <2>1, <2>3, <3>1
  <2> QED
    BY <1>6, <2>3, <2>5, <2>6, <2>7 DEF NextDone, Y
<1> QED
  BY <1>5, <1>6

\* mm_free_blocks on the blocks of a page: those that stay, and the free one they hold now.
FreedFrom(X, page, b, end) ==
  /\ b \in 1..Len(page.blocks) /\ end = Memory!PageEnd(page)
  /\ Laid(page.blocks, end) /\ Merged(page.blocks) /\ ~page.blocks[b].is_free
  /\ X = Memory!unions([page.blocks EXCEPT ![b] = Freed(page, b)], b)

LEMMA UnionsLaid ==
  ASSUME NEW page, NEW b, NEW end, NEW X, FreedFrom(X, page, b, end)
  PROVE  /\ Laid(X, end) /\ Merged(X) /\ Freed(page, b) \in Block
         /\ Els(X) = (Els(page.blocks) \ ({page.blocks[b]} \union NextGone(page.blocks, b)))
                       \union (IF PrevFree(page.blocks, b) THEN {} ELSE {Freed(page, b)})
<1> DEFINE bs == page.blocks
           blk == Freed(page, b)
           X0 == [bs EXCEPT ![b] = blk]
           X1 == IF Memory!IsFree(X0, b + 1) THEN Memory!union(X0, b) ELSE X0
<1>1. /\ b \in 1..Len(bs) /\ Laid(bs, end) /\ Merged(bs) /\ ~bs[b].is_free /\ end = Memory!PageEnd(page)
      /\ X = IF Memory!IsFree(X0, b - 1) THEN Memory!union(X1, b - 1) ELSE X1
  BY DEF FreedFrom, Memory!unions
<1>2. Fits(blk, bs, b, end) /\ blk.offset = bs[b].offset /\ blk.is_free /\ blk \in Block
  BY <1>1, FreedFits DEF Fits
<1>3. Replaced(X0, bs, b, blk)
  BY DEF Replaced
<1> HIDE DEF bs, blk, X0
<1>4. NextDone(X1, bs, b, end, blk)
  BY <1>1, <1>2, <1>3, NextIsDone
<1>5. Changed(X0, bs, b, blk) /\ DOMAIN X0 = 1..Len(bs) /\ Len(bs) \in Nat
  BY <1>1, <1>2, <1>3, ChangedLaid, LaidIs DEF Changed
<1>6. Memory!IsFree(X0, b - 1) <=> PrevFree(bs, b)
  <2>1. b - 1 \in 1..Len(bs) <=> b > 1
    BY <1>1, <1>5
  <2>2. b - 1 # b
    BY <1>1
  <2> QED
    BY <1>5, <2>1, <2>2 DEF Memory!IsFree, PrevFree, Changed
<1> HIDE DEF X1
<1>7. /\ Laid(X1, end) /\ b \in 1..Len(X1) /\ X1[b] = blk /\ Len(X1) \in Nat
      /\ \A k \in 1..(b - 1) : X1[k] = bs[k]
      /\ \A k \in 1..(Len(X1) - 1) : k # b - 1 => ~(X1[k].is_free /\ X1[k + 1].is_free)
      /\ Els(X1) = (Els(bs) \ ({bs[b]} \union NextGone(bs, b))) \union {blk}
  BY <1>4, LaidIs DEF NextDone
<1>8. CASE ~PrevFree(bs, b)
  <2>1. X = X1
    BY <1>1, <1>6, <1>8
  <2>2. Merged(X1)
    <3> SUFFICES ASSUME NEW k \in 1..(Len(X1) - 1), X1[k].is_free, X1[k + 1].is_free PROVE FALSE
      BY DEF Merged
    <3>1. k = b - 1
      BY <1>7
    <3>2. b > 1 /\ X1[k] = bs[b - 1]
      BY <1>7, <3>1
    <3> QED
      BY <1>8, <3>2 DEF PrevFree
  <2> QED
    BY <1>2, <1>7, <1>8, <2>1, <2>2 DEF bs, blk
<1>9. CASE PrevFree(bs, b)
  <2>1. X = Memory!RemoveAt(X1, b)
    <3>1. (b - 1) + 1 = b
      BY <1>1
    <3> QED
      BY <1>1, <1>6, <1>9, <3>1 DEF Memory!union
  <2>2. X \in Seq(Block) /\ Without(X, X1, b)
    <3>1. X1 \in Seq(Block)
      BY <1>7 DEF Laid
    <3> QED
      BY <1>7, <2>1, <3>1, RemovesOne
  <2>3. Laid(X, end) /\ Els(X) = Els(X1) \ {blk}
    BY <1>7, <2>2, RemovedLaid
  <2>4. Merged(X)
    <3> SUFFICES ASSUME NEW k \in 1..(Len(X) - 1), X[k].is_free, X[k + 1].is_free PROVE FALSE
      BY DEF Merged
    <3>1. Len(X) = Len(X1) - 1 /\ \A i \in 1..Len(X) : X[i] = IF i < b THEN X1[i] ELSE X1[i + 1]
      BY <2>2 DEF Without
    <3>2. k \in 1..Len(X) /\ k + 1 \in 1..Len(X)
      BY <1>7, <3>1
    <3>3. CASE k < b - 1
      <4>1. k \in 1..(Len(X1) - 1) /\ k # b - 1 /\ X[k] = X1[k] /\ X[k + 1] = X1[k + 1]
        BY ONLY <1>7, <3>1, <3>2, <3>3, k \in 1..(Len(X) - 1)
      <4> QED
        BY <1>7, <4>1
    <3>4. CASE k >= b - 1
      <4>1. k + 1 \in 1..(Len(X1) - 1) /\ k + 1 # b - 1 /\ X[k + 1] = X1[(k + 1) + 1] /\ b \in 1..(Len(X1) - 1)
        BY ONLY <1>7, <3>1, <3>2, <3>4, k \in 1..(Len(X) - 1)
      <4>2. k + 1 = b \/ X[k] = X1[k + 1]
        BY ONLY <1>7, <3>1, <3>2, <3>4, k \in 1..(Len(X) - 1)
      <4>3. X1[k + 1].is_free
        BY <1>2, <1>7, <4>2
      <4> QED
        BY <1>7, <4>1, <4>3
    <3> QED
      BY <1>7, <3>3, <3>4
  <2>5. blk \notin Els(bs) \ {bs[b]}
    <3>1. \A k \in 1..Len(bs) : bs[k] = blk => k = b
      BY <1>1, <1>2, LaidIs
    <3> QED
      BY <3>1 DEF Els
  <2> QED
    BY <1>2, <1>7, <1>9, <2>3, <2>4, <2>5 DEF bs, blk
<1> QED
  BY <1>8, <1>9
-----------------------------------------------------------------------------
(* The pages.  Every block of a page is a cell: the number of the page, and *)
(* the block.                                                               *)

Page == [page_index : Nat, units : Nat, blocks : Seq(Block)]

GoodPages(pgs) ==
  /\ pgs \in Seq(Page)
  /\ \A p, q \in 1..Len(pgs) : p < q => pgs[p].page_index < pgs[q].page_index
  /\ \A p \in 1..Len(pgs) : Laid(pgs[p].blocks, Memory!PageEnd(pgs[p])) /\ Merged(pgs[p].blocks)

\* A block of the page is in use.
InUse(page) == \E b \in 1..Len(page.blocks) : ~page.blocks[b].is_free

CellsOf(page) == {<<page.page_index, blk>> : blk \in Els(page.blocks)}
Cells(pgs) == UNION {CellsOf(pgs[p]) : p \in 1..Len(pgs)}

Ref(c) == <<c[1], c[2].offset>>
FreeIn(C) == {c \in C : c[2].is_free}

\* Cells of one page do not overlap.
Apart(C) ==
  /\ C \subseteq Nat \X Block
  /\ \A c, d \in C : c # d /\ c[1] = d[1] => Past(c[2]) <= d[2].offset \/ Past(d[2]) <= c[2].offset

LEMMA RefsDiffer ==
  ASSUME NEW C, Apart(C)
  PROVE  \A c, d \in C : Ref(c) = Ref(d) => c = d
<1> SUFFICES ASSUME NEW c \in C, NEW d \in C, Ref(c) = Ref(d), c # d PROVE FALSE
  OBVIOUS
<1>1. c[2] \in Block /\ d[2] \in Block /\ c[1] = d[1] /\ c[2].offset = d[2].offset
  BY DEF Apart, Ref
<1>2. Past(c[2]) <= d[2].offset \/ Past(d[2]) <= c[2].offset
  BY <1>1 DEF Apart
<1>3. /\ c[2].offset \in Nat /\ d[2].offset \in Nat /\ Past(c[2]) \in Nat /\ Past(d[2]) \in Nat
      /\ c[2].offset < Past(c[2]) /\ d[2].offset < Past(d[2])
  BY <1>1, PastIs
<1> QED
  BY <1>1, <1>2, <1>3

LEMMA PagesAre ==
  ASSUME NEW pgs, GoodPages(pgs)
  PROVE  /\ Len(pgs) \in Nat /\ DOMAIN pgs = 1..Len(pgs)
         /\ \A p \in 1..Len(pgs) : /\ pgs[p] \in Page /\ pgs[p].page_index \in Nat /\ pgs[p].units \in Nat
                                   /\ Len(pgs[p].blocks) \in Nat /\ DOMAIN pgs[p].blocks = 1..Len(pgs[p].blocks)
                                   /\ Memory!PageEnd(pgs[p]) \in Nat
         /\ \A p, q \in 1..Len(pgs) : pgs[p].page_index = pgs[q].page_index => p = q
         /\ \A c : c \in Cells(pgs) <=>
              \E p \in 1..Len(pgs) : \E b \in 1..Len(pgs[p].blocks) : c = <<pgs[p].page_index, pgs[p].blocks[b]>>
<1>1. Len(pgs) \in Nat /\ DOMAIN pgs = 1..Len(pgs) /\ \A p \in 1..Len(pgs) : pgs[p] \in Page
  BY DEF GoodPages
<1>2. ASSUME NEW p \in 1..Len(pgs)
      PROVE  /\ pgs[p].page_index \in Nat /\ pgs[p].units \in Nat
             /\ Len(pgs[p].blocks) \in Nat /\ DOMAIN pgs[p].blocks = 1..Len(pgs[p].blocks)
             /\ Memory!PageEnd(pgs[p]) \in Nat
  <2>1. pgs[p] \in Page
    BY <1>1
  <2>2. pgs[p].page_index \in Nat /\ pgs[p].units \in Nat /\ pgs[p].blocks \in Seq(Block)
    BY <2>1 DEF Page
  <2>3. Laid(pgs[p].blocks, Memory!PageEnd(pgs[p]))
    BY DEF GoodPages
  <2> QED
    BY <2>2, <2>3 DEF Laid
<1>3. \A p, q \in 1..Len(pgs) : pgs[p].page_index = pgs[q].page_index => p = q
  <2> SUFFICES ASSUME NEW p \in 1..Len(pgs), NEW q \in 1..Len(pgs), pgs[p].page_index = pgs[q].page_index, p # q PROVE FALSE
    OBVIOUS
  <2>1. p < q \/ q < p
    BY <1>1
  <2>2. pgs[p].page_index \in Nat /\ pgs[q].page_index \in Nat
    BY <1>2
  <2>3. pgs[p].page_index < pgs[q].page_index \/ pgs[q].page_index < pgs[p].page_index
    BY <2>1 DEF GoodPages
  <2> QED
    BY <2>2, <2>3
<1>4. \A c : c \in Cells(pgs) <=>
              \E p \in 1..Len(pgs) : \E b \in 1..Len(pgs[p].blocks) : c = <<pgs[p].page_index, pgs[p].blocks[b]>>
  BY DEF Cells, CellsOf, Els
<1> QED
  BY <1>1, <1>2, <1>3, <1>4

LEMMA CellsApart ==
  ASSUME NEW pgs, GoodPages(pgs)
  PROVE  Apart(Cells(pgs))
<1>1. ASSUME NEW c \in Cells(pgs) PROVE c \in Nat \X Block
  <2>1. PICK p \in 1..Len(pgs) : \E b \in 1..Len(pgs[p].blocks) : c = <<pgs[p].page_index, pgs[p].blocks[b]>>
    BY PagesAre
  <2>2. PICK b \in 1..Len(pgs[p].blocks) : c = <<pgs[p].page_index, pgs[p].blocks[b]>>
    BY <2>1
  <2>3. Laid(pgs[p].blocks, Memory!PageEnd(pgs[p])) /\ pgs[p].page_index \in Nat
    BY PagesAre DEF GoodPages
  <2>4. pgs[p].blocks[b] \in Block
    BY <2>3, LaidIs
  <2> QED
    BY <2>2, <2>3, <2>4
<1>2. ASSUME NEW c \in Cells(pgs), NEW d \in Cells(pgs), c # d, c[1] = d[1]
      PROVE  Past(c[2]) <= d[2].offset \/ Past(d[2]) <= c[2].offset
  <2>1. PICK p \in 1..Len(pgs) : \E b \in 1..Len(pgs[p].blocks) : c = <<pgs[p].page_index, pgs[p].blocks[b]>>
    BY PagesAre
  <2>2. PICK b \in 1..Len(pgs[p].blocks) : c = <<pgs[p].page_index, pgs[p].blocks[b]>>
    BY <2>1
  <2>8. PICK q \in 1..Len(pgs) : \E e \in 1..Len(pgs[q].blocks) : d = <<pgs[q].page_index, pgs[q].blocks[e]>>
    BY PagesAre
  <2>3. PICK e \in 1..Len(pgs[q].blocks) : d = <<pgs[q].page_index, pgs[q].blocks[e]>>
    BY <2>8
  <2>4. p = q
    BY <1>2, <2>2, <2>3, PagesAre
  <2>5. b # e
    BY <1>2, <2>2, <2>3, <2>4
  <2>6. Laid(pgs[p].blocks, Memory!PageEnd(pgs[p])) /\ Len(pgs[p].blocks) \in Nat
    BY PagesAre DEF GoodPages
  <2>7. b < e \/ e < b
    BY <2>4, <2>5, <2>6
  <2> QED
    BY <2>2, <2>3, <2>4, <2>6, <2>7 DEF Laid
<1> QED
  BY <1>1, <1>2 DEF Apart

\* What the pointer of the free list finds.
LEMMA CellFound ==
  ASSUME NEW pgs, GoodPages(pgs), NEW c \in Cells(pgs)
  PROVE  \E p \in 1..Len(pgs) : \E b \in 1..Len(pgs[p].blocks) :
           /\ Memory!PageOf(pgs, Ref(c)) = p /\ Memory!BlockOf(pgs[p], Ref(c)) = b
           /\ c = <<pgs[p].page_index, pgs[p].blocks[b]>>
           /\ Memory!SizeIn(pgs, Ref(c)) = c[2].block_size
<1>1. PICK p \in 1..Len(pgs) : \E b \in 1..Len(pgs[p].blocks) : c = <<pgs[p].page_index, pgs[p].blocks[b]>>
  BY PagesAre
<1>2. PICK b \in 1..Len(pgs[p].blocks) : c = <<pgs[p].page_index, pgs[p].blocks[b]>>
  BY <1>1
<1>3. Ref(c)[1] = pgs[p].page_index /\ Ref(c)[2] = pgs[p].blocks[b].offset
  BY <1>2 DEF Ref
<1>4. Memory!PageOf(pgs, Ref(c)) = p
  <2>1. DOMAIN pgs = 1..Len(pgs) /\ \A q \in 1..Len(pgs) : pgs[q].page_index = pgs[p].page_index => q = p
    BY PagesAre
  <2> QED
    BY <1>3, <2>1 DEF Memory!PageOf
<1>5. Memory!BlockOf(pgs[p], Ref(c)) = b
  <2>1. DOMAIN pgs[p].blocks = 1..Len(pgs[p].blocks) /\ Laid(pgs[p].blocks, Memory!PageEnd(pgs[p]))
    BY PagesAre DEF GoodPages
  <2>2. \A k \in 1..Len(pgs[p].blocks) : pgs[p].blocks[k].offset = pgs[p].blocks[b].offset => k = b
    BY <2>1, LaidIs
  <2> QED
    BY <1>3, <2>1, <2>2 DEF Memory!BlockOf
<1>6. Memory!SizeIn(pgs, Ref(c)) = c[2].block_size
  BY <1>2, <1>4, <1>5 DEF Memory!SizeIn
<1> QED
  BY <1>2, <1>4, <1>5, <1>6

\* The blocks of one page become those of X: Gone are gone, and New are new.
PageChange(pgs2, pgs, p, X, Gone, New) ==
  /\ p \in 1..Len(pgs)
  /\ pgs2 = [pgs EXCEPT ![p].blocks = X]
  /\ Laid(X, Memory!PageEnd(pgs[p])) /\ Merged(X)
  /\ Els(X) = (Els(pgs[p].blocks) \ Gone) \union New

Of(i, S) == {<<i, blk>> : blk \in S}

LEMMA PageChanged ==
  ASSUME NEW pgs, GoodPages(pgs), NEW p, NEW X, NEW Gone, NEW New, NEW pgs2, PageChange(pgs2, pgs, p, X, Gone, New)
  PROVE  /\ GoodPages(pgs2) /\ Len(pgs2) = Len(pgs)
         /\ \A q \in 1..Len(pgs) : q # p => pgs2[q] = pgs[q]
         /\ pgs2[p].blocks = X /\ pgs2[p].page_index = pgs[p].page_index
         /\ Cells(pgs2) = (Cells(pgs) \ Of(pgs[p].page_index, Gone)) \union Of(pgs[p].page_index, New)
<1> USE DEF PageChange
<1> DEFINE i == pgs[p].page_index
           page == [pgs[p] EXCEPT !.blocks = X]
<1>1. /\ Len(pgs) \in Nat /\ pgs \in Seq(Page) /\ pgs[p] \in Page
      /\ \A q \in 1..Len(pgs) : pgs[q].page_index = i => q = p
  BY PagesAre DEF GoodPages
<1>2. /\ page \in Page /\ page.blocks = X /\ page.page_index = i /\ Memory!PageEnd(page) = Memory!PageEnd(pgs[p])
  BY <1>1 DEF Page, Laid, Memory!PageEnd
<1>3. pgs2 = [pgs EXCEPT ![p] = page]
  OBVIOUS
<1> HIDE DEF page
<1>4. /\ pgs2 \in Seq(Page) /\ Len(pgs2) = Len(pgs)
      /\ \A q \in 1..Len(pgs) : pgs2[q] = IF q = p THEN page ELSE pgs[q]
  BY <1>1, <1>2, <1>3
<1>5. \A q \in 1..Len(pgs) : pgs2[q].page_index = pgs[q].page_index
  BY <1>2, <1>4
<1>6. \A q \in 1..Len(pgs) : Laid(pgs2[q].blocks, Memory!PageEnd(pgs2[q])) /\ Merged(pgs2[q].blocks)
  BY <1>2, <1>4 DEF GoodPages
<1>7. \A q, r \in 1..Len(pgs2) : q < r => pgs2[q].page_index < pgs2[r].page_index
  BY <1>4, <1>5 DEF GoodPages
<1>8. GoodPages(pgs2)
  BY <1>4, <1>6, <1>7 DEF GoodPages
<1>9. /\ \A q \in 1..Len(pgs) : q # p => CellsOf(pgs2[q]) = CellsOf(pgs[q])
      /\ CellsOf(pgs2[p]) = (CellsOf(pgs[p]) \ Of(i, Gone)) \union Of(i, New)
  <2>1. pgs2[p] = page
    BY <1>4
  <2>2. CellsOf(page) = (CellsOf(pgs[p]) \ Of(i, Gone)) \union Of(i, New)
    BY <1>2 DEF CellsOf, Of
  <2> QED
    BY <1>4, <2>1, <2>2
<1>10. \A q \in 1..Len(pgs) : q # p => CellsOf(pgs[q]) \intersect Of(i, Gone) = {}
  BY <1>1 DEF CellsOf, Of
<1>11. Cells(pgs2) = (Cells(pgs) \ Of(i, Gone)) \union Of(i, New)
  <2>1. ASSUME NEW c \in Cells(pgs2) PROVE c \in (Cells(pgs) \ Of(i, Gone)) \union Of(i, New)
    <3>1. PICK q \in 1..Len(pgs) : c \in CellsOf(pgs2[q])
      BY <1>4 DEF Cells
    <3>2. CASE q = p
      BY <1>9, <3>1, <3>2 DEF Cells
    <3>3. CASE q # p
      BY <1>9, <1>10, <3>1, <3>3 DEF Cells
    <3> QED
      BY <3>2, <3>3
  <2>2. ASSUME NEW c \in Cells(pgs), c \notin Of(i, Gone) PROVE c \in Cells(pgs2)
    <3>1. PICK q \in 1..Len(pgs) : c \in CellsOf(pgs[q])
      BY DEF Cells
    <3>2. c \in CellsOf(pgs2[q])
      BY <1>9, <2>2, <3>1
    <3> QED
      BY <1>4, <3>1, <3>2 DEF Cells
  <2>3. Of(i, New) \subseteq Cells(pgs2)
    BY <1>4, <1>9 DEF Cells
  <2> QED
    BY <2>1, <2>2, <2>3
<1> QED
  BY <1>2, <1>4, <1>8, <1>11

-----------------------------------------------------------------------------
(* The list of free blocks. *)

Listed(frees, F) ==
  /\ frees \in Seq(Nat \X Nat)
  /\ \A i, j \in 1..Len(frees) : frees[i] = frees[j] => i = j
  /\ Els(frees) = {Ref(c) : c \in F}
  /\ \A i, j \in 1..Len(frees) : \A c, d \in F :
       i < j /\ frees[i] = Ref(c) /\ frees[j] = Ref(d) => c[2].block_size >= d[2].block_size

\* remove_glthread of the block of c
LEMMA UnlistedIs ==
  ASSUME NEW frees, NEW F, Listed(frees, F), Apart(F), NEW c \in F
  PROVE  Listed(Memory!unlisted(frees, Ref(c)), F \ {c})
<1> DEFINE p == CHOOSE i \in DOMAIN frees : frees[i] = Ref(c)
           t == Memory!unlisted(frees, Ref(c))
<1>1. Len(frees) \in Nat /\ DOMAIN frees = 1..Len(frees) /\ frees \in Seq(Nat \X Nat)
  BY DEF Listed
<1>2. p \in 1..Len(frees) /\ frees[p] = Ref(c)
  <2>1. \E i \in 1..Len(frees) : frees[i] = Ref(c)
    BY DEF Listed, Els
  <2> QED
    BY <1>1, <2>1
<1>3. t = Memory!RemoveAt(frees, p)
  BY DEF Memory!unlisted
<1> HIDE DEF p, t
<1>4. t \in Seq(Nat \X Nat) /\ Without(t, frees, p)
  BY <1>1, <1>2, <1>3, RemovesOne
<1>5. Els(t) = Els(frees) \ {Ref(c)}
  BY <1>1, <1>2, <1>4, WithoutEls DEF Listed
<1>6. \A i \in 1..Len(t) : \/ i < p /\ i \in 1..Len(frees) /\ t[i] = frees[i]
                           \/ i >= p /\ i + 1 \in 1..Len(frees) /\ t[i] = frees[i + 1]
  <2>1. Len(frees) \in Nat /\ p \in 1..Len(frees)
    BY <1>1, <1>2
  <2>2. Len(t) = Len(frees) - 1 /\ \A i \in 1..Len(t) : t[i] = IF i < p THEN frees[i] ELSE frees[i + 1]
    BY <1>4 DEF Without
  <2> QED
    BY ONLY <2>1, <2>2
<1>7. \A i, j \in 1..Len(t) : t[i] = t[j] => i = j
  <2> SUFFICES ASSUME NEW i \in 1..Len(t), NEW j \in 1..Len(t), t[i] = t[j] PROVE i = j
    OBVIOUS
  <2> DEFINE k == IF i < p THEN i ELSE i + 1
             l == IF j < p THEN j ELSE j + 1
  <2>1. k \in 1..Len(frees) /\ t[i] = frees[k] /\ l \in 1..Len(frees) /\ t[j] = frees[l]
    BY <1>2, <1>6
  <2>2. k = l
    BY <2>1 DEF Listed
  <2> QED
    BY <1>2, <2>2
<1>8. Els(t) = {Ref(d) : d \in F \ {c}}
  <2>1. \A d \in F : Ref(d) = Ref(c) => d = c
    BY RefsDiffer
  <2> QED
    BY <1>5, <2>1 DEF Listed
<1>9. ASSUME NEW i \in 1..Len(t), NEW j \in 1..Len(t), NEW d \in F \ {c}, NEW e \in F \ {c},
             i < j, t[i] = Ref(d), t[j] = Ref(e)
      PROVE  d[2].block_size >= e[2].block_size
  <2> DEFINE k == IF i < p THEN i ELSE i + 1
             l == IF j < p THEN j ELSE j + 1
  <2>1. k \in 1..Len(frees) /\ t[i] = frees[k] /\ l \in 1..Len(frees) /\ t[j] = frees[l] /\ k < l
    BY <1>2, <1>6, <1>9
  <2> HIDE DEF k, l
  <2> QED
    BY <1>9, <2>1 DEF Listed
<1> QED
  BY <1>4, <1>7, <1>8, <1>9 DEF Listed, t

\* mm_add_free_block_meta_data_to_free_block_list of the block of c
Adds(pgs, frees, F, c) ==
  /\ Listed(frees, F) /\ c \notin F /\ Apart(F \union {c})
  /\ \A d \in F \union {c} : Memory!SizeIn(pgs, Ref(d)) = d[2].block_size

LEMMA AddedIs ==
  ASSUME NEW pgs, NEW frees, NEW F, NEW c, Adds(pgs, frees, F, c)
  PROVE  Listed(Memory!add_free_block(pgs, frees, Ref(c)), F \union {c})
<1> USE DEF Adds
<1> DEFINE size(r) == Memory!SizeIn(pgs, r)
           Here(i) == /\ i <= Len(frees) => size(frees[i]) < size(Ref(c))
                      /\ \A j \in 1..(i - 1) : size(frees[j]) >= size(Ref(c))
           q == CHOOSE i \in 1..(Len(frees) + 1) : Here(i)
           t == Memory!add_free_block(pgs, frees, Ref(c))
<1>1. Len(frees) \in Nat /\ frees \in Seq(Nat \X Nat)
  BY DEF Listed
<1>2. \A d \in F \union {c} : size(Ref(d)) = d[2].block_size /\ d[2].block_size \in Nat /\ Ref(d) \in Nat \X Nat
  <2> SUFFICES ASSUME NEW d \in F \union {c} PROVE d[2].block_size \in Nat /\ Ref(d) \in Nat \X Nat
    OBVIOUS
  <2>1. d[2] \in Block /\ d[1] \in Nat
    BY DEF Apart
  <2> QED
    BY <2>1, PastIs DEF Ref
<1>3. \A i \in 1..Len(frees) : \E d \in F : frees[i] = Ref(d)
  <2>1. \A i \in 1..Len(frees) : frees[i] \in Els(frees)
    BY DEF Els
  <2>2. Els(frees) = {Ref(d) : d \in F}
    BY DEF Listed
  <2> QED
    BY ONLY <2>1, <2>2
<1>4. \A i \in 1..Len(frees) : size(frees[i]) \in Nat
  BY <1>2, <1>3
<1>5. size(Ref(c)) = c[2].block_size /\ c[2].block_size \in Nat
  BY <1>2
<1> HIDE DEF size
<1>6. \E i \in 1..(Len(frees) + 1) : Here(i)
  <2> DEFINE I == {i \in 1..(Len(frees) + 1) : i <= Len(frees) => size(frees[i]) < size(Ref(c))}
  <2>1. I \in SUBSET Nat /\ Len(frees) + 1 \in I
    BY <1>1
  <2>2. PICK i \in I : \A j \in I : i <= j
    BY <2>1, LeastOf
  <2>3. i \in 1..(Len(frees) + 1) /\ (i <= Len(frees) => size(frees[i]) < size(Ref(c)))
    BY <2>2
  <2>4. ASSUME NEW j \in 1..(i - 1) PROVE size(frees[j]) >= size(Ref(c))
    <3>1. j \in 1..Len(frees) /\ ~(i <= j)
      BY <1>1, <2>3
    <3>2. j \notin I
      BY <2>2, <3>1
    <3>3. ~(size(frees[j]) < size(Ref(c)))
      BY <1>1, <3>1, <3>2
    <3> QED
      BY <1>4, <1>5, <3>1, <3>3
  <2> QED
    BY <2>3, <2>4
<1>7. q \in 1..(Len(frees) + 1) /\ Here(q)
  BY <1>6
<1>8. t = Memory!InsertAt(frees, q, Ref(c))
  BY DEF Memory!add_free_block, size
<1> HIDE DEF q, t
<1> DEFINE p == q - 1
<1>9. p \in 0..Len(frees) /\ p + 1 = q /\ Ref(c) \in Nat \X Nat
  BY <1>1, <1>2, <1>7
<1>10. t \in Seq(Nat \X Nat) /\ WithOne(t, frees, p, Ref(c))
  <2> HIDE DEF p
  <2> QED
    BY <1>1, <1>8, <1>9, InsertsOne
<1>11. /\ \A i \in 1..p : size(frees[i]) >= size(Ref(c))
       /\ p < Len(frees) => size(frees[p + 1]) < size(Ref(c))
  BY <1>1, <1>7, <1>9
<1> HIDE DEF p
<1>12. Els(t) = Els(frees) \union {Ref(c)}
  BY <1>1, <1>9, <1>10, WithOneEls
<1>13. \A i \in 1..Len(t) : \/ i <= p /\ i \in 1..Len(frees) /\ t[i] = frees[i]
                            \/ i = p + 1 /\ t[i] = Ref(c)
                            \/ i > p + 1 /\ i - 1 \in 1..Len(frees) /\ t[i] = frees[i - 1]
  <2>1. Len(frees) \in Nat /\ p \in 0..Len(frees)
    BY <1>1, <1>9
  <2>2. /\ Len(t) = Len(frees) + 1
        /\ \A i \in 1..Len(t) : t[i] = IF i <= p THEN frees[i] ELSE IF i = p + 1 THEN Ref(c) ELSE frees[i - 1]
    BY <1>10 DEF WithOne
  <2> QED
    BY ONLY <2>1, <2>2
<1>14. \A i \in 1..Len(frees) : frees[i] # Ref(c)
  <2>1. \A d \in F : Ref(d) # Ref(c)
    BY RefsDiffer
  <2> QED
    BY <1>3, <2>1
<1>15. \A i, j \in 1..Len(frees) : i < j => size(frees[i]) >= size(frees[j])
  <2> SUFFICES ASSUME NEW i \in 1..Len(frees), NEW j \in 1..Len(frees), i < j PROVE size(frees[i]) >= size(frees[j])
    OBVIOUS
  <2>1. PICK d \in F : frees[i] = Ref(d)
    BY <1>3
  <2>2. PICK e \in F : frees[j] = Ref(e)
    BY <1>3
  <2>3. d[2].block_size >= e[2].block_size
    BY <2>1, <2>2 DEF Listed
  <2> QED
    BY <1>2, <2>1, <2>2, <2>3
<1>16. \A i \in 1..Len(frees) : i > p => size(frees[i]) <= size(Ref(c))
  <2> SUFFICES ASSUME NEW i \in 1..Len(frees), i > p PROVE size(frees[i]) <= size(Ref(c))
    OBVIOUS
  <2>1. p + 1 \in 1..Len(frees) /\ p < Len(frees)
    BY ONLY <1>1, <1>9, i \in 1..Len(frees), i > p, SMTT(30)
  <2>2. size(frees[p + 1]) < size(Ref(c))
    BY <1>11, <2>1
  <2>3. i = p + 1 \/ p + 1 < i
    BY ONLY <1>1, <1>9, i \in 1..Len(frees), i > p
  <2>4. i = p + 1 \/ size(frees[p + 1]) >= size(frees[i])
    BY <1>15, <2>1, <2>3
  <2>5. size(frees[i]) \in Nat /\ size(frees[p + 1]) \in Nat /\ size(Ref(c)) \in Nat
    BY <1>4, <1>5, <2>1
  <2> QED
    BY <2>2, <2>4, <2>5
<1>17. \A i, j \in 1..Len(t) : t[i] = t[j] => i = j
  <2> SUFFICES ASSUME NEW i \in 1..Len(t), NEW j \in 1..Len(t), t[i] = t[j] PROVE i = j
    OBVIOUS
  <2>1. CASE i = p + 1 \/ j = p + 1
    <3>1. t[i] = Ref(c)
      <4>1. \A k \in 1..Len(t) : k = p + 1 => t[k] = Ref(c)
        BY <1>9, <1>10 DEF WithOne
      <4> QED
        BY ONLY <4>1, <2>1, t[i] = t[j], i \in 1..Len(t), j \in 1..Len(t)
    <3>2. \A k \in 1..Len(t) : t[k] = Ref(c) => k = p + 1
      BY ONLY <1>13, <1>14
    <3> QED
      BY ONLY <3>1, <3>2, t[i] = t[j], i \in 1..Len(t), j \in 1..Len(t)
  <2>2. CASE i # p + 1 /\ j # p + 1
    <3> DEFINE k == IF i <= p THEN i ELSE i - 1
               l == IF j <= p THEN j ELSE j - 1
    <3>1. k \in 1..Len(frees) /\ t[i] = frees[k] /\ l \in 1..Len(frees) /\ t[j] = frees[l]
      BY <1>9, <1>13, <2>2, SMTT(30)
    <3>2. k = l
      BY <3>1 DEF Listed
    <3> QED
      BY <1>9, <2>2, <3>2
  <2> QED
    BY <2>1, <2>2
<1>18. \A i, j \in 1..Len(t) : i < j => size(t[i]) >= size(t[j])
  <2> SUFFICES ASSUME NEW i \in 1..Len(t), NEW j \in 1..Len(t), i < j PROVE size(t[i]) >= size(t[j])
    OBVIOUS
  <2>1. CASE i # p + 1 /\ j # p + 1
    <3> DEFINE k == IF i <= p THEN i ELSE i - 1
               l == IF j <= p THEN j ELSE j - 1
    <3>1. k \in 1..Len(frees) /\ t[i] = frees[k] /\ l \in 1..Len(frees) /\ t[j] = frees[l] /\ k < l
      BY <1>9, <1>13, <2>1
    <3> HIDE DEF k, l
    <3> QED
      BY <1>15, <3>1
  <2>2. CASE i = p + 1
    <3>1. t[i] = Ref(c) /\ j - 1 \in 1..Len(frees) /\ t[j] = frees[j - 1] /\ j - 1 > p
      BY <1>9, <1>13, <2>2
    <3> QED
      BY <1>4, <1>5, <1>16, <3>1
  <2>3. CASE j = p + 1
    <3>1. t[j] = Ref(c) /\ i \in 1..p /\ t[i] = frees[i]
      BY <1>9, <1>13, <2>3
    <3> QED
      BY <1>11, <3>1
  <2> QED
    BY <2>1, <2>2, <2>3
<1>19. Els(t) = {Ref(d) : d \in F \union {c}}
  BY <1>12 DEF Listed
<1>20. \A i, j \in 1..Len(t) : \A d, e \in F \union {c} :
         i < j /\ t[i] = Ref(d) /\ t[j] = Ref(e) => d[2].block_size >= e[2].block_size
  BY <1>2, <1>18
<1> QED
  BY <1>10, <1>17, <1>19, <1>20 DEF Listed, t

-----------------------------------------------------------------------------
(* Allocation and release keep the pages and the list together. *)

MemInv ==
  /\ GoodPages(pages)
  /\ \A p \in 1..Len(pages) : InUse(pages[p])
  /\ Listed(free_list, FreeIn(Cells(pages)))

\* A free cell c from which a piece is cut: every page but its own is in use anyway.
Splits(pgs, frees, c, size) ==
  /\ GoodPages(pgs) /\ Listed(frees, FreeIn(Cells(pgs)))
  /\ c \in FreeIn(Cells(pgs)) /\ size \in Nat /\ size <= c[2].block_size
  /\ \A p \in 1..Len(pgs) : pgs[p].page_index # c[1] => InUse(pgs[p])
  /\ Memory!split(pgs, frees, Ref(c), size)

Cut(c, size) == <<c[1], Taken(c[2], size)>>
Left(c, size) == <<c[1], Rest(c[2], size)>>

\* What a split makes of the cells.
SplitCells(C, D, c, size) ==
  \/ D = (C \ {c}) \union {Cut(c, size)}
  \/ D = (C \ {c}) \union {Cut(c, size), Left(c, size)}

LEMMA SplitKeeps ==
  ASSUME NEW pgs, NEW frees, NEW c, NEW size, Splits(pgs, frees, c, size)
  PROVE  MemInv' /\ SplitCells(Cells(pgs), Cells(pages'), c, size)
<1>1. /\ GoodPages(pgs) /\ Listed(frees, FreeIn(Cells(pgs))) /\ c \in Cells(pgs) /\ c[2].is_free
      /\ size \in Nat /\ size <= c[2].block_size
      /\ \A p \in 1..Len(pgs) : pgs[p].page_index # c[1] => InUse(pgs[p])
      /\ Memory!split(pgs, frees, Ref(c), size)
  BY DEF Splits, FreeIn
<1>2. PICK p \in 1..Len(pgs) : \E b \in 1..Len(pgs[p].blocks) :
           /\ Memory!PageOf(pgs, Ref(c)) = p /\ Memory!BlockOf(pgs[p], Ref(c)) = b
           /\ c = <<pgs[p].page_index, pgs[p].blocks[b]>>
  BY <1>1, CellFound
<1>3. PICK b \in 1..Len(pgs[p].blocks) :
           /\ Memory!PageOf(pgs, Ref(c)) = p /\ Memory!BlockOf(pgs[p], Ref(c)) = b
           /\ c = <<pgs[p].page_index, pgs[p].blocks[b]>>
  BY <1>2
<1> DEFINE bs == pgs[p].blocks
           end == Memory!PageEnd(pgs[p])
           i == pgs[p].page_index
           blk == Taken(bs[b], size)
           rest == Rest(bs[b], size)
           X == [bs EXCEPT ![b] = blk]
           Y == Memory!InsertAt(X, b + 1, rest)
           L == Memory!unlisted(frees, Ref(c))
           C == Cells(pgs)
<1>4. Laid(bs, end) /\ Merged(bs) /\ Len(bs) \in Nat /\ bs[b] \in Block /\ c[1] = i /\ c[2] = bs[b] /\ bs[b].is_free
  <2>1. Laid(bs, end) /\ Merged(bs)
    BY <1>1 DEF GoodPages
  <2> QED
    BY <1>1, <1>3, <2>1, LaidIs
<1>5. TakenFrom(X, bs, end, b, size)
  BY <1>1, <1>4 DEF TakenFrom
<1>6. /\ Laid(X, end) /\ Merged(X) /\ Changed(X, bs, b, blk) /\ blk \in Block
      /\ Els(X) = (Els(bs) \ {bs[b]}) \union {blk}
  BY <1>5, TakenLaid
<1>7. Ref(c) = <<i, bs[b].offset>> /\ Ref(c)[1] = i
  BY <1>4 DEF Ref
<1>8. /\ rest = [offset |-> Memory!next_by_size(blk), block_size |-> (bs[b].block_size - size) - META, is_free |-> TRUE]
      /\ blk = [offset |-> bs[b].offset, block_size |-> size, is_free |-> FALSE]
      /\ rest.offset = Memory!next_by_size(blk)
  BY DEF Rest, Taken, Memory!next_by_size, Memory!Data
<1>9. \/ /\ bs[b].block_size - size >= META
         /\ pages' = [pgs EXCEPT ![p].blocks = Y]
         /\ free_list' = Memory!add_free_block(pages', L, <<i, rest.offset>>)
      \/ /\ ~(bs[b].block_size - size >= META)
         /\ pages' = [pgs EXCEPT ![p].blocks = X]
         /\ free_list' = L
  BY <1>1, <1>3, <1>7, <1>8 DEF Memory!split, Memory!splits
<1> HIDE DEF bs, end, i, blk, rest, X, Y, L
<1>10. Apart(C) /\ Apart(FreeIn(C)) /\ c \in FreeIn(C)
  BY <1>1, CellsApart DEF Apart, FreeIn
<1>11. Listed(L, FreeIn(C) \ {c})
  BY <1>1, <1>10, UnlistedIs DEF L
<1>12. ~blk.is_free /\ rest.is_free
  BY <1>8
<1>13. Cut(c, size) = <<i, blk>> /\ Left(c, size) = <<i, rest>>
  BY <1>4 DEF Cut, Left, blk, rest
<1>14. Of(i, {bs[b]}) = {c} /\ Of(i, {blk}) = {<<i, blk>>} /\ Of(i, {blk, rest}) = {<<i, blk>>, <<i, rest>>}
  BY <1>3 DEF Of, i, bs
<1>15. \A q \in 1..Len(pgs) : q # p => InUse(pgs[q])
  BY <1>1, <1>4, PagesAre DEF i
<1>16. CASE /\ ~(bs[b].block_size - size >= META)
            /\ pages' = [pgs EXCEPT ![p].blocks = X]
            /\ free_list' = L
  <2>1. PageChange(pages', pgs, p, X, {bs[b]}, {blk})
    BY <1>6, <1>16 DEF PageChange, bs, end
  <2>2. /\ GoodPages(pages') /\ Len(pages') = Len(pgs) /\ pages'[p].blocks = X
        /\ \A q \in 1..Len(pgs) : q # p => pages'[q] = pgs[q]
        /\ Cells(pages') = (C \ Of(i, {bs[b]})) \union Of(i, {blk})
    BY <1>1, <2>1, PageChanged DEF i
  <2>3. Cells(pages') = (C \ {c}) \union {<<i, blk>>}
    BY <1>14, <2>2
  <2>4. FreeIn(Cells(pages')) = FreeIn(C) \ {c}
    BY <1>12, <2>3 DEF FreeIn
  <2>5. InUse(pages'[p])
    <3>1. b \in 1..Len(X) /\ X[b] = blk
      BY <1>6 DEF Changed, bs
    <3> QED
      BY <1>12, <2>2, <3>1 DEF InUse
  <2>6. \A q \in 1..Len(pages') : InUse(pages'[q])
    BY <1>15, <2>2, <2>5
  <2>7. MemInv'
    BY <1>11, <1>16, <2>2, <2>4, <2>6 DEF MemInv
  <2> QED
    BY <1>13, <2>3, <2>7 DEF SplitCells
<1>17. CASE /\ bs[b].block_size - size >= META
            /\ pages' = [pgs EXCEPT ![p].blocks = Y]
            /\ free_list' = Memory!add_free_block(pages', L, <<i, rest.offset>>)
  <2>1. size + META <= bs[b].block_size
    BY <1>1, <1>4, <1>17, PastIs, Sizes0, SMTT(30)
  <2>2. /\ Laid(Y, end) /\ Merged(Y) /\ rest \in Block
        /\ Els(Y) = (Els(bs) \ {bs[b]}) \union {blk, rest}
    <3>1. SplitFrom(Y, X, bs, end, b, size)
      BY <1>5, <2>1 DEF SplitFrom, Y, rest
    <3> QED
      BY <3>1, RestLaid DEF blk, rest
  <2>3. PageChange(pages', pgs, p, Y, {bs[b]}, {blk, rest})
    BY <1>17, <2>2 DEF PageChange, bs, end
  <2>4. /\ GoodPages(pages') /\ Len(pages') = Len(pgs) /\ pages'[p].blocks = Y
        /\ \A q \in 1..Len(pgs) : q # p => pages'[q] = pgs[q]
        /\ Cells(pages') = (C \ Of(i, {bs[b]})) \union Of(i, {blk, rest})
    BY <1>1, <2>3, PageChanged DEF i
  <2>5. Cells(pages') = (C \ {c}) \union {<<i, blk>>, <<i, rest>>}
    BY <1>14, <2>4
  <2>6. FreeIn(Cells(pages')) = (FreeIn(C) \ {c}) \union {<<i, rest>>}
    BY <1>12, <2>5 DEF FreeIn
  <2>7. InUse(pages'[p])
    <3>1. \E k \in 1..Len(Y) : Y[k] = blk
      BY <2>2 DEF Els
    <3> QED
      BY <1>12, <2>4, <3>1 DEF InUse
  <2>8. \A q \in 1..Len(pages') : InUse(pages'[q])
    BY <1>15, <2>4, <2>7
  <2>9. Apart(Cells(pages')) /\ \A d \in Cells(pages') : Memory!SizeIn(pages', Ref(d)) = d[2].block_size
    BY <2>4, CellsApart, CellFound
  <2>10. <<i, rest>> \notin FreeIn(C) \ {c}
    <3>1. SUFFICES ASSUME <<i, rest>> \in C, <<i, rest>> # c PROVE FALSE
      BY DEF FreeIn
    <3>2. Past(rest) <= bs[b].offset \/ Past(bs[b]) <= rest.offset
      BY <1>1, <1>4, <1>10, <3>1 DEF Apart
    <3>3. Past(rest) = Past(bs[b]) /\ bs[b].offset < rest.offset /\ rest.offset < Past(rest)
      <4>1. PICK o \in Nat, z \in Nat : bs[b].offset = o /\ bs[b].block_size = z
        BY <1>4, PastIs
      <4>2. rest.offset = o + META + size /\ rest.block_size = z - size - META
        BY <4>1 DEF rest, Rest
      <4>3. Past(rest) = (o + META + size) + META + (z - size - META) /\ Past(bs[b]) = o + META + z
        BY <4>1, <4>2 DEF Past
      <4>4. size \in Nat /\ META \in Nat /\ META > 0 /\ size + META <= z
        BY <1>1, <2>1, <4>1, Sizes0
      <4> HIDE DEF rest, bs
      <4> QED
        BY ONLY <4>1, <4>2, <4>3, <4>4, o \in Nat, z \in Nat
    <3>4. Past(rest) \in Nat /\ bs[b].offset \in Nat /\ rest.offset \in Nat
      BY <1>4, <2>2, PastIs
    <3> QED
      BY <3>2, <3>3, <3>4
  <2>11. Adds(pages', L, FreeIn(C) \ {c}, <<i, rest>>)
    <3>1. (FreeIn(C) \ {c}) \union {<<i, rest>>} \subseteq Cells(pages')
      BY <2>6 DEF FreeIn
    <3> QED
      BY <1>11, <2>9, <2>10, <3>1 DEF Adds, Apart
  <2>12. Ref(<<i, rest>>) = <<i, rest.offset>>
    BY DEF Ref
  <2>13. Listed(free_list', FreeIn(Cells(pages')))
    <3>1. Listed(Memory!add_free_block(pages', L, Ref(<<i, rest>>)), (FreeIn(C) \ {c}) \union {<<i, rest>>})
      BY <2>11, AddedIs
    <3> QED
      BY <1>17, <2>6, <2>12, <3>1
  <2>14. MemInv'
    BY <2>4, <2>8, <2>13 DEF MemInv
  <2> QED
    BY <1>13, <2>5, <2>14 DEF SplitCells
<1> QED
  BY <1>9, <1>16, <1>17

\* The pages numbered without a gap, and the number after them.
LEMMA NumberedIs ==
  ASSUME GoodPages(pages)
  PROVE  \E n \in 0..Len(pages) :
           /\ Memory!Numbered = 1..n /\ Memory!Cardinality(Memory!Numbered) = n
           /\ \A p \in 1..n : pages[p].page_index < n
           /\ \A p \in 1..Len(pages) : n < p => n < pages[p].page_index
<1>1. /\ Len(pages) \in Nat /\ DOMAIN pages = 1..Len(pages)
      /\ \A p \in 1..Len(pages) : pages[p].page_index \in Nat
      /\ \A p, q \in 1..Len(pages) : p < q => pages[p].page_index < pages[q].page_index
  BY PagesAre DEF GoodPages
<1> DEFINE N == Memory!Numbered
           I == {k \in 1..(Len(pages) + 1) : k \notin N}
<1>2. N = {k \in 1..Len(pages) : \A j \in 1..k : pages[j].page_index = j - 1}
  BY <1>1 DEF Memory!Numbered
<1>3. I \in SUBSET Nat /\ Len(pages) + 1 \in I
  BY <1>1, <1>2
<1>4. PICK m \in I : \A j \in I : m <= j
  BY <1>3, LeastOf
<1> DEFINE n == m - 1
<1>5. m \in 1..(Len(pages) + 1) /\ m \notin N /\ n \in 0..Len(pages) /\ n \in Nat /\ n + 1 = m
  BY <1>1, <1>4
<1>6. \A k \in 1..n : k \in N
  <2> SUFFICES ASSUME NEW k \in 1..n PROVE k \in N
    OBVIOUS
  <2>1. k \in 1..(Len(pages) + 1) /\ ~(m <= k)
    BY <1>1, <1>5
  <2> QED
    BY <1>4, <2>1
<1>7. \A k \in 1..n : k \in 1..Len(pages) /\ pages[k].page_index = k - 1
  <2> SUFFICES ASSUME NEW k \in 1..n PROVE k \in 1..Len(pages) /\ pages[k].page_index = k - 1
    OBVIOUS
  <2>1. k \in N /\ k \in 1..k
    BY <1>6
  <2> QED
    BY <1>2, <2>1
<1> HIDE DEF N, I
<1>8. ASSUME m \in 1..Len(pages) PROVE pages[m].page_index # m - 1
  <2>1. ASSUME pages[m].page_index = m - 1 PROVE \A j \in 1..m : pages[j].page_index = j - 1
    <3>1. \A j \in 1..m : j = m \/ j \in 1..n
      BY <1>5
    <3> QED
      BY <1>7, <2>1, <3>1
  <2> QED
    BY <1>2, <1>5, <1>8, <2>1
<1>9. N = 1..n
  <2>1. ASSUME NEW k \in N PROVE k \in 1..n
    <3>1. k \in 1..Len(pages) /\ \A j \in 1..k : pages[j].page_index = j - 1
      BY <1>2
    <3>2. ASSUME m <= k PROVE FALSE
      <4>1. m \in 1..k /\ m \in 1..Len(pages)
        BY <1>1, <1>5, <3>1, <3>2
      <4> QED
        BY <1>8, <3>1, <4>1
    <3> QED
      BY <1>1, <1>5, <3>1, <3>2
  <2> QED
    BY <1>6, <2>1
<1>10. Memory!Cardinality(1..n) = n
  <2>1. Memory!Cardinality(1..n) = Cardinality(1..n)
    BY DEF Memory!Cardinality, Cardinality
  <2> QED
    BY <1>5, <2>1, FS_Interval
<1>11. \A p \in 1..n : pages[p].page_index < n
  BY <1>5, <1>7
<1>12. ASSUME NEW p \in 1..Len(pages), n < p PROVE n < pages[p].page_index
  <2>1. m \in 1..Len(pages) /\ m <= p
    BY <1>1, <1>5, <1>12
  <2>2. pages[m].page_index \in Nat /\ pages[p].page_index \in Nat
    BY <1>1, <2>1
  <2>3. n < pages[m].page_index
    <3>1. CASE n = 0
      BY <1>5, <1>8, <2>1, <2>2, <3>1
    <3>2. CASE n # 0
      <4>1. n \in 1..n /\ n \in 1..Len(pages) /\ n < m
        BY <1>5, <3>2
      <4>2. pages[n].page_index = n - 1 /\ pages[n].page_index < pages[m].page_index
        BY <1>1, <1>7, <2>1, <4>1
      <4>3. pages[m].page_index # m - 1
        BY <1>8, <2>1
      <4> QED
        BY <1>5, <2>2, <4>2, <4>3
    <3> QED
      BY <3>1, <3>2
  <2>4. CASE m = p
    BY <2>3, <2>4
  <2>5. CASE m # p
    <3>1. m < p
      BY <1>5, <2>1, <2>5
    <3>2. pages[m].page_index < pages[p].page_index
      BY <1>1, <2>1, <3>1
    <3> QED
      BY <1>5, <2>2, <2>3, <3>2
  <2> QED
    BY <2>4, <2>5
<1> QED
  BY <1>5, <1>9, <1>10, <1>11, <1>12 DEF N

\* One more page, with one free block.
NewBlock(units) == [offset |-> PAGE_HDR, block_size |-> Memory!max_allocatable(units), is_free |-> TRUE]

LEMMA NewPageIs ==
  ASSUME GoodPages(pages), NEW units \in Nat \ {0}, NEW pgs, pgs = Memory!new_page(units),
         NEW i, i = Memory!Cardinality(Memory!Numbered), Memory!max_allocatable(units) \in Nat
  PROVE  /\ GoodPages(pgs) /\ i \in Nat
         /\ \A c \in Cells(pages) : c[1] # i
         /\ Cells(pgs) = Cells(pages) \union {<<i, NewBlock(units)>>}
         /\ \A p \in 1..Len(pgs) : pgs[p].page_index # i => \E q \in 1..Len(pages) : pgs[p] = pages[q]
<1>1. PICK n \in 0..Len(pages) :
           /\ Memory!Numbered = 1..n /\ Memory!Cardinality(Memory!Numbered) = n
           /\ \A p \in 1..n : pages[p].page_index < n
           /\ \A p \in 1..Len(pages) : n < p => n < pages[p].page_index
  BY NumberedIs
<1> DEFINE blk == NewBlock(units)
           page == [page_index |-> n, units |-> units, blocks |-> <<blk>>]
<1>2. /\ Len(pages) \in Nat /\ n \in Nat /\ n <= Len(pages) /\ i = n /\ pages \in Seq(Page)
      /\ \A p \in 1..Len(pages) : pages[p].page_index \in Nat
  BY <1>1, PagesAre DEF GoodPages
<1>3. pgs = Memory!InsertAt(pages, n + 1, page)
  <2>1. Memory!new_page(units) =
          LET m == Memory!Cardinality(Memory!Numbered) IN
          Memory!InsertAt(pages, m + 1, [page_index |-> m, units |-> units, blocks |-> <<NewBlock(units)>>])
    BY DEF Memory!new_page, NewBlock
  <2>2. Memory!Cardinality(Memory!Numbered) = n
    BY <1>1
  <2> QED
    BY ONLY <2>1, <2>2, pgs = Memory!new_page(units)
<1>4. blk \in Block /\ blk.is_free /\ blk.offset = PAGE_HDR /\ blk.block_size = Memory!max_allocatable(units)
  BY Sizes0 DEF Block, NewBlock
<1>5. /\ page.page_index = n /\ page.units = units /\ page.blocks = <<blk>>
  OBVIOUS
<1> HIDE DEF blk
<1>6. page \in Page
  <2>1. <<blk>> \in Seq(Block)
    BY <1>4
  <2> QED
    BY <1>2, <2>1 DEF Page
<1> HIDE DEF page
<1>7. Laid(page.blocks, Memory!PageEnd(page)) /\ Merged(page.blocks)
  <2>1. Len(<<blk>>) = 1 /\ <<blk>>[1] = blk /\ <<blk>> \in Seq(Block)
    BY <1>4
  <2>2. PICK w \in Int : SYSTEM_PAGE_SIZE * units = w
    BY Sizes0
  <2>3. Memory!PageEnd(page) = w /\ Memory!max_allocatable(units) = w - PAGE_HDR - META
    BY <1>5, <2>2 DEF Memory!PageEnd, Memory!max_allocatable
  <2>4. Past(blk) = w /\ w \in Nat
    BY <1>4, <2>3, Sizes0 DEF Past
  <2>5. Laid(<<blk>>, w)
    BY <2>1, <2>4 DEF Laid
  <2>6. Merged(<<blk>>)
    BY <2>1 DEF Merged
  <2> QED
    BY <1>5, <2>3, <2>5, <2>6
<1>8. pgs \in Seq(Page) /\ WithOne(pgs, pages, n, page)
  BY <1>1, <1>2, <1>3, <1>6, InsertsOne
<1>9. /\ Len(pgs) = Len(pages) + 1
      /\ \A p \in 1..Len(pgs) : \/ p <= n /\ p \in 1..Len(pages) /\ pgs[p] = pages[p]
                                \/ p = n + 1 /\ pgs[p] = page
                                \/ p > n + 1 /\ p - 1 \in 1..Len(pages) /\ pgs[p] = pages[p - 1]
  <2>1. /\ Len(pgs) = Len(pages) + 1
        /\ \A p \in 1..Len(pgs) : pgs[p] = IF p <= n THEN pages[p] ELSE IF p = n + 1 THEN page ELSE pages[p - 1]
    BY <1>8 DEF WithOne
  <2>2. Len(pages) \in Nat /\ n \in 0..Len(pages)
    BY <1>2
  <2> QED
    BY ONLY <2>1, <2>2
<1>10. ASSUME NEW p \in 1..Len(pgs), NEW q \in 1..Len(pgs), p < q PROVE pgs[p].page_index < pgs[q].page_index
  <2>1. \A k, l \in 1..Len(pages) : k < l => pages[k].page_index < pages[l].page_index
    BY DEF GoodPages
  <2>2. CASE q <= n
    <3>1. p <= n /\ q <= n /\ ~(p > n + 1) /\ ~(q > n + 1) /\ p # n + 1 /\ q # n + 1
      BY <1>2, <1>9, <1>10, <2>2
    <3>2. p \in 1..Len(pages) /\ q \in 1..Len(pages) /\ pgs[p] = pages[p] /\ pgs[q] = pages[q]
      BY <1>9, <3>1
    <3> QED
      BY <1>10, <2>1, <3>2
  <2>3. CASE q = n + 1
    <3>1. p \in 1..n /\ pgs[p] = pages[p] /\ pgs[q] = page
      BY <1>2, <1>9, <1>10, <2>3
    <3> QED
      BY <1>1, <1>5, <3>1
  <2>4. CASE q > n + 1
    <3>1. q - 1 \in 1..Len(pages) /\ pgs[q] = pages[q - 1] /\ n < q - 1
      BY <1>2, <1>9, <2>4
    <3>2. CASE p <= n
      <4>1. p \in 1..Len(pages) /\ pgs[p] = pages[p] /\ p < q - 1
        BY <1>2, <1>9, <2>4, <3>2
      <4> QED
        BY <2>1, <3>1, <4>1
    <3>3. CASE p = n + 1
      BY <1>1, <1>5, <1>9, <3>1, <3>3, SMTT(30)
    <3>4. CASE p > n + 1
      <4>1. p - 1 \in 1..Len(pages) /\ pgs[p] = pages[p - 1] /\ p - 1 < q - 1
        BY <1>2, <1>9, <1>10, <3>4
      <4> QED
        BY <2>1, <3>1, <4>1
    <3> QED
      BY <1>2, <3>2, <3>3, <3>4
  <2> QED
    BY <1>2, <2>2, <2>3, <2>4
<1>11. GoodPages(pgs)
  <2>1. \A p \in 1..Len(pgs) : Laid(pgs[p].blocks, Memory!PageEnd(pgs[p])) /\ Merged(pgs[p].blocks)
    BY <1>7, <1>9 DEF GoodPages
  <2> QED
    BY <1>8, <1>10, <2>1 DEF GoodPages
<1>12. \A p \in 1..Len(pages) : pages[p].page_index # n
  <2> SUFFICES ASSUME NEW p \in 1..Len(pages) PROVE pages[p].page_index # n
    OBVIOUS
  <2>1. p \in 1..n \/ n < p
    BY <1>2
  <2> QED
    BY <1>1, <1>2, <2>1
<1>13. \A c \in Cells(pages) : c[1] # i
  BY <1>2, <1>12 DEF Cells, CellsOf
<1>14. Cells(pgs) = Cells(pages) \union {<<i, blk>>}
  <2>1. CellsOf(page) = {<<i, blk>>}
    <3>1. Els(page.blocks) = {blk}
      <4>1. Len(<<blk>>) = 1 /\ <<blk>>[1] = blk
        OBVIOUS
      <4>2. Els(<<blk>>) = {blk}
        BY <4>1 DEF Els
      <4> QED
        BY <1>5, <4>2
    <3> QED
      BY <1>2, <1>5, <3>1 DEF CellsOf
  <2>2. Els(pgs) = Els(pages) \union {page}
    BY <1>1, <1>2, <1>8, WithOneEls
  <2>3. \A s : Cells(s) = UNION {CellsOf(x) : x \in Els(s)}
    BY DEF Cells, Els
  <2>4. Cells(pgs) = UNION {CellsOf(x) : x \in Els(pages) \union {page}} /\ Cells(pages) = UNION {CellsOf(x) : x \in Els(pages)}
    BY <2>2, <2>3
  <2> QED
    BY <2>1, <2>4
<1>15. \A p \in 1..Len(pgs) : pgs[p].page_index # i => \E q \in 1..Len(pages) : pgs[p] = pages[q]
  BY <1>2, <1>5, <1>9
<1> QED
  BY <1>2, <1>11, <1>13, <1>14, <1>15 DEF blk

LEMMA ProductOfNats ==
  ASSUME NEW a \in Nat, NEW b \in Nat
  PROVE  a * b \in Nat
OBVIOUS

LEMMA ProductOfSums ==
  ASSUME NEW a \in Nat, NEW b \in Nat, NEW c \in Nat
  PROVE  (a + b) * (c + 1) = a * c + b * c + a + b
OBVIOUS

\* A new page for size holds it.
LEMMA RoomInPages ==
  ASSUME NEW size \in Nat, NEW units, units = size \div Memory!max_allocatable(1) + 1
  PROVE  units \in Nat \ {0} /\ Memory!max_allocatable(units) \in Nat /\ size <= Memory!max_allocatable(units)
<1> DEFINE m == SYSTEM_PAGE_SIZE - PAGE_HDR - META
           q == size \div m
<1>1. m \in Nat /\ m > 0 /\ Memory!max_allocatable(1) = m
  BY Sizes0 DEF Memory!max_allocatable
<1>2. units = q + 1
  BY <1>1
<1> HIDE DEF m
<1>3. q \in Int /\ (size % m) \in 0..(m - 1) /\ size = m * q + (size % m)
  BY <1>1
<1> HIDE DEF q
<1>4. PICK r \in Nat : r < m /\ size = m * q + r
  BY <1>1, <1>3
<1>5. q \in Nat
  <2>1. ASSUME q <= -1 PROVE FALSE
    <3>1. m * q <= -m
      BY ONLY <1>1, <1>3, <2>1, m \in Nat, q \in Int
    <3>2. m * q \in Int
      BY <1>1, <1>3
    <3> QED
      BY ONLY <1>1, <1>4, <3>1, <3>2, m \in Nat, size \in Nat, r \in Nat
  <2> QED
    BY <1>3, <2>1
<1>6. PICK k \in Nat : SYSTEM_PAGE_SIZE = m + k /\ k = PAGE_HDR + META
  <2>1. PAGE_HDR + META \in Nat /\ SYSTEM_PAGE_SIZE = m + (PAGE_HDR + META)
    BY Sizes0 DEF m
  <2> QED
    BY <2>1
<1>7. (m + k) * (q + 1) = m * q + k * q + m + k
  BY <1>1, <1>5, ProductOfSums
<1>8. Memory!max_allocatable(units) = m * q + k * q + m
  <2>1. Memory!max_allocatable(units) = SYSTEM_PAGE_SIZE * (q + 1) - PAGE_HDR - META
    BY <1>2 DEF Memory!max_allocatable
  <2>2. SYSTEM_PAGE_SIZE * (q + 1) = m * q + k * q + m + k
    BY <1>6, <1>7
  <2>3. m * q \in Int /\ k * q \in Int
    BY <1>1, <1>5
  <2> HIDE DEF m
  <2> QED
    BY ONLY <1>1, <1>6, <2>1, <2>2, <2>3, Sizes0
<1>9. m * q \in Nat /\ k * q \in Nat
  BY <1>1, <1>5, ProductOfNats
<1> QED
  BY ONLY <1>1, <1>2, <1>4, <1>5, <1>8, <1>9, size \in Nat

UsedIn(C) == {c \in C : ~c[2].is_free}

\* A piece of the size that is asked for, cut from a free cell.
CutsFrom(C, D, size) ==
  \E B, c : /\ Apart(B) /\ UsedIn(B) = UsedIn(C)
            /\ c \in FreeIn(B) /\ size <= c[2].block_size
            /\ SplitCells(B, D, c, size)

LEMMA AllocKeeps ==
  ASSUME MemInv, NEW size \in Sizes, Memory!Alloc(size)
  PROVE  MemInv' /\ CutsFrom(Cells(pages), Cells(pages'), size)
<1> DEFINE units == size \div Memory!max_allocatable(1) + 1
           pgs == Memory!new_page(units)
           i == Memory!Cardinality(Memory!Numbered)
           ref == <<i, PAGE_HDR>>
           frees == Memory!add_free_block(pgs, free_list, ref)
           C == Cells(pages)
           head == free_list[1]
           d == <<i, NewBlock(units)>>
<1>1. size \in Nat
  BY MemoryAssumption DEF Memory!MemoryAssumption
<1>2. /\ GoodPages(pages) /\ Listed(free_list, FreeIn(C)) /\ Apart(C)
      /\ \A p \in 1..Len(pages) : InUse(pages[p])
  BY CellsApart DEF MemInv
<1>3. \/ /\ free_list # <<>> /\ Memory!SizeIn(pages, head) >= size
         /\ Memory!split(pages, free_list, head, size)
      \/ Memory!split(pgs, frees, ref, size)
  BY DEF Memory!Alloc
<1> HIDE DEF pgs, i, frees, head, C
<1>4. CASE /\ free_list # <<>> /\ Memory!SizeIn(pages, head) >= size
           /\ Memory!split(pages, free_list, head, size)
  <2>1. free_list \in Seq(Nat \X Nat) /\ Els(free_list) = {Ref(c) : c \in FreeIn(C)}
    BY <1>2 DEF Listed
  <2>2. 1 \in 1..Len(free_list)
    BY <1>4, <2>1
  <2>3. PICK c \in FreeIn(C) : head = Ref(c)
    BY <2>1, <2>2 DEF Els, head
  <2>4. c \in C /\ Memory!SizeIn(pages, Ref(c)) = c[2].block_size
    BY <1>2, CellFound DEF FreeIn, C
  <2>5. c[2].block_size \in Nat
    BY <1>2, <2>4, PastIs DEF Apart
  <2>6. size <= c[2].block_size
    BY <1>1, <1>4, <2>3, <2>4, <2>5
  <2>7. Splits(pages, free_list, c, size)
    BY <1>1, <1>2, <1>4, <2>3, <2>6 DEF Splits, C
  <2>8. MemInv' /\ SplitCells(C, Cells(pages'), c, size)
    BY ONLY <2>7, SplitKeeps DEF C
  <2> QED
    BY <1>2, <2>6, <2>8 DEF CutsFrom, C
<1>5. CASE Memory!split(pgs, frees, ref, size)
  <2>1. units \in Nat \ {0} /\ Memory!max_allocatable(units) \in Nat /\ size <= Memory!max_allocatable(units)
    BY <1>1, RoomInPages
  <2> HIDE DEF units
  <2>2. /\ GoodPages(pgs) /\ i \in Nat
        /\ \A c \in C : c[1] # i
        /\ Cells(pgs) = C \union {d}
        /\ \A p \in 1..Len(pgs) : pgs[p].page_index # i => \E q \in 1..Len(pages) : pgs[p] = pages[q]
    BY <1>2, <2>1, NewPageIs DEF pgs, i, C
  <2>3. /\ d[1] = i /\ d[2].is_free /\ d[2].offset = PAGE_HDR /\ d[2].block_size = Memory!max_allocatable(units)
        /\ Ref(d) = ref
    BY DEF NewBlock, Ref
  <2> HIDE DEF d
  <2>4. Apart(Cells(pgs)) /\ \A c \in Cells(pgs) : Memory!SizeIn(pgs, Ref(c)) = c[2].block_size
    BY <2>2, CellsApart, CellFound
  <2>5. FreeIn(Cells(pgs)) = FreeIn(C) \union {d} /\ d \in FreeIn(Cells(pgs)) /\ UsedIn(Cells(pgs)) = UsedIn(C)
    BY <2>2, <2>3 DEF FreeIn, UsedIn
  <2>6. Adds(pgs, free_list, FreeIn(C), d)
    <3>1. d \notin FreeIn(C)
      BY <2>2, <2>3 DEF FreeIn
    <3>2. Apart(FreeIn(C) \union {d}) /\ FreeIn(C) \union {d} \subseteq Cells(pgs)
      BY <2>2, <2>4 DEF FreeIn, Apart
    <3> QED
      BY <1>2, <2>4, <3>1, <3>2 DEF Adds
  <2>7. Listed(frees, FreeIn(Cells(pgs)))
    BY <2>3, <2>5, <2>6, AddedIs DEF frees
  <2>8. Splits(pgs, frees, d, size)
    <3>1. \A p \in 1..Len(pgs) : pgs[p].page_index # d[1] => InUse(pgs[p])
      BY <1>2, <2>2, <2>3
    <3> QED
      BY <1>1, <1>5, <2>1, <2>2, <2>3, <2>5, <2>7, <3>1 DEF Splits
  <2>9. MemInv' /\ SplitCells(Cells(pgs), Cells(pages'), d, size)
    BY ONLY <2>8, SplitKeeps
  <2> QED
    BY <2>1, <2>3, <2>4, <2>5, <2>9 DEF CutsFrom, C
<1> QED
  BY <1>3, <1>4, <1>5

\* A page the last block of which is freed goes.
LEMMA PageGone ==
  ASSUME NEW pgs, GoodPages(pgs), NEW p \in 1..Len(pgs), NEW pgs2, pgs2 = Memory!RemoveAt(pgs, p)
  PROVE  /\ GoodPages(pgs2)
         /\ \A q \in 1..Len(pgs2) : \E r \in 1..Len(pgs) : pgs2[q] = pgs[r]
         /\ Cells(pgs2) = Cells(pgs) \ CellsOf(pgs[p])
<1>1. /\ Len(pgs) \in Nat /\ pgs \in Seq(Page)
      /\ \A q, r \in 1..Len(pgs) : pgs[q].page_index = pgs[r].page_index => q = r
      /\ \A q, r \in 1..Len(pgs) : q < r => pgs[q].page_index < pgs[r].page_index
      /\ \A q \in 1..Len(pgs) : Laid(pgs[q].blocks, Memory!PageEnd(pgs[q])) /\ Merged(pgs[q].blocks)
  BY PagesAre DEF GoodPages
<1>2. pgs2 \in Seq(Page) /\ Without(pgs2, pgs, p)
  BY <1>1, RemovesOne
<1>3. /\ Len(pgs2) = Len(pgs) - 1
      /\ \A q \in 1..Len(pgs2) : pgs2[q] = IF q < p THEN pgs[q] ELSE pgs[q + 1]
  BY <1>2 DEF Without
<1>4. \A q \in 1..Len(pgs2) : \/ q < p /\ q \in 1..Len(pgs) /\ pgs2[q] = pgs[q]
                              \/ q >= p /\ q + 1 \in 1..Len(pgs) /\ pgs2[q] = pgs[q + 1]
  BY ONLY <1>1, <1>3, p \in 1..Len(pgs)
<1>5. ASSUME NEW q \in 1..Len(pgs2), NEW r \in 1..Len(pgs2), q < r PROVE pgs2[q].page_index < pgs2[r].page_index
  <2> DEFINE k == IF q < p THEN q ELSE q + 1
             l == IF r < p THEN r ELSE r + 1
  <2>1. k \in 1..Len(pgs) /\ pgs2[q] = pgs[k]
    BY <1>3, <1>4
  <2>2. l \in 1..Len(pgs) /\ pgs2[r] = pgs[l]
    BY <1>3, <1>4
  <2>3. k < l
    BY ONLY <1>5, q \in 1..Len(pgs2), r \in 1..Len(pgs2), p \in 1..Len(pgs)
  <2> QED
    BY <1>1, <2>1, <2>2, <2>3
<1>6. \A q \in 1..Len(pgs2) : Laid(pgs2[q].blocks, Memory!PageEnd(pgs2[q])) /\ Merged(pgs2[q].blocks)
  BY <1>1, <1>4
<1>7. Els(pgs2) = Els(pgs) \ {pgs[p]}
  BY <1>1, <1>2, WithoutEls
<1>8. Cells(pgs2) = Cells(pgs) \ CellsOf(pgs[p])
  <2>1. \A s : Cells(s) = UNION {CellsOf(x) : x \in Els(s)}
    BY DEF Cells, Els
  <2>2. \A x \in Els(pgs) : x # pgs[p] => x.page_index # pgs[p].page_index
    BY <1>1 DEF Els
  <2>3. \A x \in Els(pgs) : x # pgs[p] => CellsOf(x) \cap CellsOf(pgs[p]) = {}
    BY <2>2 DEF CellsOf
  <2>4. pgs[p] \in Els(pgs)
    BY DEF Els
  <2>5. Cells(pgs2) = UNION {CellsOf(x) : x \in Els(pgs) \ {pgs[p]}} /\ Cells(pgs) = UNION {CellsOf(x) : x \in Els(pgs)}
    BY <1>7, <2>1
  <2> QED
    BY <2>3, <2>4, <2>5
<1> QED
  BY <1>2, <1>4, <1>5, <1>6, <1>8 DEF GoodPages

\* A block in use is given up.
GivesUp(C, D) == \E c \in UsedIn(C) : UsedIn(D) = UsedIn(C) \ {c}

LEMMA FreeKeeps ==
  ASSUME MemInv, NEW p \in 1..Len(pages), NEW b \in 1..Len(pages[p].blocks), Memory!Free(p, b)
  PROVE  MemInv' /\ GivesUp(Cells(pages), Cells(pages'))
<1> DEFINE page == pages[p]
           bs == page.blocks
           end == Memory!PageEnd(page)
           i == page.page_index
           blk == Freed(page, b)
           X == Memory!unions([bs EXCEPT ![b] = blk], b)
           N == NextGone(bs, b)
           C == Cells(pages)
           F == FreeIn(C)
           c == <<i, bs[b]>>
           prev == <<i, bs[b - 1]>>
           P == IF PrevFree(bs, b) THEN {prev} ELSE {}
           start == IF PrevFree(bs, b) THEN prev ELSE <<i, blk>>
           none == IF Memory!IsFree(bs, b + 1) THEN Memory!unlisted(free_list, <<i, bs[b + 1].offset>>) ELSE free_list
           frees == IF Memory!IsFree(bs, b - 1) THEN Memory!unlisted(none, <<i, bs[b - 1].offset>>) ELSE none
<1>1. /\ GoodPages(pages) /\ Listed(free_list, F) /\ Apart(C) /\ Apart(F)
      /\ \A q \in 1..Len(pages) : InUse(pages[q])
  <2>1. GoodPages(pages) /\ Listed(free_list, F) /\ \A q \in 1..Len(pages) : InUse(pages[q])
    BY DEF MemInv
  <2>2. Apart(C)
    BY <2>1, CellsApart
  <2>3. Apart(F)
    BY <2>2 DEF Apart, FreeIn
  <2> QED
    BY <2>1, <2>2, <2>3
<1>2. Laid(bs, end) /\ Merged(bs) /\ Len(bs) \in Nat /\ DOMAIN bs = 1..Len(bs) /\ i \in Nat /\ b \in 1..Len(bs)
  BY <1>1, PagesAre DEF GoodPages
<1>3. \A k \in 1..Len(bs) : bs[k] \in Block /\ <<i, bs[k]>> \in C
  BY <1>1, <1>2, LaidIs, PagesAre
<1>4. \A j, k \in 1..Len(bs) : bs[j].offset = bs[k].offset => j = k
  BY <1>2, LaidIs
<1>5. /\ ~bs[b].is_free
      /\ \/ Len(X) = 1 /\ pages' = Memory!RemoveAt(pages, p) /\ free_list' = frees
         \/ /\ Len(X) # 1 /\ pages' = [pages EXCEPT ![p].blocks = X]
            /\ free_list' = Memory!add_free_block(pages', frees,
                               <<i, bs[IF Memory!IsFree(bs, b - 1) THEN b - 1 ELSE b].offset>>)
  BY DEF Memory!Free, Freed
<1> HIDE DEF X
<1>6. /\ Laid(X, end) /\ Merged(X) /\ blk \in Block
      /\ Els(X) = (Els(bs) \ ({bs[b]} \union N)) \union (IF PrevFree(bs, b) THEN {} ELSE {blk})
  <2>1. FreedFrom(X, page, b, end)
    BY <1>2, <1>5 DEF FreedFrom, X
  <2> QED
    BY <2>1, UnionsLaid
<1>7. blk.offset = bs[b].offset /\ blk.is_free
  BY DEF Freed
<1> HIDE DEF blk
<1>8. Memory!IsFree(bs, b + 1) <=> b < Len(bs) /\ bs[b + 1].is_free
  BY <1>2 DEF Memory!IsFree
<1>9. Memory!IsFree(bs, b - 1) <=> PrevFree(bs, b)
  BY <1>2 DEF Memory!IsFree, PrevFree
<1>10. ASSUME b < Len(bs), bs[b + 1].is_free
       PROVE  b + 1 \in 1..Len(bs) /\ N = {bs[b + 1]} /\ Of(i, N) = {<<i, bs[b + 1]>>} /\ <<i, bs[b + 1]>> \in F
  <2>1. b + 1 \in 1..Len(bs)
    BY <1>2, <1>10
  <2>2. N = {bs[b + 1]}
    BY <1>10 DEF NextGone
  <2>3. <<i, bs[b + 1]>> \in F
    BY <1>3, <1>10, <2>1 DEF FreeIn
  <2> QED
    BY <2>1, <2>2, <2>3 DEF Of
<1>11. ASSUME ~(b < Len(bs) /\ bs[b + 1].is_free) PROVE N = {} /\ Of(i, N) = {}
  BY <1>11 DEF NextGone, Of
<1>12. ASSUME PrevFree(bs, b)
       PROVE  b - 1 \in 1..Len(bs) /\ prev \in F /\ bs[b - 1] # bs[b] /\ bs[b - 1] \notin N /\ bs[b - 1].is_free
  <2>1. b - 1 \in 1..Len(bs) /\ bs[b - 1].is_free
    BY <1>2, <1>12 DEF PrevFree
  <2>2. prev \in F
    BY <1>3, <2>1 DEF FreeIn
  <2>3. bs[b - 1] \notin N
    <3>1. SUFFICES ASSUME bs[b - 1] \in N PROVE FALSE
      OBVIOUS
    <3>2. b + 1 \in 1..Len(bs) /\ bs[b - 1] = bs[b + 1]
      BY <1>10, <1>11, <3>1
    <3>3. b - 1 = b + 1
      BY <1>4, <2>1, <3>2
    <3> QED
      BY <1>2, <3>3
  <2> QED
    BY <1>5, <2>1, <2>2, <2>3
<1>13. Listed(none, F \ Of(i, N)) /\ Apart(F \ Of(i, N))
  <2>1. Apart(F \ Of(i, N))
    BY <1>1 DEF Apart
  <2>2. CASE b < Len(bs) /\ bs[b + 1].is_free
    <3>1. none = Memory!unlisted(free_list, Ref(<<i, bs[b + 1]>>))
      BY <1>8, <2>2 DEF Ref
    <3>2. <<i, bs[b + 1]>> \in F /\ Of(i, N) = {<<i, bs[b + 1]>>}
      BY <1>10, <2>2
    <3> QED
      BY <1>1, <2>1, <3>1, <3>2, UnlistedIs
  <2>3. CASE ~(b < Len(bs) /\ bs[b + 1].is_free)
    <3>1. none = free_list /\ F \ Of(i, N) = F
      BY <1>8, <1>11, <2>3
    <3> QED
      BY <1>1, <2>1, <3>1
  <2> QED
    BY <2>2, <2>3
<1> HIDE DEF none
<1>14. Listed(frees, (F \ Of(i, N)) \ P)
  <2>1. CASE PrevFree(bs, b)
    <3>1. frees = Memory!unlisted(none, Ref(prev)) /\ P = {prev}
      BY <1>9, <2>1 DEF Ref
    <3>2. prev \in F \ Of(i, N)
      BY <1>12, <2>1 DEF Of
    <3> QED
      BY <1>13, <3>1, <3>2, UnlistedIs
  <2>2. CASE ~PrevFree(bs, b)
    <3>1. frees = none /\ P = {}
      BY <1>9, <2>2
    <3> QED
      BY <1>13, <3>1
  <2> QED
    BY <2>1, <2>2
<1> HIDE DEF frees
<1>15. c \in UsedIn(C) /\ \A d \in Of(i, N) \union P : d \in FreeIn(C)
  <2>1. c \in UsedIn(C)
    BY <1>2, <1>3, <1>5 DEF UsedIn
  <2>2. \A d \in Of(i, N) : d \in F
    BY <1>10, <1>11
  <2>3. \A d \in P : d \in F
    BY <1>12
  <2> QED
    BY <2>1, <2>2, <2>3
<1>16. <<i, blk>> \notin C /\ blk \notin Els(bs)
  <2>1. ASSUME NEW k \in 1..Len(bs), blk = bs[k] PROVE FALSE
    <3>1. k = b
      BY <1>2, <1>4, <1>7, <2>1
    <3> QED
      BY <1>5, <1>7, <2>1, <3>1
  <2>2. blk \notin Els(bs)
    BY <2>1 DEF Els
  <2>3. ASSUME <<i, blk>> \in C PROVE FALSE
    <3>1. PICK q \in 1..Len(pages) : \E k \in 1..Len(pages[q].blocks) : <<i, blk>> = <<pages[q].page_index, pages[q].blocks[k]>>
      BY <1>1, <2>3, PagesAre
    <3>2. PICK k \in 1..Len(pages[q].blocks) : i = pages[q].page_index /\ blk = pages[q].blocks[k]
      BY <3>1
    <3>3. q = p
      BY <1>1, <3>2, PagesAre
    <3> QED
      BY <2>1, <3>2, <3>3
  <2> QED
    BY <2>2, <2>3
<1>17. CellsOf(page) = Of(i, Els(bs))
  BY DEF CellsOf, Of
<1>18. CASE Len(X) = 1 /\ pages' = Memory!RemoveAt(pages, p) /\ free_list' = frees
  <2>1. /\ GoodPages(pages')
        /\ \A q \in 1..Len(pages') : \E r \in 1..Len(pages) : pages'[q] = pages[r]
        /\ Cells(pages') = C \ CellsOf(page)
    BY <1>1, <1>18, PageGone
  <2>2. Els(X) = {X[1]}
    BY <1>18 DEF Els
  <2>3. CellsOf(page) = {c} \union Of(i, N) \union P
    <3>1. bs[b] \in Els(bs) /\ N \subseteq Els(bs)
      BY <1>2, <1>10, <1>11 DEF Els
    <3>2. CASE PrevFree(bs, b)
      <4>1. bs[b - 1] \in Els(bs) \ ({bs[b]} \union N)
        BY <1>12, <3>2 DEF Els
      <4>2. Els(bs) = {bs[b]} \union N \union {bs[b - 1]}
        BY <1>6, <2>2, <3>1, <3>2, <4>1
      <4> QED
        BY <1>17, <3>2, <4>2 DEF Of
    <3>3. CASE ~PrevFree(bs, b)
      <4>1. Els(bs) = {bs[b]} \union N
        BY <1>6, <1>16, <2>2, <3>1, <3>3
      <4> QED
        BY <1>17, <3>3, <4>1 DEF Of
    <3> QED
      BY <3>2, <3>3
  <2>4. FreeIn(Cells(pages')) = (F \ Of(i, N)) \ P
    BY <1>15, <2>1, <2>3 DEF FreeIn, UsedIn
  <2>5. UsedIn(Cells(pages')) = UsedIn(C) \ {c}
    BY <1>15, <2>1, <2>3 DEF FreeIn, UsedIn
  <2>6. \A q \in 1..Len(pages') : InUse(pages'[q])
    BY <1>1, <2>1
  <2>7. MemInv'
    BY <1>14, <1>18, <2>1, <2>4, <2>6 DEF MemInv
  <2> QED
    BY <1>15, <2>5, <2>7 DEF GivesUp
<1>19. CASE /\ Len(X) # 1 /\ pages' = [pages EXCEPT ![p].blocks = X]
            /\ free_list' = Memory!add_free_block(pages', frees,
                               <<i, bs[IF Memory!IsFree(bs, b - 1) THEN b - 1 ELSE b].offset>>)
  <2> DEFINE New == IF PrevFree(bs, b) THEN {} ELSE {blk}
             gone == {bs[b]} \union N
  <2>1. PageChange(pages', pages, p, X, gone, New)
    BY <1>6, <1>19 DEF PageChange
  <2>2. /\ GoodPages(pages') /\ Len(pages') = Len(pages) /\ pages'[p].blocks = X
        /\ \A q \in 1..Len(pages) : q # p => pages'[q] = pages[q]
        /\ Cells(pages') = (C \ Of(i, gone)) \union Of(i, New)
    BY ONLY <1>1, <2>1, PageChanged
  <2>3. Of(i, gone) = {c} \union Of(i, N) /\ Of(i, New) = {start} \ P
    BY DEF Of
  <2>4. start \in Cells(pages') /\ start[2].is_free /\ start \notin (F \ Of(i, N)) \ P
    <3>1. CASE PrevFree(bs, b)
      <4>1. start = prev /\ prev \in C /\ prev \notin Of(i, gone) /\ prev[2].is_free /\ P = {prev}
        BY <1>12, <3>1 DEF Of, FreeIn
      <4> QED
        BY <2>2, <4>1
    <3>2. CASE ~PrevFree(bs, b)
      <4>1. start = <<i, blk>> /\ start \in Of(i, New) /\ P = {}
        BY <3>2 DEF Of
      <4> QED
        BY <1>7, <1>16, <2>2, <4>1 DEF FreeIn
    <3> QED
      BY <3>1, <3>2
  <2>5. P \subseteq {start}
    OBVIOUS
  <2>6. Ref(start) = <<i, bs[IF Memory!IsFree(bs, b - 1) THEN b - 1 ELSE b].offset>>
    BY <1>7, <1>9 DEF Ref
  <2> HIDE DEF New, gone, start, P
  <2>7. FreeIn(Cells(pages')) = ((F \ Of(i, N)) \ P) \union {start}
    BY <1>15, <2>2, <2>3, <2>4, <2>5 DEF FreeIn, UsedIn
  <2>8. UsedIn(Cells(pages')) = UsedIn(C) \ {c}
    BY <1>15, <2>2, <2>3, <2>4, <2>5 DEF FreeIn, UsedIn
  <2>9. Apart(Cells(pages')) /\ \A d \in Cells(pages') : Memory!SizeIn(pages', Ref(d)) = d[2].block_size
    BY <2>2, CellsApart, CellFound
  <2>10. Adds(pages', frees, (F \ Of(i, N)) \ P, start)
    <3>1. ((F \ Of(i, N)) \ P) \union {start} \subseteq Cells(pages')
      BY <2>7 DEF FreeIn
    <3>2. Apart(((F \ Of(i, N)) \ P) \union {start})
      BY <2>9, <3>1 DEF Apart
    <3> QED
      BY <1>14, <2>4, <2>9, <3>1, <3>2 DEF Adds
  <2>11. Listed(free_list', FreeIn(Cells(pages')))
    <3>1. Listed(Memory!add_free_block(pages', frees, Ref(start)), ((F \ Of(i, N)) \ P) \union {start})
      BY <2>10, AddedIs
    <3> QED
      BY <1>19, <2>6, <2>7, <3>1
  <2>12. InUse(pages'[p])
    <3>1. Els(X) # {}
      <4>1. CASE PrevFree(bs, b)
        <5>1. bs[b - 1] \in Els(X)
          BY <1>6, <1>12, <4>1 DEF Els
        <5> QED
          BY <5>1
      <4>2. CASE ~PrevFree(bs, b)
        BY <1>6, <4>2
      <4> QED
        BY <4>1, <4>2
    <3>2. Len(X) \in Nat /\ Len(X) # 0
      BY <1>6, <3>1, LaidIs DEF Els
    <3>3. 1 \in 1..(Len(X) - 1) /\ 1 \in 1..Len(X) /\ 1 + 1 \in 1..Len(X)
      <4>1. Len(X) # 1
        BY <1>19
      <4> QED
        <5>1. PICK n \in Nat : Len(X) = n
          BY <3>2
        <5>2. n # 0 /\ n # 1
          BY <3>2, <4>1, <5>1
        <5>3. 1 \in 1..(n - 1) /\ 1 \in 1..n /\ 1 + 1 \in 1..n
          BY ONLY <5>2, n \in Nat
        <5> QED
          BY ONLY <5>1, <5>3
    <3>4. ~(X[1].is_free /\ X[1 + 1].is_free)
      BY <1>6, <3>3 DEF Merged
    <3> QED
      BY <2>2, <3>3, <3>4 DEF InUse
  <2>13. \A q \in 1..Len(pages') : InUse(pages'[q])
    BY <1>1, <2>2, <2>12
  <2>14. MemInv'
    BY <2>2, <2>11, <2>13 DEF MemInv
  <2> QED
    BY <1>15, <2>8, <2>14 DEF GivesUp
<1> QED
  BY <1>5, <1>18, <1>19

MemoryInit == Memory!Init
MemoryStep == [Memory!Next]_Memory!vars

LEMMA MemInvInit == MemoryInit => MemInv /\ Memory!live = {}
<1> SUFFICES ASSUME MemoryInit PROVE MemInv /\ Memory!live = {}
  OBVIOUS
<1>1. pages = <<>> /\ free_list = <<>>
  BY DEF MemoryInit, Memory!Init
<1>2. Len(<<>>) = 0 /\ DOMAIN <<>> = {} /\ 1..0 = {}
  OBVIOUS
<1>3. Cells(pages) = {}
  BY <1>1, <1>2 DEF Cells
<1>4. GoodPages(pages)
  BY <1>1, <1>2 DEF GoodPages
<1>5. Listed(free_list, {})
  BY <1>1, <1>2 DEF Listed, Els
<1>6. FreeIn(Cells(pages)) = {}
  BY <1>3 DEF FreeIn
<1>7. MemInv
  BY <1>1, <1>2, <1>4, <1>5, <1>6 DEF MemInv
<1>8. Memory!Blocks = {}
  BY <1>1, <1>2 DEF Memory!Blocks
<1> QED
  BY <1>7, <1>8 DEF Memory!live

LEMMA MemInvStep == MemInv /\ MemoryStep => MemInv'
<1> SUFFICES ASSUME MemInv, MemoryStep PROVE MemInv'
  OBVIOUS
<1>1. CASE \E size \in Sizes : Memory!Alloc(size)
  BY <1>1, AllocKeeps
<1>2. CASE \E p \in DOMAIN pages : \E b \in DOMAIN pages[p].blocks : Memory!Free(p, b)
  <2>1. GoodPages(pages)
    BY DEF MemInv
  <2>2. PICK p \in 1..Len(pages) : \E b \in 1..Len(pages[p].blocks) : Memory!Free(p, b)
    BY <1>2, <2>1, PagesAre
  <2>3. PICK b \in 1..Len(pages[p].blocks) : Memory!Free(p, b)
    BY <2>2
  <2> QED
    BY <2>3, FreeKeeps
<1>3. CASE UNCHANGED Memory!vars
  BY <1>3 DEF Memory!vars, MemInv
<1> QED
  BY <1>1, <1>2, <1>3 DEF MemoryStep, Memory!Next

LEMMA MemInvSound == MemInv => BlocksSound
<1> SUFFICES ASSUME MemInv PROVE BlocksSound
  OBVIOUS
<1> DEFINE F == FreeIn(Cells(pages))
<1>1. /\ GoodPages(pages) /\ Listed(free_list, F)
      /\ \A p \in 1..Len(pages) : InUse(pages[p])
  BY DEF MemInv
<1>2. /\ DOMAIN pages = 1..Len(pages)
      /\ \A p \in 1..Len(pages) :
           /\ DOMAIN pages[p].blocks = 1..Len(pages[p].blocks) /\ Len(pages[p].blocks) \in Nat
           /\ pages[p].page_index \in Nat
           /\ Laid(pages[p].blocks, Memory!PageEnd(pages[p])) /\ Merged(pages[p].blocks)
  BY <1>1, PagesAre DEF GoodPages
<1>3. \A x : x \in Memory!Blocks <=> \E p \in 1..Len(pages) : \E b \in 1..Len(pages[p].blocks) : x = <<pages[p], b>>
  BY <1>2, SMTT(30) DEF Memory!Blocks
<1>4. ASSUME NEW x \in Memory!Blocks
      PROVE  /\ Memory!Block(x).block_size \in 0..(Memory!PageEnd(x[1]) - Memory!Data(Memory!Block(x)))
             /\ Memory!Block(x).is_free => ~Memory!IsFree(x[1].blocks, x[2] + 1)
  <2>1. PICK p \in 1..Len(pages) : \E b \in 1..Len(pages[p].blocks) : x = <<pages[p], b>>
    BY <1>3
  <2>2. PICK b \in 1..Len(pages[p].blocks) : x = <<pages[p], b>>
    BY <2>1
  <2> DEFINE bs == pages[p].blocks
             end == Memory!PageEnd(pages[p])
  <2>3. Laid(bs, end) /\ Merged(bs) /\ DOMAIN bs = 1..Len(bs) /\ Len(bs) \in Nat /\ b \in 1..Len(bs)
    BY <1>2
  <2>4. x[1] = pages[p] /\ x[2] = b /\ Memory!Block(x) = bs[b]
    BY <2>2 DEF Memory!Block
  <2> HIDE DEF bs, end
  <2>5. bs[b] \in Block /\ Past(bs[b]) <= end /\ end \in Nat
    BY <2>3, LaidIs DEF Laid
  <2>6. PICK o \in Nat, z \in Nat : bs[b].offset = o /\ bs[b].block_size = z
    BY <2>5, PastIs
  <2>7. bs[b].block_size \in 0..(end - Memory!Data(bs[b]))
    BY <2>5, <2>6, Sizes0 DEF Past, Memory!Data
  <2>8. bs[b].is_free => ~Memory!IsFree(bs, b + 1)
    <3>1. SUFFICES ASSUME bs[b].is_free, b + 1 \in 1..Len(bs), bs[b + 1].is_free PROVE FALSE
      BY <2>3 DEF Memory!IsFree
    <3>2. b \in 1..(Len(bs) - 1)
      BY <2>3, <3>1
    <3> QED
      BY <2>3, <3>1, <3>2 DEF Merged
  <2> QED
    BY <2>4, <2>7, <2>8 DEF bs, end
<1>5. \A p \in DOMAIN pages : \E b \in DOMAIN pages[p].blocks : ~pages[p].blocks[b].is_free
  BY <1>1, <1>2 DEF InUse
<1>6. \A j, k \in DOMAIN pages : j < k => pages[j].page_index < pages[k].page_index
  BY <1>1, <1>2 DEF GoodPages
<1>7. free_list \in Seq(Nat \X Nat) /\ DOMAIN free_list = 1..Len(free_list)
  BY <1>1 DEF Listed
<1>8. Memory!ToSet(free_list) =
        {<<x[1].page_index, Memory!Block(x).offset>> : x \in {y \in Memory!Blocks : Memory!Block(y).is_free}}
  <2>1. Memory!ToSet(free_list) = {Ref(c) : c \in F}
    BY <1>1, <1>7 DEF Memory!ToSet, Els, Listed
  <2>2. \A c : c \in Cells(pages) <=>
          \E p \in 1..Len(pages) : \E b \in 1..Len(pages[p].blocks) : c = <<pages[p].page_index, pages[p].blocks[b]>>
    BY <1>1, PagesAre
  <2>3. ASSUME NEW c \in F
        PROVE  \E x \in Memory!Blocks : Memory!Block(x).is_free /\ Ref(c) = <<x[1].page_index, Memory!Block(x).offset>>
    <3>1. PICK p \in 1..Len(pages) : \E b \in 1..Len(pages[p].blocks) : c = <<pages[p].page_index, pages[p].blocks[b]>>
      BY <2>2 DEF FreeIn
    <3>2. PICK b \in 1..Len(pages[p].blocks) : c = <<pages[p].page_index, pages[p].blocks[b]>>
      BY <3>1
    <3>3. <<pages[p], b>> \in Memory!Blocks /\ Memory!Block(<<pages[p], b>>) = pages[p].blocks[b]
      BY <1>3 DEF Memory!Block
    <3> QED
      BY <3>2, <3>3 DEF Ref, FreeIn
  <2>4. ASSUME NEW x \in Memory!Blocks, Memory!Block(x).is_free
        PROVE  \E c \in F : Ref(c) = <<x[1].page_index, Memory!Block(x).offset>>
    <3>1. PICK p \in 1..Len(pages) : \E b \in 1..Len(pages[p].blocks) : x = <<pages[p], b>>
      BY <1>3
    <3>2. PICK b \in 1..Len(pages[p].blocks) : x = <<pages[p], b>>
      BY <3>1
    <3>3. Memory!Block(x) = pages[p].blocks[b] /\ x[1] = pages[p]
      BY <3>2 DEF Memory!Block
    <3>4. <<pages[p].page_index, pages[p].blocks[b]>> \in F
      BY <2>2, <2>4, <3>3 DEF FreeIn
    <3> QED
      BY <3>3, <3>4 DEF Ref
  <2> HIDE DEF F
  <2> QED
    BY <2>1, <2>3, <2>4
<1>9. Memory!IsInjective(free_list)
  BY <1>1, <1>7 DEF Memory!IsInjective, Listed
<1>10. ASSUME NEW j \in DOMAIN free_list, NEW k \in DOMAIN free_list, j < k
       PROVE  Memory!SizeIn(pages, free_list[j]) >= Memory!SizeIn(pages, free_list[k])
  <2>1. PICK d \in F : free_list[j] = Ref(d)
    BY <1>1, <1>7 DEF Listed, Els
  <2>2. PICK e \in F : free_list[k] = Ref(e)
    BY <1>1, <1>7 DEF Listed, Els
  <2>3. Memory!SizeIn(pages, Ref(d)) = d[2].block_size /\ Memory!SizeIn(pages, Ref(e)) = e[2].block_size
    BY <1>1, CellFound DEF FreeIn
  <2> QED
    BY <1>1, <1>7, <1>10, <2>1, <2>2, <2>3 DEF Listed
<1> QED
  BY <1>4, <1>5, <1>6, <1>8, <1>9, <1>10 DEF BlocksSound, Memory!BlocksSound

\* mm.c, at every time: BlocksSound, of whatever applications allocate and free.
THEOREM MemoryBlocksSound == Memory!Spec => []BlocksSound
<1>1. MemoryInit => MemInv
  BY MemInvInit
<1> QED
  BY <1>1, MemInvStep, MemInvSound, PTL DEF Memory!Spec, MemoryInit, MemoryStep

-----------------------------------------------------------------------------
(* What applications hold: the cells in use, as pieces of module Heap. *)

Piece(c) == [page |-> c[1], at |-> c[2].offset, size |-> META + c[2].block_size]

Used(pgs) ==
  {[page |-> x[1].page_index, at |-> x[1].blocks[x[2]].offset, size |-> META + x[1].blocks[x[2]].block_size] :
     x \in {y \in UNION {{<<pgs[p], b>> : b \in DOMAIN pgs[p].blocks} : p \in DOMAIN pgs} :
              ~y[1].blocks[y[2]].is_free}}

LEMMA UsedIs ==
  ASSUME NEW pgs, GoodPages(pgs)
  PROVE  Used(pgs) = {Piece(c) : c \in UsedIn(Cells(pgs))}
<1> DEFINE B == UNION {{<<pgs[p], b>> : b \in DOMAIN pgs[p].blocks} : p \in DOMAIN pgs}
<1>1. \A x : x \in B <=> \E p \in 1..Len(pgs) : \E b \in 1..Len(pgs[p].blocks) : x = <<pgs[p], b>>
  BY PagesAre
<1>2. \A c : c \in Cells(pgs) <=>
        \E p \in 1..Len(pgs) : \E b \in 1..Len(pgs[p].blocks) : c = <<pgs[p].page_index, pgs[p].blocks[b]>>
  BY PagesAre
<1> DEFINE P(x) == [page |-> x[1].page_index, at |-> x[1].blocks[x[2]].offset,
                    size |-> META + x[1].blocks[x[2]].block_size]
<1>3. Used(pgs) = {P(x) : x \in {y \in B : ~y[1].blocks[y[2]].is_free}}
  BY DEF Used
<1> HIDE DEF B
<1>4. ASSUME NEW x \in B, ~x[1].blocks[x[2]].is_free PROVE \E c \in UsedIn(Cells(pgs)) : P(x) = Piece(c)
  <2>1. PICK p \in 1..Len(pgs) : \E b \in 1..Len(pgs[p].blocks) : x = <<pgs[p], b>>
    BY <1>1
  <2>2. PICK b \in 1..Len(pgs[p].blocks) : x = <<pgs[p], b>>
    BY <2>1
  <2> DEFINE c == <<pgs[p].page_index, pgs[p].blocks[b]>>
  <2>3. c \in UsedIn(Cells(pgs))
    BY <1>2, <1>4, <2>2 DEF UsedIn
  <2>4. P(x) = Piece(c)
    BY <2>2 DEF Piece
  <2> QED
    BY <2>3, <2>4
<1>5. ASSUME NEW c \in UsedIn(Cells(pgs)) PROVE \E x \in B : ~x[1].blocks[x[2]].is_free /\ P(x) = Piece(c)
  <2>1. PICK p \in 1..Len(pgs) : \E b \in 1..Len(pgs[p].blocks) : c = <<pgs[p].page_index, pgs[p].blocks[b]>>
    BY <1>2 DEF UsedIn
  <2>2. PICK b \in 1..Len(pgs[p].blocks) : c = <<pgs[p].page_index, pgs[p].blocks[b]>>
    BY <2>1
  <2> DEFINE x == <<pgs[p], b>>
  <2>3. x \in B
    BY <1>1
  <2>4. ~x[1].blocks[x[2]].is_free /\ P(x) = Piece(c)
    BY <2>2 DEF Piece, UsedIn
  <2> QED
    BY <2>3, <2>4
<1> HIDE DEF P
<1> QED
  BY <1>3, <1>4, <1>5

LEMMA LiveIs ==
  Memory!live = Used(pages) /\ Memory!live' = Used(pages')
BY DEF Memory!live, Memory!Blocks, Memory!Block, Used

\* Cells that are apart are pieces that do not overlap.
LEMMA PiecesApart ==
  ASSUME NEW a \in Nat \X Block, NEW c \in Nat \X Block,
         a[1] = c[1] => Past(a[2]) <= c[2].offset \/ Past(c[2]) <= a[2].offset
  PROVE  ~HeapOf!Overlap(Piece(a), Piece(c)) /\ Piece(a) # Piece(c)
<1>1. PICK o \in Nat, z \in Nat : a[2].offset = o /\ a[2].block_size = z /\ a[2] \in Block
  BY PastIs
<1>2. PICK u \in Nat, v \in Nat : c[2].offset = u /\ c[2].block_size = v /\ c[2] \in Block
  BY PastIs
<1>3. a[1] = c[1] => o + META + z <= u \/ u + META + v <= o
  BY <1>1, <1>2 DEF Past
<1>4. Piece(a) = [page |-> a[1], at |-> o, size |-> META + z] /\ Piece(c) = [page |-> c[1], at |-> u, size |-> META + v]
  BY <1>1, <1>2 DEF Piece
<1>5. ~(a[1] = c[1] /\ o < u + (META + v) /\ u < o + (META + z))
  BY ONLY <1>1, <1>2, <1>3, Sizes0
<1>6. ~(a[1] = c[1] /\ o = u)
  BY ONLY <1>1, <1>2, <1>3, Sizes0
<1> QED
  BY <1>4, <1>5, <1>6 DEF HeapOf!Overlap

LEMMA PiecesDiffer ==
  ASSUME NEW C, Apart(C)
  PROVE  \A a, c \in C : Piece(a) = Piece(c) => a = c
BY PiecesApart DEF Apart

LEMMA SplitTakes ==
  ASSUME NEW C, NEW D, NEW size \in Sizes, CutsFrom(C, D, size)
  PROVE  \E new : /\ new \notin {Piece(a) : a \in UsedIn(C)} /\ new.size = META + size
                  /\ {Piece(a) : a \in UsedIn(D)} = {Piece(a) : a \in UsedIn(C)} \union {new}
                  /\ \A old \in {Piece(a) : a \in UsedIn(C)} : ~HeapOf!Overlap(new, old)
<1>0. size \in Nat
  BY MemoryAssumption DEF Memory!MemoryAssumption
<1>1. PICK B : \E c : /\ Apart(B) /\ UsedIn(B) = UsedIn(C) /\ c \in FreeIn(B) /\ size <= c[2].block_size
                      /\ SplitCells(B, D, c, size)
  BY DEF CutsFrom
<1>2. PICK c : /\ Apart(B) /\ UsedIn(B) = UsedIn(C) /\ c \in FreeIn(B) /\ size <= c[2].block_size
               /\ SplitCells(B, D, c, size)
  BY <1>1
<1> DEFINE cut == Cut(c, size)
           new == Piece(cut)
<1>3. c \in B /\ c[2].is_free /\ c \in Nat \X Block
  BY <1>2 DEF FreeIn, Apart
<1>4. PICK o \in Nat, z \in Nat : c[2].offset = o /\ c[2].block_size = z
  BY <1>3, PastIs
<1>5. /\ cut = <<c[1], [offset |-> o, block_size |-> size, is_free |-> FALSE]>>
      /\ cut \in Nat \X Block /\ cut[1] = c[1] /\ cut[2].offset = o /\ cut[2].block_size = size /\ ~cut[2].is_free
  BY <1>0, <1>3, <1>4 DEF Cut, Taken, Block
<1>6. Left(c, size)[2].is_free
  BY DEF Left, Rest
<1> HIDE DEF cut
<1>7. UsedIn(D) = UsedIn(C) \union {cut}
  <2>1. \/ D = (B \ {c}) \union {cut}
        \/ D = (B \ {c}) \union {cut, Left(c, size)}
    BY <1>2 DEF SplitCells, cut
  <2> QED
    BY <1>2, <1>3, <1>5, <1>6, <2>1 DEF UsedIn
<1>8. ASSUME NEW a \in UsedIn(C) PROVE ~HeapOf!Overlap(new, Piece(a)) /\ new # Piece(a)
  <2>1. a \in B /\ a # c /\ a \in Nat \X Block
    BY <1>2, <1>3, <1>8 DEF UsedIn, Apart
  <2>2. a[1] = c[1] => Past(a[2]) <= c[2].offset \/ Past(c[2]) <= a[2].offset
    BY <1>2, <1>3, <2>1 DEF Apart
  <2>3. Past(a[2]) \in Nat /\ a[2].offset \in Nat
    BY <2>1, PastIs
  <2>4. Past(c[2]) = o + META + z /\ Past(cut[2]) = o + META + size
    BY <1>4, <1>5 DEF Past
  <2>5. Past(cut[2]) <= Past(c[2]) /\ Past(cut[2]) \in Nat /\ Past(c[2]) \in Nat
    BY <1>0, <1>2, <1>4, <2>4, Sizes0
  <2>6. cut[1] = a[1] => Past(cut[2]) <= a[2].offset \/ Past(a[2]) <= cut[2].offset
    <3>1. CASE Past(a[2]) <= c[2].offset
      BY <1>4, <1>5, <3>1
    <3>2. CASE Past(c[2]) <= a[2].offset
      BY <2>3, <2>5, <3>2
    <3> QED
      BY <1>5, <2>2, <3>1, <3>2
  <2> QED
    BY <1>5, <2>1, <2>6, PiecesApart
<1>9. new.size = META + size
  BY <1>5 DEF Piece
<1> HIDE DEF new
<1>10. {Piece(a) : a \in UsedIn(D)} = {Piece(a) : a \in UsedIn(C)} \union {new}
  BY <1>7 DEF new
<1>11. new \notin {Piece(a) : a \in UsedIn(C)} /\ \A old \in {Piece(a) : a \in UsedIn(C)} : ~HeapOf!Overlap(new, old)
  BY <1>8
<1> QED
  BY <1>9, <1>10, <1>11

LEMMA MemoryStepHeap == MemInv /\ MemoryStep => [HeapOf!Next]_Memory!live
<1> SUFFICES ASSUME MemInv, MemoryStep PROVE [HeapOf!Next]_Memory!live
  OBVIOUS
<1> DEFINE C == Cells(pages)
           D == Cells(pages')
           L == Memory!live
<1>1. GoodPages(pages) /\ GoodPages(pages') /\ Apart(C)
  BY MemInvStep, CellsApart DEF MemInv
<1>2. L = {Piece(c) : c \in UsedIn(C)} /\ L' = {Piece(c) : c \in UsedIn(D)}
  BY <1>1, LiveIs, UsedIs
<1>3. CASE \E size \in Sizes : Memory!Alloc(size)
  <2>1. PICK size \in Sizes : Memory!Alloc(size)
    BY <1>3
  <2>2. CutsFrom(C, D, size)
    BY <2>1, AllocKeeps
  <2> HIDE DEF C, D, L
  <2>3. PICK new : /\ new \notin L /\ new.size = META + size /\ L' = L \union {new}
                   /\ \A old \in L : ~HeapOf!Overlap(new, old)
    BY <1>2, <2>2, SplitTakes
  <2>4. META + size \in Memory!Pieces /\ new \in L' \ L
    BY <2>3 DEF Memory!Pieces
  <2>5. HeapOf!Alloc
    BY <2>3, <2>4 DEF HeapOf!Alloc, L
  <2> QED
    BY <2>5 DEF HeapOf!Next
<1>4. CASE \E p \in DOMAIN pages : \E b \in DOMAIN pages[p].blocks : Memory!Free(p, b)
  <2>1. PICK p \in 1..Len(pages) : \E b \in 1..Len(pages[p].blocks) : Memory!Free(p, b)
    BY <1>1, <1>4, PagesAre
  <2>2. PICK b \in 1..Len(pages[p].blocks) : Memory!Free(p, b)
    BY <2>1
  <2>3. GivesUp(C, D)
    BY <2>2, FreeKeeps
  <2> HIDE DEF C, D, L
  <2>4. PICK c \in UsedIn(C) : UsedIn(D) = UsedIn(C) \ {c}
    BY <2>3 DEF GivesUp
  <2>5. \A a, d \in UsedIn(C) : Piece(a) = Piece(d) => a = d
    BY <1>1, PiecesDiffer DEF UsedIn
  <2>6. Piece(c) \in L /\ L' = L \ {Piece(c)}
    BY <1>2, <2>4, <2>5
  <2>7. HeapOf!Free
    BY <2>6 DEF HeapOf!Free, L
  <2> QED
    BY <2>7 DEF HeapOf!Next
<1>5. CASE UNCHANGED Memory!vars
  <2>1. pages' = pages
    BY <1>5 DEF Memory!vars
  <2> QED
    BY <2>1, LiveIs
<1> QED
  BY <1>3, <1>4, <1>5 DEF MemoryStep, Memory!Next

\* mm.c is a heap of module Heap: what is allocated is of the size asked for and
\* overlaps nothing in use, and what is freed is one piece.
THEOREM MemoryImplementsHeap == Memory!Spec => ImplementsHeap
<1>1. MemoryInit => MemInv /\ HeapOf!Init
  BY MemInvInit DEF HeapOf!Init
<1> QED
  BY <1>1, MemInvStep, MemoryStepHeap, PTL DEF Memory!Spec, MemoryInit, MemoryStep, ImplementsHeap, HeapOf!Spec
=============================================================================
