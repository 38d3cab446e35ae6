-------------------------- MODULE WheelTimerProofs --------------------------
(***************************************************************************)
(* What holds of the wheel for every size of the wheel, every set of       *)
(* timers and intervals and any interleaving of calls and ticks: no timer  *)
(* is overdue or dropped, none fires early, and one race, no other, leads  *)
(* to a freed element.                                                     *)
(***************************************************************************)
EXTENDS WheelTimer, TLAPS

InSlot(e) == \E s \in Slots : e \in slotlist[s]

\* What the wheel thread has still to visit is linked where it looks for it,
\* and an element it is about to act on is in no slot.
TodoOK ==
  /\ wheel.pc = "fire" => wheel.todo \subseteq slotlist[current_clock_tic]
  /\ wheel.pc \in {"read", "act"} => wheel.todo \subseteq reschd_list
  /\ wheel.pc = "act" => wheel.e \in wheel.todo /\ \A s \in Slots : wheel.e \notin slotlist[s]

IntervalsOK == \A s \in Slots : \A e \in slotlist[s] : elem[e].time_interval > 0

\* An element is deleted only when the application has given it up.
DeleteOK ==
  /\ \A e \in owned : elem[e].opcode # "WTELEM_DELETE"
  /\ app.pc # "idle" /\ app.op = "WTELEM_DELETE" => app.e \notin owned
  /\ wheel.pc = "act" /\ wheel.op = "WTELEM_DELETE" => wheel.e \notin owned

\* The call in progress holds an element that is allocated or being deleted;
\* an element that did not wait in reschd_list when the call began gets there
\* by this call only.
AppOK ==
  /\ app.pc # "idle" <=> app.e \in Timers
  /\ owned \subseteq alive
  /\ app.pc # "undefined" => reschd_list \subseteq alive
  /\ app.pc # "idle" /\ app.op # "WTELEM_DELETE" => app.e \in owned
  /\ app.pc \in {"opcode", "interval", "lock"} /\ ~app.waits => app.e \notin reschd_list

Inv ==
  /\ TypeOK /\ NeverOverdue /\ FreedLinkedOnly /\ NeverDropped
  /\ TodoOK /\ IntervalsOK /\ DeleteOK /\ AppOK

-----------------------------------------------------------------------------
\* Arithmetic of absolute slot numbers.
LEMMA DivMod ==
  ASSUME NEW a \in Nat, NEW w \in Nat \ {0}
  PROVE  /\ a \div w \in Nat
         /\ a % w \in 0..(w - 1)
         /\ (a \div w) * w + (a % w) = a
  OBVIOUS

LEMMA MulMono ==
  ASSUME NEW c \in Nat, NEW d \in Nat, NEW w \in Nat \ {0}, c < d
  PROVE  c * w + w <= d * w
  <1>1. PICK k \in Nat : d = c + 1 + k
    <2>1. d - c - 1 \in Nat /\ d = c + 1 + (d - c - 1)
      OBVIOUS
    <2> QED BY <2>1
  <1>2. d * w = c * w + w + k * w
    BY <1>1
  <1>3. k * w \in Nat /\ c * w \in Nat
    OBVIOUS
  <1> QED BY <1>2, <1>3

\* A slot number is a cycle and a place in the wheel in one way only.
LEMMA SlotUnique ==
  ASSUME NEW c \in Nat, NEW d \in Nat, NEW w \in Nat \ {0},
         NEW s \in 0..(w - 1), NEW t \in 0..(w - 1), c * w + s = d * w + t
  PROVE  c = d /\ s = t
  <1>0. c * w \in Nat /\ d * w \in Nat
    OBVIOUS
  <1>1. ~(c < d)
    BY <1>0, MulMono
  <1>2. ~(d < c)
    BY <1>0, MulMono
  <1>3. c = d
    BY <1>1, <1>2
  <1> QED BY <1>0, <1>3

\* A slot number that is not smaller has no smaller cycle.
LEMMA CycleMono ==
  ASSUME NEW c \in Nat, NEW d \in Nat, NEW w \in Nat \ {0},
         NEW s \in 0..(w - 1), c * w + s <= d * w + s
  PROVE  c <= d
  <1>0. c * w \in Nat /\ d * w \in Nat
    OBVIOUS
  <1> QED BY <1>0, MulMono

-----------------------------------------------------------------------------
\* A placed element is due after its interval.
LEMMA PlacedAt ==
  ASSUME Inv, NEW e \in Timers, NEW interval \in Nat \ {0}, Placed(e, interval)
  PROVE  /\ elem' \in [Timers -> ElemFields]
         /\ slotlist' \in [Slots -> SUBSET Timers]
         /\ elem'[e].execute_cycle_no * wheel_size + elem'[e].slot_no = Now + interval
         /\ elem'[e].time_interval = interval
         /\ elem'[e].opcode \in {elem[e].opcode, "WTELEM_SCHEDULED"}
         /\ \A x \in Timers \ {e} : elem'[x] = elem[x]
         /\ e \in slotlist'[elem'[e].slot_no]
         /\ \A s \in Slots : e \in slotlist'[s] => s = elem'[e].slot_no
         /\ \A s \in Slots, x \in Timers \ {e} : x \in slotlist'[s] <=> x \in slotlist[s]
  <1> USE WheelAssumption
  <1> DEFINE abs == NextAbsSlot(interval)
  <1>1. Now \in Nat /\ abs = Now + interval /\ abs \in Nat
    BY DEF Inv, TypeOK, Now, NextAbsSlot, Slots
  <1>2. /\ abs \div wheel_size \in Nat
        /\ SlotOf(abs) \in Slots
        /\ (abs \div wheel_size) * wheel_size + SlotOf(abs) = abs
    BY <1>1, DivMod DEF SlotOf, Slots
  <1> DEFINE cycle == abs \div wheel_size
             slot == SlotOf(abs)
  <1>3. /\ slotlist' = [s \in Slots |-> IF s = slot THEN slotlist[s] \cup {e} ELSE slotlist[s] \ {e}]
        /\ elem' = [elem EXCEPT ![e].execute_cycle_no = cycle,
                                ![e].slot_no = slot,
                                ![e].time_interval = interval,
                                ![e].opcode = IF wheel.pc = "act" THEN "WTELEM_SCHEDULED" ELSE @]
    BY DEF Placed
  <1> HIDE DEF abs, cycle, slot
  <1>4. /\ elem'[e] = [elem[e] EXCEPT !.execute_cycle_no = cycle, !.slot_no = slot,
                                      !.time_interval = interval,
                                      !.opcode = IF wheel.pc = "act" THEN "WTELEM_SCHEDULED" ELSE @]
        /\ \A x \in Timers \ {e} : elem'[x] = elem[x]
        /\ elem' \in [Timers -> ElemFields]
    <2>1. cycle \in Nat /\ slot \in Slots
      BY <1>2 DEF cycle, slot
    <2>2. elem \in [Timers -> ElemFields]
      BY DEF Inv, TypeOK
    <2> DEFINE op == IF wheel.pc = "act" THEN "WTELEM_SCHEDULED" ELSE elem[e].opcode
               new == [elem[e] EXCEPT !.execute_cycle_no = cycle, !.slot_no = slot,
                                      !.time_interval = interval, !.opcode = op]
    <2>3. elem[e] \in ElemFields
      BY <2>2
    <2>4. op \in {"WTELEM_CREATE", "WTELEM_RESCHED", "WTELEM_DELETE", "WTELEM_SCHEDULED"}
      BY <2>3 DEF ElemFields
    <2> HIDE DEF op
    <2>5. new \in ElemFields
      BY <2>1, <2>3, <2>4 DEF ElemFields
    <2>6. elem' = [elem EXCEPT ![e] = new]
      BY <1>3 DEF op
    <2> QED BY <2>2, <2>5, <2>6 DEF op
  <1>5. /\ elem'[e].execute_cycle_no = cycle
        /\ elem'[e].slot_no = slot
        /\ elem'[e].time_interval = interval
        /\ elem'[e].opcode \in {elem[e].opcode, "WTELEM_SCHEDULED"}
    BY <1>4 DEF Inv, TypeOK, ElemFields
  <1>6. cycle * wheel_size + slot = Now + interval /\ slot \in Slots
    BY <1>1, <1>2 DEF cycle, slot
  <1>7. /\ slotlist' \in [Slots -> SUBSET Timers]
        /\ e \in slotlist'[slot]
        /\ \A s \in Slots : e \in slotlist'[s] => s = slot
        /\ \A s \in Slots, x \in Timers \ {e} : x \in slotlist'[s] <=> x \in slotlist[s]
    BY <1>3, <1>6 DEF Inv, TypeOK
  <1> QED BY <1>4, <1>5, <1>6, <1>7

-----------------------------------------------------------------------------
LEMMA InitInv == Init => Inv
  <1> SUFFICES ASSUME Init PROVE Inv
    OBVIOUS
  <1> USE WheelAssumption
  <1>1. Fresh \in ElemFields
    BY DEF Fresh, ElemFields, Slots
  <1>2. TypeOK
    BY <1>1 DEF Init, TypeOK, Slots, Idle, AppCalls, WheelPlaces
  <1>3. NeverOverdue /\ FreedLinkedOnly /\ NeverDropped /\ TodoOK /\ IntervalsOK /\ DeleteOK /\ AppOK
    BY DEF Init, NeverOverdue, FreedLinkedOnly, NeverDropped, TodoOK, IntervalsOK, DeleteOK, AppOK,
           Slots, Idle
  <1> QED BY <1>2, <1>3 DEF Inv

\* The steps of the application never touch a slot; the fields of an element
\* that is in a slot change only in opcode and new_time_interval.
LEMMA SlotsKept ==
  ASSUME Inv,
         elem' \in [Timers -> ElemFields],
         \A s \in Slots : \A e \in slotlist[s] :
           /\ elem'[e].slot_no = elem[e].slot_no
           /\ elem'[e].execute_cycle_no = elem[e].execute_cycle_no
           /\ elem'[e].time_interval = elem[e].time_interval,
         UNCHANGED <<current_clock_tic, current_cycle_no, slotlist, wheel>>
  PROVE  NeverOverdue' /\ IntervalsOK'
  BY DEF Inv, NeverOverdue, IntervalsOK, AbsSlot, Now

LEMMA RegisterInv ==
  ASSUME Inv, NEW e \in Timers, NEW i \in Intervals, timer_register_app_event(e, i)
  PROVE  Inv'
  <1> USE WheelAssumption
  <1>0. /\ app.pc = "idle" /\ e \notin alive
        /\ app' = [pc |-> "opcode", e |-> e, op |-> "WTELEM_CREATE", interval |-> i,
                   waits |-> e \in reschd_list]
        /\ alive' = alive \cup {e} /\ owned' = owned \cup {e}
        /\ elem' = [elem EXCEPT ![e] = Fresh]
        /\ UNCHANGED <<current_clock_tic, current_cycle_no, slotlist, reschd_list, wheel, fired>>
    BY DEF timer_register_app_event, Begin
  <1>1. Fresh \in ElemFields /\ Fresh.opcode # "WTELEM_DELETE"
    BY DEF Fresh, ElemFields, Slots
  <1>2. i \in Nat
    OBVIOUS
  <1>3. TypeOK'
    BY <1>0, <1>1, <1>2 DEF Inv, TypeOK, AppCalls
  <1>4. \A s \in Slots : e \notin slotlist[s]
    BY <1>0 DEF Inv, FreedLinkedOnly
  <1>5. NeverOverdue' /\ IntervalsOK'
    BY <1>0, <1>3, <1>4, SlotsKept DEF Inv, TypeOK
  <1>9. e \notin reschd_list
    BY <1>0 DEF Inv, AppOK
  <1>6. FreedLinkedOnly'
    BY <1>0, <1>9 DEF Inv, FreedLinkedOnly, AppOK
  <1>7. NeverDropped'
    BY <1>0 DEF Inv, NeverDropped, AppOK
  <1>8. TodoOK'
    BY <1>0 DEF Inv, TodoOK
  <1>10. DeleteOK'
    BY <1>0, <1>1, <1>9 DEF Inv, DeleteOK, TypeOK, TodoOK
  <1>11. AppOK'
    BY <1>0, <1>9 DEF Inv, AppOK
  <1> QED BY <1>3, <1>5, <1>6, <1>7, <1>8, <1>10, <1>11 DEF Inv

LEMMA CallInv ==
  ASSUME Inv, NEW e \in Timers,
         (\E i \in Intervals : timer_reschedule(e, i)) \/ timer_de_register_app_event(e)
  PROVE  Inv'
  <1> USE WheelAssumption
  <1>0. PICK i \in Nat, op \in {"WTELEM_RESCHED", "WTELEM_DELETE"} :
          /\ app.pc = "idle" /\ e \in owned
          /\ app' = [pc |-> "opcode", e |-> e, op |-> op, interval |-> i,
                     waits |-> e \in reschd_list]
          /\ owned' = IF op = "WTELEM_DELETE" THEN owned \ {e} ELSE owned
          /\ UNCHANGED <<current_clock_tic, current_cycle_no, elem, slotlist, reschd_list,
                         alive, wheel, fired>>
    <2>1. CASE \E i \in Intervals : timer_reschedule(e, i)
      <3>1. PICK i \in Intervals : timer_reschedule(e, i)
        BY <2>1
      <3>2. i \in Nat
        OBVIOUS
      <3> QED BY <3>1, <3>2 DEF timer_reschedule, Begin
    <2>2. CASE timer_de_register_app_event(e)
      BY <2>2 DEF timer_de_register_app_event, Begin
    <2> QED BY <2>1, <2>2
  <1>3. TypeOK'
    BY <1>0 DEF Inv, TypeOK, AppCalls
  <1>5. NeverOverdue' /\ IntervalsOK'
    BY <1>0, <1>3, SlotsKept DEF Inv, TypeOK
  <1>6. FreedLinkedOnly'
    BY <1>0 DEF Inv, FreedLinkedOnly, AppOK
  <1>7. NeverDropped'
    BY <1>0 DEF Inv, NeverDropped, AppOK
  <1>8. TodoOK'
    BY <1>0 DEF Inv, TodoOK
  <1>10. DeleteOK'
    BY <1>0 DEF Inv, DeleteOK
  <1>11. AppOK'
    BY <1>0 DEF Inv, AppOK
  <1> QED BY <1>3, <1>5, <1>6, <1>7, <1>8, <1>10, <1>11 DEF Inv

\* _timer_reschedule: the two unlocked writes, then the list.
LEMMA RescheduleInv ==
  ASSUME Inv, SetOpcode \/ SetInterval \/ LinkResched
  PROVE  Inv'
  <1> USE WheelAssumption
  <1>1. CASE SetOpcode
    <2> DEFINE e == app.e
    <2>0. /\ app.pc = "opcode" /\ e \in Timers
          /\ app.op \in {"WTELEM_CREATE", "WTELEM_RESCHED", "WTELEM_DELETE", "WTELEM_SCHEDULED"}
          /\ elem' = [elem EXCEPT ![e].opcode = app.op]
          /\ app' = [app EXCEPT !.pc = "interval"]
          /\ UNCHANGED <<current_clock_tic, current_cycle_no, slotlist, reschd_list,
                         alive, owned, wheel, fired>>
      BY <1>1 DEF SetOpcode, Inv, TypeOK, AppCalls, AppOK
    <2>1. /\ app'.e = e /\ app'.op = app.op /\ app'.pc = "interval" /\ app' \in AppCalls
          /\ app'.waits = app.waits
      BY <2>0 DEF Inv, TypeOK, AppCalls
    <2>2. /\ elem' \in [Timers -> ElemFields]
          /\ elem'[e].opcode = app.op
          /\ \A x \in Timers : /\ elem'[x].slot_no = elem[x].slot_no
                               /\ elem'[x].execute_cycle_no = elem[x].execute_cycle_no
                               /\ elem'[x].time_interval = elem[x].time_interval
                               /\ x # e => elem'[x].opcode = elem[x].opcode
      BY <2>0 DEF Inv, TypeOK, ElemFields
    <2> HIDE DEF e
    <2>3. TypeOK'
      BY <2>0, <2>1, <2>2 DEF Inv, TypeOK
    <2>4. NeverOverdue' /\ IntervalsOK'
      BY <2>0, <2>2, SlotsKept DEF Inv, TypeOK
    <2>5. FreedLinkedOnly' /\ NeverDropped' /\ TodoOK'
      BY <2>0, <2>1 DEF Inv, FreedLinkedOnly, NeverDropped, TodoOK, e
    <2>6. DeleteOK'
      BY <2>0, <2>1, <2>2 DEF Inv, DeleteOK, TypeOK, e
    <2>7. AppOK'
      BY <2>0, <2>1 DEF Inv, AppOK, e
    <2> QED BY <2>3, <2>4, <2>5, <2>6, <2>7 DEF Inv
  <1>2. CASE SetInterval
    <2> DEFINE e == app.e
    <2>0. /\ app.pc = "interval" /\ e \in Timers /\ app.interval \in Nat
          /\ elem' = [elem EXCEPT ![e].new_time_interval = app.interval]
          /\ app' = [app EXCEPT !.pc = "lock"]
          /\ UNCHANGED <<current_clock_tic, current_cycle_no, slotlist, reschd_list,
                         alive, owned, wheel, fired>>
      BY <1>2 DEF SetInterval, Inv, TypeOK, AppCalls, AppOK
    <2>1. /\ app'.e = e /\ app'.op = app.op /\ app'.pc = "lock" /\ app' \in AppCalls
          /\ app'.waits = app.waits
      BY <2>0 DEF Inv, TypeOK, AppCalls
    <2>2. /\ elem' \in [Timers -> ElemFields]
          /\ \A x \in Timers : /\ elem'[x].slot_no = elem[x].slot_no
                               /\ elem'[x].execute_cycle_no = elem[x].execute_cycle_no
                               /\ elem'[x].time_interval = elem[x].time_interval
                               /\ elem'[x].opcode = elem[x].opcode
      BY <2>0 DEF Inv, TypeOK, ElemFields
    <2> HIDE DEF e
    <2>3. TypeOK'
      BY <2>0, <2>1, <2>2 DEF Inv, TypeOK
    <2>4. NeverOverdue' /\ IntervalsOK'
      BY <2>0, <2>2, SlotsKept DEF Inv, TypeOK
    <2>5. FreedLinkedOnly' /\ NeverDropped' /\ TodoOK'
      BY <2>0, <2>1 DEF Inv, FreedLinkedOnly, NeverDropped, TodoOK, e
    <2>6. DeleteOK'
      BY <2>0, <2>1, <2>2 DEF Inv, DeleteOK, TypeOK, e
    <2>7. AppOK'
      BY <2>0, <2>1 DEF Inv, AppOK, e
    <2> QED BY <2>3, <2>4, <2>5, <2>6, <2>7 DEF Inv
  <1>3. CASE LinkResched
    <2>0. /\ app.pc = "lock" /\ app.e \in Timers
          /\ wheel.pc \notin {"read", "act"}
          /\ reschd_list' = reschd_list \cup {app.e}
          /\ \/ app.e \in alive /\ app' = Idle
             \/ app.e \notin alive /\ app' = [app EXCEPT !.pc = "undefined"]
          /\ UNCHANGED <<current_clock_tic, current_cycle_no, elem, slotlist,
                         alive, owned, wheel, fired>>
      BY <1>3 DEF LinkResched, ListLocked, Inv, AppOK
    <2>1. /\ app' \in AppCalls
          /\ \/ app.e \in alive /\ app'.e = NULL /\ app'.pc = "idle"
             \/ /\ app.e \notin alive /\ app'.e = app.e /\ app'.pc = "undefined"
                /\ app'.op = app.op /\ app'.waits = app.waits
          /\ app.e # NULL
      <3>1. app.e # NULL
        BY <2>0, WheelAssumption
      <3>2. CASE app.e \in alive
        <4>1. app' = Idle
          BY <2>0, <3>2
        <4>2. Idle \in AppCalls /\ Idle.e = NULL /\ Idle.pc = "idle"
          BY DEF AppCalls, Idle
        <4> QED BY <3>1, <3>2, <4>1, <4>2
      <3>3. CASE app.e \notin alive
        BY <2>0, <3>1, <3>3 DEF Inv, TypeOK, AppCalls
      <3> QED BY <3>2, <3>3
    <2>3. TypeOK'
      BY <2>0, <2>1 DEF Inv, TypeOK
    <2>4. NeverOverdue' /\ IntervalsOK'
      BY <2>0, SlotsKept DEF Inv, TypeOK
    <2>5. FreedLinkedOnly'
      BY <2>0, <2>1 DEF Inv, FreedLinkedOnly, AppOK
    <2>6. NeverDropped'
      BY <2>0, <2>1 DEF Inv, NeverDropped
    <2>7. TodoOK'
      BY <2>0 DEF Inv, TodoOK
    <2>8. DeleteOK' /\ AppOK'
      BY <2>0, <2>1 DEF Inv, DeleteOK, AppOK
    <2> QED BY <2>3, <2>4, <2>5, <2>6, <2>7, <2>8 DEF Inv
  <1> QED BY <1>1, <1>2, <1>3

-----------------------------------------------------------------------------
\* wheel_fn moves the clock by one slot.
LEMMA TickTime ==
  ASSUME Inv, Tick
  PROVE  /\ current_clock_tic' \in Slots /\ current_cycle_no' \in Nat
         /\ Now' = Now + 1
  <1> USE WheelAssumption
  <1>1. /\ current_clock_tic \in 0..(wheel_size - 1) /\ current_cycle_no \in Nat
        /\ current_clock_tic' = (current_clock_tic + 1) % wheel_size
        /\ current_cycle_no' = current_cycle_no + (IF current_clock_tic' = 0 THEN 1 ELSE 0)
    BY DEF Inv, TypeOK, Tick, Slots
  <1>2. CASE current_clock_tic + 1 < wheel_size
    <2>1. current_clock_tic' = current_clock_tic + 1
      BY <1>1, <1>2
    <2> QED BY <1>1, <1>2, <2>1 DEF Now, Slots
  <1>3. CASE current_clock_tic + 1 = wheel_size
    <2>1. current_clock_tic' = 0
      BY <1>1, <1>3
    <2>2. (current_cycle_no + 1) * wheel_size = current_cycle_no * wheel_size + wheel_size
      BY <1>1
    <2> QED BY <1>1, <1>3, <2>1, <2>2 DEF Now, Slots
  <1> QED BY <1>1, <1>2, <1>3

\* What is due now is in the slot the clock points at, in the current cycle.
LEMMA DueNow ==
  ASSUME TypeOK, NEW e \in Timers, AbsSlot(e) = Now
  PROVE  elem[e].slot_no = current_clock_tic /\ elem[e].execute_cycle_no = current_cycle_no
  <1>1. /\ elem[e].slot_no \in 0..(wheel_size - 1) /\ elem[e].execute_cycle_no \in Nat
        /\ current_clock_tic \in 0..(wheel_size - 1) /\ current_cycle_no \in Nat
    BY DEF TypeOK, ElemFields, Slots
  <1> QED BY <1>1, SlotUnique, WheelAssumption DEF AbsSlot, Now

LEMMA TickInv ==
  ASSUME Inv, Tick
  PROVE  Inv'
  <1> USE WheelAssumption
  <1>0. /\ wheel.pc = "idle"
        /\ wheel' = [wheel EXCEPT !.pc = "fire", !.todo = slotlist[current_clock_tic']]
        /\ fired' = {}
        /\ UNCHANGED <<elem, slotlist, reschd_list, alive, owned, app>>
    BY DEF Tick
  <1>1. /\ current_clock_tic' \in Slots /\ current_cycle_no' \in Nat
        /\ Now' = Now + 1 /\ Now \in Nat
    BY TickTime DEF Inv, TypeOK, Now, Slots
  <1>2. /\ wheel' \in WheelPlaces /\ wheel'.pc = "fire"
        /\ wheel'.todo = slotlist[current_clock_tic']
    BY <1>0, <1>1 DEF Inv, TypeOK, WheelPlaces
  <1>3. TypeOK'
    BY <1>0, <1>1, <1>2 DEF Inv, TypeOK
  <1>4. NeverOverdue'
    <2> SUFFICES ASSUME NEW s \in Slots, NEW e \in slotlist[s]
                 PROVE  /\ elem[e].slot_no = s
                        /\ AbsSlot(e) - Now' <= elem[e].time_interval
                        /\ \/ AbsSlot(e) > Now'
                           \/ AbsSlot(e) = Now' /\ wheel'.pc = "fire" /\ e \in wheel'.todo
      BY <1>0 DEF NeverOverdue, AbsSlot
    <2>1. /\ e \in Timers /\ elem[e].slot_no = s /\ AbsSlot(e) - Now <= elem[e].time_interval
          /\ AbsSlot(e) > Now
      BY <1>0 DEF Inv, TypeOK, NeverOverdue
    <2>2. AbsSlot(e) \in Nat /\ elem[e].time_interval \in Nat
      BY <2>1 DEF Inv, TypeOK, AbsSlot, ElemFields, Slots
    <2>3. CASE AbsSlot(e) = Now'
      <3>1. AbsSlot(e)' = AbsSlot(e)
        BY <1>0 DEF AbsSlot
      <3>2. elem[e].slot_no \in 0..(wheel_size - 1) /\ elem[e].execute_cycle_no \in Nat
        BY <2>1 DEF Inv, TypeOK, ElemFields, Slots
      <3>a. elem[e].execute_cycle_no * wheel_size + elem[e].slot_no
              = current_cycle_no' * wheel_size + current_clock_tic'
        BY <2>3 DEF AbsSlot, Now
      <3>b. current_clock_tic' \in 0..(wheel_size - 1) /\ current_cycle_no' \in Nat
        BY <1>1 DEF Slots
      <3>c. \A c, d \in Nat : \A s1, t1 \in 0..(wheel_size - 1) :
              c * wheel_size + s1 = d * wheel_size + t1 => s1 = t1
        BY SlotUnique
      <3>3. elem[e].slot_no = current_clock_tic'
        BY <3>a, <3>b, <3>c, <3>2, Zenon
      <3> QED BY <1>1, <1>2, <2>1, <2>2, <2>3, <3>3
    <2>4. CASE AbsSlot(e) # Now'
      BY <1>1, <2>1, <2>2, <2>4
    <2> QED BY <2>3, <2>4
  <1>5. FreedLinkedOnly' /\ NeverDropped' /\ IntervalsOK' /\ AppOK'
    BY <1>0 DEF Inv, FreedLinkedOnly, NeverDropped, IntervalsOK, AppOK
  <1>6. TodoOK'
    BY <1>0, <1>2 DEF Inv, TodoOK
  <1>7. DeleteOK'
    BY <1>0, <1>2 DEF Inv, DeleteOK
  <1> QED BY <1>3, <1>4, <1>5, <1>6, <1>7 DEF Inv

LEMMA FireInv ==
  ASSUME Inv, NEW e \in Timers, Fire(e)
  PROVE  Inv' /\ AbsSlot(e) = Now
  <1> USE WheelAssumption
  <1>0. /\ wheel.pc = "fire" /\ Due(e) /\ e \in wheel.todo
        /\ fired' = fired \cup {e}
        /\ wheel' = [wheel EXCEPT !.todo = @ \ {e}]
        /\ UNCHANGED <<current_clock_tic, current_cycle_no, reschd_list, alive, owned, app>>
    BY DEF Fire, Due
  <1>1. e \in slotlist[current_clock_tic] /\ current_clock_tic \in Slots
    BY <1>0 DEF Inv, TodoOK, TypeOK
  <1>2. AbsSlot(e) = Now
    BY <1>0, <1>1 DEF Due, Inv, NeverOverdue, AbsSlot, Now
  <1>3. elem[e].time_interval \in Nat \ {0} /\ e \in alive
    BY <1>1 DEF Inv, IntervalsOK, FreedLinkedOnly, TypeOK, ElemFields
  <1>4. /\ wheel' \in WheelPlaces /\ wheel'.pc = "fire" /\ wheel'.todo = wheel.todo \ {e}
    BY <1>0 DEF Inv, TypeOK, WheelPlaces
  <1>5. Now' = Now /\ Now \in Nat
    BY <1>0 DEF Now, Inv, TypeOK, Slots
  <1>6. CASE Again(e)
    <2>1. Placed(e, elem[e].time_interval)
      BY <1>6 DEF Fire
    <2>2. /\ elem' \in [Timers -> ElemFields]
          /\ slotlist' \in [Slots -> SUBSET Timers]
          /\ elem'[e].execute_cycle_no * wheel_size + elem'[e].slot_no = Now + elem[e].time_interval
          /\ elem'[e].time_interval = elem[e].time_interval
          /\ elem'[e].opcode \in {elem[e].opcode, "WTELEM_SCHEDULED"}
          /\ \A x \in Timers \ {e} : elem'[x] = elem[x]
          /\ e \in slotlist'[elem'[e].slot_no]
          /\ \A s \in Slots : e \in slotlist'[s] => s = elem'[e].slot_no
          /\ \A s \in Slots, x \in Timers \ {e} : x \in slotlist'[s] <=> x \in slotlist[s]
      BY <1>3, <2>1, PlacedAt
    <2>3. TypeOK'
      BY <1>0, <1>4, <2>2 DEF Inv, TypeOK
    <2>4. NeverOverdue'
      <3> SUFFICES ASSUME NEW s \in Slots, NEW x \in slotlist'[s]
                   PROVE  /\ elem'[x].slot_no = s
                          /\ AbsSlot(x)' - Now <= elem'[x].time_interval
                          /\ \/ AbsSlot(x)' > Now
                             \/ AbsSlot(x)' = Now /\ wheel'.pc = "fire" /\ x \in wheel'.todo
        BY <1>5 DEF NeverOverdue, AbsSlot
      <3>1. CASE x = e
        BY <1>3, <1>5, <2>2, <3>1 DEF AbsSlot
      <3>2. CASE x # e
        <4>1. x \in Timers \ {e} /\ x \in slotlist[s] /\ elem'[x] = elem[x]
          BY <2>2, <3>2
        <4>2. AbsSlot(x)' = AbsSlot(x)
          BY <4>1 DEF AbsSlot
        <4> QED BY <1>4, <1>5, <4>1, <4>2 DEF Inv, NeverOverdue
      <3> QED BY <3>1, <3>2
    <2>5. FreedLinkedOnly'
      BY <1>0, <1>3, <2>2 DEF Inv, FreedLinkedOnly
    <2>6. NeverDropped'
      <3>1. elem'[e].slot_no \in Slots
        BY <2>2 DEF ElemFields
      <3> QED BY <1>0, <2>2, <3>1 DEF Inv, NeverDropped, TypeOK
    <2>7. TodoOK'
      <3>1. \A x \in wheel'.todo : x \in slotlist'[current_clock_tic]
        BY <1>0, <1>1, <1>4, <2>2 DEF Inv, TodoOK, TypeOK, WheelPlaces
      <3> QED BY <1>0, <1>4, <3>1 DEF TodoOK
    <2>8. IntervalsOK'
      <3> SUFFICES ASSUME NEW s \in Slots, NEW x \in slotlist'[s]
                   PROVE  elem'[x].time_interval > 0
        BY DEF IntervalsOK
      <3>1. CASE x = e
        BY <1>3, <2>2, <3>1
      <3>2. CASE x # e
        BY <2>2, <3>2 DEF Inv, IntervalsOK
      <3> QED BY <3>1, <3>2
    <2>9. DeleteOK'
      BY <1>0, <1>4, <2>2 DEF Inv, DeleteOK, TypeOK
    <2>10. AppOK'
      BY <1>0 DEF Inv, AppOK
    <2> QED BY <1>2, <2>3, <2>4, <2>5, <2>6, <2>7, <2>8, <2>9, <2>10 DEF Inv
  <1>7. CASE ~Again(e)
    <2>1. slotlist' = [s \in Slots |-> slotlist[s] \ {e}] /\ elem' = elem
      BY <1>7 DEF Fire, Unplaced
    <2>3. TypeOK'
      BY <1>0, <1>4, <2>1 DEF Inv, TypeOK
    <2>4. NeverOverdue'
      BY <1>4, <1>5, <2>1 DEF Inv, NeverOverdue, AbsSlot
    <2>5. FreedLinkedOnly' /\ IntervalsOK'
      BY <1>0, <2>1 DEF Inv, FreedLinkedOnly, IntervalsOK
    <2>6. NeverDropped'
      BY <1>0, <1>7, <2>1 DEF Inv, NeverDropped, Again
    <2>7. TodoOK'
      BY <1>0, <1>1, <1>4, <2>1 DEF Inv, TodoOK
    <2>9. DeleteOK' /\ AppOK'
      BY <1>0, <1>4, <2>1 DEF Inv, DeleteOK, AppOK
    <2> QED BY <1>2, <2>3, <2>4, <2>5, <2>6, <2>7, <2>9 DEF Inv
  <1> QED BY <1>6, <1>7

\* wheel_fn leaves the loop only when nothing is due in this tick: the front
\* of the slot has the smallest cycle, so a later cycle there means later
\* cycles behind it.
LEMMA StartReschedInv ==
  ASSUME Inv, StartResched
  PROVE  Inv'
  <1> USE WheelAssumption
  <1>0. /\ wheel.pc = "fire" /\ ~\E e \in Timers : Due(e)
        /\ wheel' = [wheel EXCEPT !.pc = "read", !.todo = reschd_list]
        /\ UNCHANGED <<current_clock_tic, current_cycle_no, elem, slotlist, reschd_list,
                       alive, owned, app, fired>>
    BY DEF StartResched
  <1>1. /\ wheel' \in WheelPlaces /\ wheel'.pc = "read" /\ wheel'.todo = reschd_list
    BY <1>0 DEF Inv, TypeOK, WheelPlaces
  <1>2. TypeOK'
    BY <1>0, <1>1 DEF Inv, TypeOK
  <1>3. \A s \in Slots : \A e \in slotlist[s] : AbsSlot(e) # Now
    <2> SUFFICES ASSUME NEW s \in Slots, NEW e \in slotlist[s], AbsSlot(e) = Now
                 PROVE  Due(e)
      BY <1>0 DEF Inv, TypeOK
    <2>1. e \in Timers /\ e \in wheel.todo
      <3>1. Now \in Nat /\ ~(Now > Now)
        BY DEF Inv, TypeOK, Now, Slots
      <3> QED BY <3>1 DEF Inv, TypeOK, NeverOverdue
    <2>2. elem[e].slot_no = current_clock_tic /\ elem[e].execute_cycle_no = current_cycle_no
      BY <2>1, DueNow DEF Inv
    <2>3. ASSUME NEW x \in wheel.todo
          PROVE  elem[e].execute_cycle_no <= elem[x].execute_cycle_no
      <3>1. x \in Timers /\ x \in slotlist[current_clock_tic] /\ current_clock_tic \in Slots
        BY <1>0 DEF Inv, TypeOK, TodoOK, WheelPlaces
      <3>2. elem[x].slot_no = current_clock_tic /\ (AbsSlot(x) > Now \/ AbsSlot(x) = Now)
        BY <3>1 DEF Inv, NeverOverdue
      <3>3. /\ elem[x].execute_cycle_no \in Nat /\ current_cycle_no \in Nat
            /\ current_clock_tic \in 0..(wheel_size - 1)
        BY <3>1 DEF Inv, TypeOK, ElemFields, Slots
      <3>4. current_cycle_no * wheel_size + current_clock_tic
              <= elem[x].execute_cycle_no * wheel_size + current_clock_tic
        BY <3>2, <3>3 DEF AbsSlot, Now
      <3>5. current_cycle_no <= elem[x].execute_cycle_no
        BY <3>3, <3>4, CycleMono
      <3> QED BY <2>2, <3>5
    <2> QED BY <2>1, <2>2, <2>3 DEF Due
  <1>4. NeverOverdue'
    BY <1>0, <1>3 DEF Inv, NeverOverdue, AbsSlot, Now
  <1>5. FreedLinkedOnly' /\ NeverDropped' /\ IntervalsOK' /\ AppOK'
    BY <1>0 DEF Inv, FreedLinkedOnly, NeverDropped, IntervalsOK, AppOK
  <1>6. TodoOK' /\ DeleteOK'
    BY <1>0, <1>1 DEF Inv, TodoOK, DeleteOK
  <1> QED BY <1>2, <1>4, <1>5, <1>6 DEF Inv

\* The element is unlinked from its slot while it is in reschd_list.
LEMMA ReadOpcodeInv ==
  ASSUME Inv, NEW e \in Timers, ReadOpcode(e)
  PROVE  Inv'
  <1> USE WheelAssumption
  <1>0. /\ wheel.pc = "read" /\ e \in wheel.todo
        /\ slotlist' = [s \in Slots |-> slotlist[s] \ {e}]
        /\ wheel' = [wheel EXCEPT !.pc = "act", !.e = e, !.op = elem[e].opcode]
        /\ UNCHANGED <<current_clock_tic, current_cycle_no, elem, reschd_list,
                       alive, owned, app, fired>>
    BY DEF ReadOpcode, Unplaced
  <1>1. /\ wheel' \in WheelPlaces /\ wheel'.pc = "act" /\ wheel'.todo = wheel.todo
        /\ wheel'.e = e /\ wheel'.op = elem[e].opcode
    BY <1>0 DEF Inv, TypeOK, WheelPlaces, ElemFields
  <1>2. e \in reschd_list
    BY <1>0 DEF Inv, TodoOK
  <1>3. TypeOK'
    BY <1>0, <1>1 DEF Inv, TypeOK
  <1>4. NeverOverdue' /\ IntervalsOK'
    BY <1>0, <1>1 DEF Inv, NeverOverdue, IntervalsOK, AbsSlot, Now
  <1>5. FreedLinkedOnly' /\ AppOK'
    BY <1>0 DEF Inv, FreedLinkedOnly, AppOK
  <1>6. NeverDropped'
    BY <1>0, <1>2 DEF Inv, NeverDropped
  <1>7. TodoOK' /\ DeleteOK'
    BY <1>0, <1>1 DEF Inv, TodoOK, DeleteOK
  <1> QED BY <1>3, <1>4, <1>5, <1>6, <1>7 DEF Inv

\* What ActDone does to the place of the wheel thread.
LEMMA ActDonePlace ==
  ASSUME Inv, Running, wheel.pc = "act", ActDone
  PROVE  /\ wheel' \in WheelPlaces /\ wheel'.pc = "read"
         /\ wheel'.todo = wheel.todo \ {wheel.e}
         /\ wheel.e \in Timers /\ wheel.e \in reschd_list /\ wheel.e \in alive
         /\ wheel.todo \subseteq reschd_list
         /\ \A s \in Slots : wheel.e \notin slotlist[s]
  BY DEF Inv, TypeOK, WheelPlaces, ActDone, TodoOK, AppOK, Running

LEMMA ActScheduleInv ==
  ASSUME Inv, ActSchedule
  PROVE  Inv'
  <1> USE WheelAssumption
  <1> DEFINE e == wheel.e
             interval == elem[e].new_time_interval
  <1>0. /\ wheel.pc = "act" /\ Running
        /\ UNCHANGED <<current_clock_tic, current_cycle_no, alive, owned, app, fired>>
        /\ \/ /\ wheel' = [wheel EXCEPT !.pc = "abort"]
              /\ UNCHANGED <<elem, slotlist, reschd_list>>
           \/ /\ interval # 0
              /\ Placed(e, interval)
              /\ reschd_list' = reschd_list \ {e}
              /\ ActDone
    BY DEF ActSchedule
  <1>1. /\ e \in Timers /\ e \in reschd_list /\ e \in alive
        /\ \A s \in Slots : e \notin slotlist[s]
    BY <1>0 DEF Inv, TodoOK, AppOK, Running, TypeOK
  <1>2. Now' = Now /\ Now \in Nat
    BY <1>0 DEF Now, Inv, TypeOK, Slots
  <1>3. CASE /\ wheel' = [wheel EXCEPT !.pc = "abort"]
             /\ UNCHANGED <<elem, slotlist, reschd_list>>
    <2>1. wheel' \in WheelPlaces /\ wheel'.pc = "abort"
      BY <1>3 DEF Inv, TypeOK, WheelPlaces
    <2>2. TypeOK'
      BY <1>0, <1>3, <2>1 DEF Inv, TypeOK
    <2>3. NeverOverdue'
      BY <1>0, <1>2, <1>3, <2>1 DEF Inv, NeverOverdue, AbsSlot
    <2>4. FreedLinkedOnly' /\ NeverDropped' /\ IntervalsOK' /\ AppOK' /\ TodoOK' /\ DeleteOK'
      BY <1>0, <1>3, <2>1 DEF Inv, FreedLinkedOnly, NeverDropped, IntervalsOK, AppOK, TodoOK, DeleteOK
    <2> QED BY <2>2, <2>3, <2>4 DEF Inv
  <1>4. CASE /\ interval # 0
             /\ Placed(e, interval)
             /\ reschd_list' = reschd_list \ {e}
             /\ ActDone
    <2>1. /\ wheel' \in WheelPlaces /\ wheel'.pc = "read" /\ wheel'.todo = wheel.todo \ {e}
          /\ wheel.todo \subseteq reschd_list
      BY <1>0, <1>4, ActDonePlace
    <2>2. interval \in Nat \ {0}
      BY <1>1, <1>4 DEF Inv, TypeOK, ElemFields
    <2> HIDE DEF e, interval
    <2>3. /\ elem' \in [Timers -> ElemFields]
          /\ slotlist' \in [Slots -> SUBSET Timers]
          /\ elem'[e].execute_cycle_no * wheel_size + elem'[e].slot_no = Now + interval
          /\ elem'[e].time_interval = interval
          /\ elem'[e].opcode \in {elem[e].opcode, "WTELEM_SCHEDULED"}
          /\ \A x \in Timers \ {e} : elem'[x] = elem[x]
          /\ e \in slotlist'[elem'[e].slot_no]
          /\ \A s \in Slots : e \in slotlist'[s] => s = elem'[e].slot_no
          /\ \A s \in Slots, x \in Timers \ {e} : x \in slotlist'[s] <=> x \in slotlist[s]
      BY <1>1, <1>4, <2>2, PlacedAt
    <2>4. TypeOK'
      BY <1>0, <1>4, <2>1, <2>3 DEF Inv, TypeOK
    <2>5. NeverOverdue' /\ IntervalsOK'
      <3> SUFFICES ASSUME NEW s \in Slots, NEW x \in slotlist'[s]
                   PROVE  /\ elem'[x].slot_no = s
                          /\ AbsSlot(x)' - Now <= elem'[x].time_interval
                          /\ AbsSlot(x)' > Now
                          /\ elem'[x].time_interval > 0
        BY <1>2 DEF NeverOverdue, IntervalsOK, AbsSlot
      <3>1. CASE x = e
        BY <1>2, <2>2, <2>3, <3>1 DEF AbsSlot
      <3>2. CASE x # e
        <4>1. x \in Timers \ {e} /\ x \in slotlist[s] /\ elem'[x] = elem[x]
          BY <2>3, <3>2
        <4>2. AbsSlot(x)' = AbsSlot(x)
          BY <4>1 DEF AbsSlot
        <4> QED BY <1>0, <1>2, <4>1, <4>2 DEF Inv, NeverOverdue, IntervalsOK
      <3> QED BY <3>1, <3>2
    <2>6. FreedLinkedOnly'
      BY <1>0, <1>1, <1>4, <2>3 DEF Inv, FreedLinkedOnly
    <2>7. NeverDropped'
      <3>1. elem'[e].slot_no \in Slots
        BY <1>1, <2>3 DEF ElemFields
      <3> QED BY <1>0, <1>4, <2>3, <3>1 DEF Inv, NeverDropped, TypeOK
    <2>8. TodoOK'
      BY <1>4, <2>1 DEF TodoOK
    <2>9. DeleteOK' /\ AppOK'
      <3>1. \A x \in Timers : elem'[x].opcode \in {elem[x].opcode, "WTELEM_SCHEDULED"}
        BY <1>1, <2>3
      <3> QED BY <1>0, <2>1, <3>1 DEF Inv, DeleteOK, AppOK, TypeOK
    <2> QED BY <2>4, <2>5, <2>6, <2>7, <2>8, <2>9 DEF Inv
  <1> QED BY <1>0, <1>3, <1>4

LEMMA ActOtherInv ==
  ASSUME Inv, ActDelete \/ ActNothing \/ EndTick
  PROVE  Inv'
  <1> USE WheelAssumption
  <1>1. CASE ActDelete
    <2>0. /\ wheel.pc = "act" /\ wheel.op = "WTELEM_DELETE" /\ ActDone /\ Running
          /\ reschd_list' = reschd_list \ {wheel.e}
          /\ alive' = alive \ {wheel.e}
          /\ UNCHANGED <<current_clock_tic, current_cycle_no, elem, slotlist, owned, app, fired>>
      BY <1>1 DEF ActDelete, ListAfterDelete
    <2>1. /\ wheel' \in WheelPlaces /\ wheel'.pc = "read"
          /\ wheel'.todo = wheel.todo \ {wheel.e}
          /\ wheel.todo \subseteq reschd_list
          /\ \A s \in Slots : wheel.e \notin slotlist[s]
          /\ wheel.e \notin owned /\ wheel.e \in reschd_list
      BY <2>0, ActDonePlace DEF Inv, DeleteOK
    <2>a. app.e = wheel.e => app.op = "WTELEM_DELETE" /\ app.waits
      BY <2>0, <2>1, ActDonePlace DEF Inv, AppOK, Running, TypeOK, AppCalls
    <2>2. TypeOK'
      BY <2>0, <2>1 DEF Inv, TypeOK
    <2>3. NeverOverdue' /\ IntervalsOK'
      BY <2>0, <2>1 DEF Inv, NeverOverdue, IntervalsOK, AbsSlot, Now
    <2>4. FreedLinkedOnly'
      BY <2>0, <2>1, <2>a DEF Inv, FreedLinkedOnly
    <2>5. NeverDropped' /\ AppOK'
      BY <2>0, <2>1 DEF Inv, NeverDropped, AppOK
    <2>6. TodoOK' /\ DeleteOK'
      BY <2>0, <2>1 DEF Inv, TodoOK, DeleteOK
    <2> QED BY <2>2, <2>3, <2>4, <2>5, <2>6 DEF Inv
  <1>2. CASE ActNothing \/ EndTick
    <2>0. /\ wheel.pc \in {"act", "read"} /\ Running
          /\ UNCHANGED <<current_clock_tic, current_cycle_no, elem, slotlist, reschd_list,
                         alive, owned, app, fired>>
      BY <1>2 DEF ActNothing, EndTick
    <2>1. /\ wheel' \in WheelPlaces /\ wheel'.pc \in {"read", "idle"}
          /\ wheel'.todo \subseteq reschd_list
      BY <1>2, ActDonePlace DEF ActNothing, EndTick, Inv, TypeOK, WheelPlaces, TodoOK
    <2>2. TypeOK'
      BY <2>0, <2>1 DEF Inv, TypeOK
    <2>3. NeverOverdue' /\ IntervalsOK'
      BY <2>0, <2>1 DEF Inv, NeverOverdue, IntervalsOK, AbsSlot, Now
    <2>4. FreedLinkedOnly' /\ NeverDropped' /\ AppOK' /\ TodoOK' /\ DeleteOK'
      BY <2>0, <2>1 DEF Inv, FreedLinkedOnly, NeverDropped, AppOK, TodoOK, DeleteOK
    <2> QED BY <2>2, <2>3, <2>4 DEF Inv
  <1> QED BY <1>1, <1>2

LEMMA StutterInv ==
  ASSUME Inv, UNCHANGED vars
  PROVE  Inv'
  BY DEF vars, Inv, TypeOK, NeverOverdue, FreedLinkedOnly, NeverDropped, TodoOK, IntervalsOK,
         DeleteOK, AppOK, AbsSlot, Now

LEMMA NextInv ==
  ASSUME Inv, [Next]_vars
  PROVE  Inv'
  <1>1. CASE AppStep
    BY <1>1, RegisterInv, CallInv, RescheduleInv DEF AppStep
  <1>2. CASE WheelStep
    BY <1>2, TickInv, FireInv, StartReschedInv, ReadOpcodeInv, ActScheduleInv, ActOtherInv
       DEF WheelStep
  <1>3. CASE UNCHANGED vars
    BY <1>3, StutterInv
  <1> QED BY <1>1, <1>2, <1>3 DEF Next

THEOREM InvHolds == Spec => []Inv
  <1>1. Inv /\ [Next]_vars => Inv'
    BY NextInv
  <1> QED BY <1>1, InitInv, PTL DEF Spec

-----------------------------------------------------------------------------
\* The fields of the wheel keep their types; no slot number leaves the wheel.
THEOREM WheelTypeCorrect == Spec => []TypeOK
  <1>1. Inv => TypeOK
    BY DEF Inv
  <1> QED BY <1>1, InvHolds, PTL

\* The wheel passes no element over: wheel_fn may stop at the first element
\* that is not due.
THEOREM WheelNeverBehind == Spec => []NeverOverdue
  <1>1. Inv => NeverOverdue
    BY DEF Inv
  <1> QED BY <1>1, InvHolds, PTL

\* process_wt_reschedule_slotlist frees an element only after it has left its
\* slot and the list; a freed element is written to or linked again by one
\* race only, a de-registration that found an earlier call for the timer still
\* waiting; and a recurrent timer stays linked for as long as the application
\* holds it, whatever the races on its opcode do.
THEOREM WheelKeepsElems == Spec => []ElemsKept
  <1>1. Inv => ElemsKept
    BY DEF Inv, ElemsKept
  <1> QED BY <1>1, InvHolds, PTL

\* wheel_fn creates the job of a timer in the tick in which it is due.
THEOREM WheelFiresWhenDue == Spec => FiresWhenDue
  <1>1. ASSUME Inv, [Next]_vars
        PROVE  \A e \in fired' \ fired : AbsSlot(e) = Now
    <2> SUFFICES ASSUME NEW x \in fired' \ fired
                 PROVE  AbsSlot(x) = Now
      OBVIOUS
    <2>1. CASE AppStep
      BY <2>1 DEF AppStep, timer_register_app_event, timer_reschedule, timer_de_register_app_event,
         SetOpcode, SetInterval, LinkResched
    <2>2. CASE \E e \in Timers : Fire(e)
      <3>1. PICK e \in Timers : Fire(e)
        BY <2>2
      <3>2. x = e
        BY <3>1 DEF Fire
      <3> QED BY <1>1, <3>1, <3>2, FireInv
    <2>3. CASE WheelStep /\ ~\E e \in Timers : Fire(e)
      BY <2>3 DEF WheelStep, Tick, StartResched, ReadOpcode, ActSchedule, ActDelete, ActNothing, EndTick
    <2>4. CASE UNCHANGED vars
      BY <2>4 DEF vars
    <2> QED BY <1>1, <2>1, <2>2, <2>3, <2>4 DEF Next
  <1>2. Inv /\ [Next]_vars => [\A e \in fired' \ fired : AbsSlot(e) = Now]_vars
    BY <1>1
  <1> QED BY <1>2, InvHolds, PTL DEF Spec, FiresWhenDue
=============================================================================
