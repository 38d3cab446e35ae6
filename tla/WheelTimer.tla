----------------------------- MODULE WheelTimer -----------------------------
(***************************************************************************)
(* libtimer/WheelTimer.c: one timer thread turns a wheel of slots; the     *)
(* application (everything it does with timers runs on the dispatcher)     *)
(* registers, reschedules and de-registers timers through a list that the  *)
(* wheel thread works off at the end of every tick.                        *)
(*                                                                         *)
(* Time is counted in ticks of the clock: an interval is the number of     *)
(* ticks, time_interval / wt_get_clock_interval_in_milli_sec.  A slot list *)
(* is kept sorted by cycle by glthread_priority_insert (see GlthreadList): *)
(* it is the set of its elements, walked from the smallest cycle on.  The  *)
(* order of reschd_list does not matter, it is a set too.                  *)
(* The slots belong to the wheel thread; the mutex of reschd_list covers   *)
(* that list only: opcode and new_time_interval are written without it.    *)
(***************************************************************************)
EXTENDS Integers

CONSTANTS
  Timers,            \* wheel_timer_elem_t objects
  NULL,
  wheel_size,
  Intervals,         \* the intervals applications ask for, in ticks
  Recurrent,         \* the timers registered with is_recursive
  MaxTicks           \* bound: ticks of the clock

ASSUME WheelAssumption ==
  /\ wheel_size \in Nat \ {0}
  /\ Intervals \subseteq Nat \ {0}   \* timer_register_app_event asserts it
  /\ Recurrent \subseteq Timers
  /\ MaxTicks \in Nat
  /\ NULL \notin Timers

VARIABLES
  current_clock_tic, current_cycle_no,
  elem,          \* the fields of each element
  slotlist,      \* the elements of each slot
  reschd_list,   \* the elements waiting for the end of the tick
  alive,         \* elements that are allocated
  owned,         \* elements the application holds a pointer to
  app,           \* the call the application is in
  wheel,         \* where the wheel thread is
  fired          \* elements that have created a job in this tick

vars == <<current_clock_tic, current_cycle_no, elem, slotlist, reschd_list,
          alive, owned, app, wheel, fired>>

Slots == 0..(wheel_size - 1)

ElemFields ==
  [opcode : {"WTELEM_CREATE", "WTELEM_RESCHED", "WTELEM_DELETE", "WTELEM_SCHEDULED"},
   time_interval : Nat, new_time_interval : Nat,
   execute_cycle_no : Nat, slot_no : Slots]

Fresh == [opcode |-> "WTELEM_CREATE", time_interval |-> 0, new_time_interval |-> 0,
          execute_cycle_no |-> 0, slot_no |-> 0]

\* waits records, for the properties, whether the element was still in
\* reschd_list, from an earlier call, when the call began.
Idle == [pc |-> "idle", e |-> NULL, op |-> "WTELEM_SCHEDULED", interval |-> 0,
         waits |-> FALSE]

Init ==
  /\ current_clock_tic = 0
  /\ current_cycle_no = 0
  /\ elem = [e \in Timers |-> Fresh]
  /\ slotlist = [s \in Slots |-> {}]
  /\ reschd_list = {}
  /\ alive = {}
  /\ owned = {}
  /\ app = Idle
  /\ wheel = [pc |-> "idle", todo |-> {}, e |-> NULL, op |-> "WTELEM_SCHEDULED"]
  /\ fired = {}

\* GET_WT_CURRENT_ABS_SLOT_NO, and the same for the place of an element.
Now == current_cycle_no * wheel_size + current_clock_tic

AbsSlot(e) == elem[e].execute_cycle_no * wheel_size + elem[e].slot_no

\* A failed assert or a use of freed memory ends the process.
Running == app.pc # "undefined" /\ wheel.pc # "abort"

-----------------------------------------------------------------------------
(* The application's calls. *)

Begin(e, op, interval, pc) ==
  /\ Running
  /\ app.pc = "idle"
  /\ app' = [pc |-> pc, e |-> e, op |-> op, interval |-> interval,
             waits |-> e \in reschd_list]

timer_register_app_event(e, interval) ==
  /\ Begin(e, "WTELEM_CREATE", interval, "opcode")
  /\ e \notin alive
  /\ alive' = alive \cup {e}
  /\ owned' = owned \cup {e}
  /\ elem' = [elem EXCEPT ![e] = Fresh]
  /\ UNCHANGED <<current_clock_tic, current_cycle_no, slotlist, reschd_list, wheel, fired>>

timer_reschedule(e, interval) ==
  /\ e \in owned
  /\ Begin(e, "WTELEM_RESCHED", interval, "opcode")
  /\ UNCHANGED <<current_clock_tic, current_cycle_no, elem, slotlist, reschd_list,
                 alive, owned, wheel, fired>>

\* The application gives the element up: its argument is set to 0 first.
timer_de_register_app_event(e) ==
  /\ e \in owned
  /\ Begin(e, "WTELEM_DELETE", 0, "opcode")
  /\ owned' = owned \ {e}
  /\ UNCHANGED <<current_clock_tic, current_cycle_no, elem, slotlist, reschd_list,
                 alive, wheel, fired>>

\* _timer_reschedule writes the two fields without the mutex ...
SetOpcode ==
  /\ Running
  /\ app.pc = "opcode"
  /\ elem' = [elem EXCEPT ![app.e].opcode = app.op]
  /\ app' = [app EXCEPT !.pc = "interval"]
  /\ UNCHANGED <<current_clock_tic, current_cycle_no, slotlist, reschd_list,
                 alive, owned, wheel, fired>>

\* (From here on the wheel thread may already have acted on the opcode.  When
\* it has freed the element the write goes to freed memory, and the call goes
\* on.)
SetInterval ==
  /\ Running
  /\ app.pc = "interval"
  /\ elem' = [elem EXCEPT ![app.e].new_time_interval = app.interval]
  /\ app' = [app EXCEPT !.pc = "lock"]
  /\ UNCHANGED <<current_clock_tic, current_cycle_no, slotlist, reschd_list,
                 alive, owned, wheel, fired>>

ListLocked == wheel.pc \in {"read", "act"}

\* ... and (re)links the element under the mutex, without asking whether it is
\* still there.  With a freed element in its list the process is undefined.
LinkResched ==
  /\ Running
  /\ app.pc = "lock"
  /\ ~ListLocked
  /\ reschd_list' = reschd_list \cup {app.e}
  /\ app' = IF app.e \in alive THEN Idle ELSE [app EXCEPT !.pc = "undefined"]
  /\ UNCHANGED <<current_clock_tic, current_cycle_no, elem, slotlist,
                 alive, owned, wheel, fired>>

-----------------------------------------------------------------------------
(* The wheel thread. *)

\* Mutant: the tick the interval starts from is counted twice.
NextAbsSlotEarly(interval) == Now + interval - 1

NextAbsSlot(interval) == Now + interval

SlotOf(abs) == abs % wheel_size

\* The element is unlinked from its slot and linked into the slot where it
\* is due after interval ticks.
Placed(e, interval) ==
  LET abs == NextAbsSlot(interval)
  IN /\ slotlist' = [s \in Slots |-> IF s = SlotOf(abs) THEN slotlist[s] \cup {e}
                                     ELSE slotlist[s] \ {e}]
     /\ elem' = [elem EXCEPT ![e].execute_cycle_no = abs \div wheel_size,
                             ![e].slot_no = SlotOf(abs),
                             ![e].time_interval = interval,
                             ![e].opcode = IF wheel.pc = "act" THEN "WTELEM_SCHEDULED" ELSE @]

Unplaced(e) == slotlist' = [s \in Slots |-> slotlist[s] \ {e}]

\* wheel_fn: the clock moves on to the next slot.
Tick ==
  /\ Running
  /\ wheel.pc = "idle"
  /\ Now < MaxTicks
  /\ LET tic == (current_clock_tic + 1) % wheel_size
     IN /\ current_clock_tic' = tic
        /\ current_cycle_no' = current_cycle_no + (IF tic = 0 THEN 1 ELSE 0)
        /\ wheel' = [wheel EXCEPT !.pc = "fire", !.todo = slotlist[tic]]
  /\ fired' = {}
  /\ UNCHANGED <<elem, slotlist, reschd_list, alive, owned, app>>

\* Mutant: whatever is in the slot is taken to be due (R == r not tested).
Due_always(e) == e \in wheel.todo

\* The element at the front of what is left of the slot, when its cycle is
\* the current one.
Due(e) ==
  /\ e \in wheel.todo
  /\ \A x \in wheel.todo : elem[e].execute_cycle_no <= elem[x].execute_cycle_no
  /\ elem[e].execute_cycle_no = current_cycle_no

Again(e) == e \in Recurrent

\* wheel_fn: the job of a due element is created; a recurrent element is
\* linked where it is due next, another one is unlinked.
Fire(e) ==
  /\ Running
  /\ wheel.pc = "fire"
  /\ Due(e)
  /\ fired' = fired \cup {e}
  /\ IF Again(e)
     THEN Placed(e, elem[e].time_interval)
     ELSE Unplaced(e) /\ UNCHANGED elem
  /\ wheel' = [wheel EXCEPT !.todo = @ \ {e}]
  /\ UNCHANGED <<current_clock_tic, current_cycle_no, reschd_list, alive, owned, app>>

\* wheel_fn stops at the first element that is not due;
\* process_wt_reschedule_slotlist takes the mutex.
StartResched ==
  /\ Running
  /\ wheel.pc = "fire"
  /\ ~\E e \in Timers : Due(e)
  /\ wheel' = [wheel EXCEPT !.pc = "read", !.todo = reschd_list]
  /\ UNCHANGED <<current_clock_tic, current_cycle_no, elem, slotlist, reschd_list,
                 alive, owned, app, fired>>

\* The element is unlinked from its slot and its opcode read.
ReadOpcode(e) ==
  /\ Running
  /\ wheel.pc = "read"
  /\ e \in wheel.todo
  /\ Unplaced(e)
  /\ wheel' = [wheel EXCEPT !.pc = "act", !.e = e, !.op = elem[e].opcode]
  /\ UNCHANGED <<current_clock_tic, current_cycle_no, elem, reschd_list,
                 alive, owned, app, fired>>

\* On to the next element of the list.
ActDone == wheel' = [wheel EXCEPT !.pc = "read", !.todo = @ \ {wheel.e}, !.e = NULL]

\* WTELEM_CREATE and WTELEM_RESCHED, with assert(wt_elem->time_interval).
ActSchedule ==
  /\ Running
  /\ wheel.pc = "act"
  /\ wheel.op \in {"WTELEM_CREATE", "WTELEM_RESCHED"}
  /\ LET interval == elem[wheel.e].new_time_interval
     IN IF interval = 0
        THEN /\ wheel' = [wheel EXCEPT !.pc = "abort"]
             /\ UNCHANGED <<elem, slotlist, reschd_list>>
        ELSE /\ Placed(wheel.e, interval)
             /\ reschd_list' = reschd_list \ {wheel.e}
             /\ ActDone
  /\ UNCHANGED <<current_clock_tic, current_cycle_no, alive, owned, app, fired>>

\* Mutant: a deleted element is freed but stays in the list.
ListAfterDelete_kept(e) == reschd_list

ListAfterDelete(e) == reschd_list \ {e}

\* WTELEM_DELETE
ActDelete ==
  /\ Running
  /\ wheel.pc = "act"
  /\ wheel.op = "WTELEM_DELETE"
  /\ reschd_list' = ListAfterDelete(wheel.e)
  /\ alive' = alive \ {wheel.e}
  /\ ActDone
  /\ UNCHANGED <<current_clock_tic, current_cycle_no, elem, slotlist, owned, app, fired>>

\* WTELEM_SCHEDULED: an element whose new opcode was overwritten.  It stays
\* in the list, unlinked from its slot.
ActNothing ==
  /\ Running
  /\ wheel.pc = "act"
  /\ wheel.op = "WTELEM_SCHEDULED"
  /\ ActDone
  /\ UNCHANGED <<current_clock_tic, current_cycle_no, elem, slotlist, reschd_list,
                 alive, owned, app, fired>>

EndTick ==
  /\ Running
  /\ wheel.pc = "read"
  /\ wheel.todo = {}
  /\ wheel' = [wheel EXCEPT !.pc = "idle"]
  /\ UNCHANGED <<current_clock_tic, current_cycle_no, elem, slotlist, reschd_list,
                 alive, owned, app, fired>>

-----------------------------------------------------------------------------
AppStep ==
  \/ \E e \in Timers, i \in Intervals : timer_register_app_event(e, i) \/ timer_reschedule(e, i)
  \/ \E e \in Timers : timer_de_register_app_event(e)
  \/ SetOpcode \/ SetInterval \/ LinkResched

WheelStep ==
  \/ Tick \/ StartResched
  \/ \E e \in Timers : Fire(e) \/ ReadOpcode(e)
  \/ ActSchedule \/ ActDelete \/ ActNothing \/ EndTick

Next == AppStep \/ WheelStep

Spec == Init /\ [][Next]_vars
-----------------------------------------------------------------------------
AppCalls ==
  [pc : {"idle", "opcode", "interval", "lock", "undefined"},
   e : Timers \cup {NULL},
   op : {"WTELEM_CREATE", "WTELEM_RESCHED", "WTELEM_DELETE", "WTELEM_SCHEDULED"},
   interval : Nat,
   waits : BOOLEAN]

WheelPlaces ==
  [pc : {"idle", "fire", "read", "act", "abort"},
   todo : SUBSET Timers,
   e : Timers \cup {NULL},
   op : {"WTELEM_CREATE", "WTELEM_RESCHED", "WTELEM_DELETE", "WTELEM_SCHEDULED"}]

TypeOK ==
  /\ current_clock_tic \in Slots
  /\ current_cycle_no \in Nat
  /\ elem \in [Timers -> ElemFields]
  /\ slotlist \in [Slots -> SUBSET Timers]
  /\ reschd_list \in SUBSET Timers
  /\ alive \in SUBSET Timers
  /\ owned \in SUBSET Timers
  /\ app \in AppCalls
  /\ wheel \in WheelPlaces
  /\ fired \in SUBSET Timers

\* The wheel never falls behind: the time that wt_get_remaining_time reports
\* for an element in the wheel is positive and at most its interval, except
\* for the elements that this tick has still to fire; and an element is in
\* the slot its fields say and in no other.  An element that was passed over
\* would block its slot: wheel_fn stops at the first element whose cycle is
\* not the current one.
NeverOverdue ==
  \A s \in Slots : \A e \in slotlist[s] :
    /\ elem[e].slot_no = s
    /\ AbsSlot(e) - Now <= elem[e].time_interval
    /\ \/ AbsSlot(e) > Now
       \/ AbsSlot(e) = Now /\ wheel.pc = "fire" /\ e \in wheel.todo

\* A slot never leads to a freed element.  reschd_list does, and a call writes
\* to one, in one way only: a de-registration that began while an earlier call
\* for the same timer was still waiting in the list, so that the wheel thread
\* met the new opcode there, and freed the element, before the de-registration
\* had locked the list.
FreedLinkedOnly ==
  \A e \in Timers \ alive :
    /\ \A s \in Slots : e \notin slotlist[s]
    /\ e \in reschd_list => app.e = e
    /\ app.e = e => app.op = "WTELEM_DELETE" /\ app.waits

\* A recurrent timer the application still holds is never dropped: it is in
\* the wheel, or waits in the reschedule list, or a call is about to put it
\* there.  (In the list it may wait for a further call: ActNothing, the
\* consequence of an opcode that the wheel thread has overwritten.)
NeverDropped ==
  \A e \in owned \cap Recurrent :
    e \in reschd_list \/ app.e = e \/ \E s \in Slots : e \in slotlist[s]

\* process_wt_reschedule_slotlist, _timer_reschedule: a freed element is reached
\* by the one race of FreedLinkedOnly and no other, and the races on the opcode
\* lose no recurrent element.
ElemsKept == FreedLinkedOnly /\ NeverDropped

\* A job is created for a timer in the very tick in which it is due.
FiresWhenDue == [][\A e \in fired' \ fired : AbsSlot(e) = Now]_vars

=============================================================================
