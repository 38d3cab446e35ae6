----------------------------- MODULE RouteView -----------------------------
(***************************************************************************)
(* What the notification of routes promises to an application: a table     *)
(* that changes, and for every subscriber a view of it that lags behind.   *)
(* A change makes its prefix stale; Deliver brings every subscriber up to  *)
(* date with all of them at once.  A view may run ahead (a flash shows the *)
(* table as it is), but a prefix that is not stale is never seen as it was.*)
(***************************************************************************)
CONSTANTS Clients, Dests,
          Contents,          \* what a route can say
          NoRoute, Unknown   \* nothing installed; never told

VARIABLES rib,     \* prefix -> what is installed
          stale,   \* prefixes with a change that has not been told
          subs,    \* the subscribers
          view     \* client -> prefix -> what it has made of what it was told

vars == <<rib, stale, subs, view>>

Seen == Contents \union {NoRoute, Unknown}

TypeOK == /\ rib \in [Dests -> Contents \union {NoRoute}]
          /\ stale \subseteq Dests
          /\ subs \subseteq Clients
          /\ view \in [Clients -> [Dests -> Seen]]

Init == /\ rib \in [Dests -> Contents \union {NoRoute}]
        /\ stale = {p \in Dests : rib[p] # NoRoute}
        /\ subs = {}
        /\ view = [c \in Clients |-> [p \in Dests |-> Unknown]]

\* One command or one calculation changes the routes of some prefixes.
Change(P) ==
  /\ rib' \in [Dests -> Contents \union {NoRoute}]
  /\ \A p \in Dests \ P : rib'[p] = rib[p]
  /\ stale' = stale \union P
  /\ UNCHANGED <<subs, view>>

Deliver ==
  /\ stale # {}
  /\ stale' = {}
  /\ view' = [c \in Clients |-> [p \in Dests |->
                IF c \in subs /\ p \in stale THEN rib[p] ELSE view[c][p]]]
  /\ UNCHANGED <<rib, subs>>

Subscribe(c) ==
  /\ c \notin subs
  /\ subs' = subs \union {c}
  /\ view' = [view EXCEPT ![c] = [p \in Dests |-> Unknown]]
  /\ UNCHANGED <<rib, stale>>

Unsubscribe(c) ==
  /\ subs' = subs \ {c}
  /\ UNCHANGED <<rib, stale, view>>

\* The whole table, or what is left of an older picture of it, is shown to c.
Flash(c) ==
  /\ view' \in [Clients -> [Dests -> Seen]]
  /\ \A d \in Clients \ {c} : view'[d] = view[d]
  /\ \A p \in Dests \ stale : view'[c][p] \in {view[c][p], rib[p]}
  /\ UNCHANGED <<rib, stale, subs>>

Next == \/ \E P \in SUBSET Dests : Change(P)
        \/ Deliver
        \/ \E c \in Clients : Subscribe(c) \/ Unsubscribe(c) \/ Flash(c)

Spec == Init /\ [][Next]_vars

\* A prefix without an untold change is seen by every subscriber as it is
\* installed, or not at all.
ViewCurrent ==
  \A c \in subs : \A p \in Dests \ stale : view[c][p] \in {Unknown, rib[p]}
=============================================================================
