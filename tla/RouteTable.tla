----------------------------- MODULE RouteTable -----------------------------
(***************************************************************************)
(* The routing table of one node (Layer3/layer3.c), the jobs that tell its *)
(* subscribers of changes and flash it to an application that asks         *)
(* (Layer3/rt_notif.c), over the notification chain of notif.c, and the    *)
(* interface address commands that add and delete direct routes.           *)
(*                                                                         *)
(* A route is an object with three glue nodes: it is in the table, in the  *)
(* list of routes to notify and in the list of routes to flash, in any     *)
(* combination.  A deleted route is freed by the job that has told the     *)
(* subscribers.  Handlers run one at a time, as jobs of the dispatcher.    *)
(***************************************************************************)
EXTENDS Integers, Sequences, FiniteSets, SequencesExt

CONSTANTS
  Routes,     \* addresses of l3_route_t
  Dests,      \* destinations with their masks
  Hops,       \* next hops: a gateway and an outgoing interface
  Ports,      \* interfaces of the node
  Clients,    \* applications
  MaxHops,    \* MAX_NXT_HOPS
  MaxSubs,    \* bound: elements of the notification chain
  MaxRequests,\* bound: flash requests waiting
  NoRoute,    \* what a client knows of a destination without a route
  Unknown,    \* and of one it was never told of
  NULL

\* Null pointers are no addresses, and results of a calculation are finite.
ASSUME RouteAssumption ==
  /\ NULL \notin Routes \union Dests \union Hops
  /\ IsFiniteSet(Dests) /\ IsFiniteSet(Hops)

VARIABLES
  route,      \* l3_route_t at each address
  rt,         \* rt_table_t: its lists, newest first
  jobs,       \* notif_job and flash_job, in the order of the dispatcher
  if_ip,      \* the subnet configured on each interface
  view,       \* what each application has made of what it was told
  asked_first,\* subscribers whose request the picture for the flash was taken for
  crashed     \* why the process ended: "no" while it runs

vars == <<route, rt, jobs, if_ip, view, asked_first, crashed>>

Flags == {"ADD", "DEL", "UPDATE", "FLASH"}
Freed == [dest |-> NULL]

\* The next hops are sorted by their interface, none is there twice: a set.
Fields == [dest : Dests, is_direct : BOOLEAN, nexthops : SUBSET Hops, rt_flags : SUBSET Flags]

\* What a route says, to whoever reads it.
Content(r) == [is_direct |-> route[r].is_direct, nexthops |-> route[r].nexthops]
Contents == [is_direct : BOOLEAN, nexthops : SUBSET Hops]

Init ==
  /\ route = [r \in Routes |-> Freed]
  /\ rt = [route_list |-> <<>>, rt_notify_list |-> <<>>, rt_flash_list |-> <<>>,
           flash_requests |-> <<>>, nfc_rt_updates |-> <<>>]
  /\ jobs = <<>>
  /\ if_ip = [i \in Ports |-> NULL]
  /\ view = [c \in Clients |-> [p \in Dests |-> Unknown]]
  /\ asked_first = {}
  /\ crashed = "no"

-----------------------------------------------------------------------------
(* The table as a value t, for commands that do several things to it.      *)

Tab == [route |-> route, rt |-> rt, jobs |-> jobs]

rt_table_lookup(t, p) ==
  IF \E r \in ToSet(t.rt.route_list) : t.route[r].dest = p
  THEN CHOOSE r \in ToSet(t.rt.route_list) : t.route[r].dest = p ELSE NULL

kick(js, job) == IF job \in ToSet(js) THEN js ELSE Append(js, job)

\* Mutant: the flag is set on a route that is queued already, at its old place.
notify_in_place(t, r, flag) ==
  [t EXCEPT !.route[r].rt_flags = (@ \ {"ADD", "DEL", "UPDATE"}) \union {flag},
            !.rt.rt_notify_list = IF r \in ToSet(@) THEN @ ELSE Append(@, r),
            !.jobs = kick(@, "notif")]

\* rt_table_add_route_to_notify_list and rt_table_kick_start_notif_job: the
\* newest change is the first of the list.
notify(t, r, flag) ==
  LET merged == IF "DEL" \in t.route[r].rt_flags /\ flag = "ADD" THEN "UPDATE" ELSE flag
  IN [route |-> [t.route EXCEPT ![r].rt_flags = (@ \ {"ADD", "DEL", "UPDATE"}) \union {merged}],
      rt |-> [t.rt EXCEPT !.rt_notify_list = <<r>> \o RemoveFirst(@, r)],
      jobs |-> kick(t.jobs, "notif")]

\* rt_table_delete_route
delete_route(t, p) ==
  LET r == rt_table_lookup(t, p) IN
  IF r = NULL THEN t
  ELSE notify([t EXCEPT !.rt.route_list = RemoveFirst(@, r)], r, "DEL")

\* A direct route added over one with next hops compares the gateways with NULL.
null_gw(t, p, hop) ==
  LET r == rt_table_lookup(t, p) IN hop = NULL /\ r # NULL /\ t.route[r].nexthops # {}

\* Bound: calloc finds room for a route.
Room(t) == \E f \in Routes : t.route[f] = Freed

\* rt_table_add_route; hop is NULL for a direct route.  The gateway and the
\* interface of a next hop are given together.
add_route(t, p, hop) ==
  LET r    == rt_table_lookup(t, p)
      free == CHOOSE f \in Routes : t.route[f] = Freed
      hops == IF hop = NULL THEN {} ELSE {hop}
  IN CASE r = NULL /\ Room(t) ->
            notify([route |-> [t.route EXCEPT ![free] = [dest |-> p, is_direct |-> hop = NULL,
                                                         nexthops |-> hops, rt_flags |-> {}]],
                    rt |-> [t.rt EXCEPT !.route_list = <<free>> \o @],
                    jobs |-> t.jobs], free, "ADD")
       [] r # NULL /\ hop # NULL /\ hop \notin t.route[r].nexthops
          /\ Cardinality(t.route[r].nexthops) < MaxHops ->
            notify([t EXCEPT !.route[r] = [t.route[r] EXCEPT !.is_direct = FALSE, !.nexthops = @ \union {hop}]],
                   r, "UPDATE")
       [] OTHER -> t                       \* duplicate, no space, or direct again

\* What a handler asks of the table.
Deletion(p) == [op |-> "delete", dest |-> p, hop |-> NULL]
Addition(p, hop) == [op |-> "add", dest |-> p, hop |-> hop]
Clearing(p) == [op |-> "clear", dest |-> p, hop |-> NULL]

\* clear_rt_table leaves direct routes alone.
Done(t, ask) ==
  CASE ask.op = "add" -> add_route(t, ask.dest, ask.hop)
    [] ask.op = "clear" /\ t.route[rt_table_lookup(t, ask.dest)].is_direct -> t
    [] OTHER -> delete_route(t, ask.dest)

\* The table before and after each of what is asked.
Course(t, asked) ==
  LET u[k \in 0..Len(asked)] == IF k = 0 THEN t ELSE Done(u[k - 1], asked[k]) IN u

\* Bound: there is room for a route that is new.
Fits(t, ask) == ask.op = "add" => rt_table_lookup(t, ask.dest) # NULL \/ Room(t)

\* A handler does what it asks.
Does(t, asked) ==
  LET u == Course(t, asked) last == u[Len(asked)] IN
  /\ \A k \in 1..Len(asked) : Fits(u[k - 1], asked[k])
  /\ route' = last.route /\ rt' = last.rt /\ jobs' = last.jobs

-----------------------------------------------------------------------------
(* Commands and the route calculation.                                     *)

\* l3_config_handler
AddRoute(p, hop) ==
  /\ crashed = "no"
  /\ Does(Tab, <<Addition(p, hop)>>)
  /\ UNCHANGED <<if_ip, view, asked_first, crashed>>

DeleteRoute(p) ==
  /\ crashed = "no"
  /\ Does(Tab, <<Deletion(p)>>)
  /\ UNCHANGED <<if_ip, view, asked_first, crashed>>

\* spf_install_routes: the table is cleared, and a route for each next hop of the
\* result is added.
InstallRoutes(result) ==
  LET found == SetToSeq(result) IN
  /\ crashed = "no"
  /\ Does([Tab EXCEPT !.jobs = kick(@, "notif")],
          [k \in DOMAIN rt.route_list |-> Clearing(route[rt.route_list[k]].dest)]
            \o [k \in DOMAIN found |-> Addition(found[k][1], found[k][2])])
  /\ UNCHANGED <<if_ip, view, asked_first, crashed>>

\* interface_set_ip_addr: the route of the old subnet goes, that of the new comes.
SetAddress(i, p) ==
  /\ crashed = "no"
  /\ if_ip[i] # p
  /\ LET old == IF if_ip[i] = NULL THEN <<>> ELSE <<Deletion(if_ip[i])>> IN
     IF null_gw(Course(Tab, old)[Len(old)], p, NULL)
     THEN crashed' = "null gateway" /\ UNCHANGED <<route, rt, jobs, if_ip>>
     ELSE /\ Does(Tab, Append(old, Addition(p, NULL)))
          /\ if_ip' = [if_ip EXCEPT ![i] = p]
          /\ UNCHANGED crashed
  /\ UNCHANGED <<view, asked_first>>

\* interface_unset_ip_addr
UnsetAddress(i) ==
  /\ crashed = "no"
  /\ if_ip[i] # NULL
  /\ Does(Tab, <<Deletion(if_ip[i])>>)
  /\ if_ip' = [if_ip EXCEPT ![i] = NULL]
  /\ UNCHANGED <<view, asked_first, crashed>>

-----------------------------------------------------------------------------
(* Applications.  A client keeps a copy of the table and starts it afresh  *)
(* when it subscribes; it may subscribe more than once.                    *)

Subscribers == ToSet(rt.nfc_rt_updates)

\* nfc_ipv4_rt_subscribe, nfc_register_notif_chain
Subscribe(c) ==
  /\ crashed = "no"
  /\ Len(rt.nfc_rt_updates) < MaxSubs
  /\ rt' = [rt EXCEPT !.nfc_rt_updates = <<c>> \o @]
  /\ view' = IF c \in Subscribers THEN view
             ELSE [view EXCEPT ![c] = [p \in Dests |-> Unknown]]
  /\ UNCHANGED <<route, jobs, if_ip, asked_first, crashed>>

\* nfc_ipv4_rt_un_subscribe, nfc_de_register_notif_chain: the first element
\* that compares equal.
Unsubscribe(c) ==
  /\ crashed = "no"
  /\ c \in Subscribers
  /\ rt' = [rt EXCEPT !.nfc_rt_updates = RemoveFirst(@, c)]
  /\ asked_first' = IF c \in ToSet(RemoveFirst(rt.nfc_rt_updates, c)) THEN asked_first
                    ELSE asked_first \ {c}
  /\ UNCHANGED <<route, jobs, if_ip, view, crashed>>

\* Mutant: the picture for the flash is what is in the list of changes.
picture_of_changes == Reverse(rt.rt_notify_list)

\* rt_table_kick_start_flash_job: the oldest route first, as each is put first.
picture == Reverse(rt.route_list)

\* nfc_ipv4_rt_request_flash: no new picture while a flash job is pending; when none is,
\* the last one has emptied the list.
RequestFlash(c) ==
  /\ crashed = "no"
  /\ Len(rt.flash_requests) < MaxRequests
  /\ LET requests == Append(rt.flash_requests, c) IN
     IF "flash" \in ToSet(jobs)
     THEN /\ rt' = [rt EXCEPT !.flash_requests = requests]
          /\ UNCHANGED <<route, jobs, asked_first>>
     ELSE /\ rt' = [rt EXCEPT !.flash_requests = requests, !.rt_flash_list = picture \o @]
          /\ route' = [r \in Routes |-> IF r \in ToSet(picture)
                         THEN [route[r] EXCEPT !.rt_flags = @ \union {"FLASH"}] ELSE route[r]]
          /\ jobs' = Append(jobs, "flash")
          /\ asked_first' = IF c \in Subscribers THEN asked_first \union {c} ELSE asked_first
  /\ UNCHANGED <<if_ip, view, crashed>>

-----------------------------------------------------------------------------
(* Jobs.                                                                   *)

\* What a client makes of a call with route r.
Says(r) == IF "DEL" \in route[r].rt_flags THEN NoRoute ELSE Content(r)

\* A list walked from its end: the first route about a destination has the last word.
Told(v, list) ==
  [p \in Dests |-> LET about == {k \in DOMAIN list : route[list[k]].dest = p}
                   IN IF about = {} THEN v[p] ELSE Says(list[Min(about)])]

\* Mutant: the route is freed before it is unlinked.
freeable_late(r, in) == \A l \in in \union {"rt_notify_list"} : r \notin ToSet(rt[l])

\* The assertions of l3_route_free: the route is in no list.
Freeable(r, in) == \A l \in in : r \notin ToSet(rt[l])

settled_flags(r) == route[r].rt_flags \ {"ADD", "UPDATE"}

\* rt_table_notif_job_cb: each route is told to the chain, unlinked, and freed
\* if it was deleted.
NotifJob ==
  LET list == ToSet(rt.rt_notify_list)
      gone == {r \in list : "DEL" \in route[r].rt_flags}
  IN /\ crashed = "no"
     /\ jobs # <<>> /\ Head(jobs) = "notif"
     /\ IF \E r \in gone : ~Freeable(r, {"route_list", "rt_flash_list"})
        THEN crashed' = "glue" /\ UNCHANGED <<route, rt, jobs, view>>
        ELSE /\ view' = [c \in Clients |-> IF c \in Subscribers
                           THEN Told(view[c], rt.rt_notify_list) ELSE view[c]]
             /\ route' = [r \in Routes |-> CASE r \in gone -> Freed
                            [] r \in list \ gone -> [route[r] EXCEPT !.rt_flags = settled_flags(r)]
                            [] OTHER -> route[r]]
             /\ rt' = [rt EXCEPT !.rt_notify_list = <<>>]
             /\ jobs' = Tail(jobs)
             /\ UNCHANGED crashed
     /\ UNCHANGED <<if_ip, asked_first>>

\* rt_table_flash_job: one request; the last one purges the flash list.
FlashJob ==
  LET c    == Head(rt.flash_requests)
      last == Len(rt.flash_requests) = 1
      list == ToSet(rt.rt_flash_list)
      gone == {r \in list : "DEL" \in route[r].rt_flags}
  IN /\ crashed = "no"
     /\ jobs # <<>> /\ Head(jobs) = "flash"
     /\ IF last /\ \E r \in gone : ~Freeable(r, {"route_list", "rt_notify_list"})
        THEN crashed' = "glue" /\ UNCHANGED <<route, rt, jobs, view, asked_first>>
        ELSE /\ view' = [view EXCEPT ![c] = Told(@, rt.rt_flash_list)]
             /\ route' = [r \in Routes |-> CASE last /\ r \in gone -> Freed
                            [] last /\ r \in list \ gone ->
                                 [route[r] EXCEPT !.rt_flags = @ \ {"FLASH"}]
                            [] OTHER -> route[r]]
             /\ rt' = [rt EXCEPT !.flash_requests = Tail(@),
                                 !.rt_flash_list = IF last THEN <<>> ELSE @]
             /\ jobs' = IF last THEN Tail(jobs) ELSE Append(Tail(jobs), "flash")
             /\ asked_first' = asked_first \ {c}
             /\ UNCHANGED crashed
     /\ UNCHANGED if_ip

RunJob == NotifJob \/ FlashJob

Next ==
  \/ \E p \in Dests : (\E hop \in Hops : AddRoute(p, hop)) \/ DeleteRoute(p)
  \/ \E result \in SUBSET (Dests \X Hops) : InstallRoutes(result)
  \/ \E i \in Ports : (\E p \in Dests : SetAddress(i, p)) \/ UnsetAddress(i)
  \/ \E c \in Clients : Subscribe(c) \/ Unsubscribe(c) \/ RequestFlash(c)
  \/ RunJob

Spec == Init /\ [][Next]_vars

\* The dispatcher runs the jobs it has.
Fairness == WF_vars(RunJob)
FairSpec == Spec /\ Fairness

-----------------------------------------------------------------------------
(* Properties.                                                             *)

Stale == {route[r].dest : r \in ToSet(rt.rt_notify_list)}
Installed(p) == LET r == rt_table_lookup(Tab, p) IN IF r = NULL THEN NoRoute ELSE Content(r)
Rib == [p \in Dests |-> Installed(p)]

\* What the table and its jobs show to subscribers is what RouteView promises:
\* rt_table_notif_job_cb brings every subscriber up to date with all changes.
View == INSTANCE RouteView WITH
          rib <- Rib, stale <- Stale, subs <- Subscribers
ImplementsView == View!Init /\ [][View!Next]_View!vars

\* l3_route_free, rt_notif.c: the lists hold allocated routes, each once; a route
\* is allocated as long as the table or a subscriber's notification needs it, no
\* two routes of the table have one destination, the flags say where it is, and
\* no picture is left when the flash is over.
ListsAgree ==
  /\ \A l \in {"route_list", "rt_notify_list", "rt_flash_list"} :
       IsInjective(rt[l]) /\ \A r \in ToSet(rt[l]) : route[r] # Freed
  /\ \A r, q \in ToSet(rt.route_list) : route[r].dest = route[q].dest => r = q
  /\ \A r \in {q \in Routes : route[q] # Freed} :
       /\ r \in ToSet(rt.rt_notify_list) <=> route[r].rt_flags \intersect {"ADD", "DEL", "UPDATE"} # {}
       /\ r \in ToSet(rt.rt_flash_list) <=> "FLASH" \in route[r].rt_flags
       /\ r \in ToSet(rt.route_list) <=> "DEL" \notin route[r].rt_flags
  /\ "flash" \notin ToSet(jobs) => rt.rt_flash_list = <<>>

\* l3_route_free, layer3.c:317: its assertions fail in one way only, when a route
\* is deleted between a request for the flash and the end of the last flash job.
AssertsHold ==
  crashed = "glue" => \E r \in ToSet(rt.rt_flash_list) : "DEL" \in route[r].rt_flags

\* rt_table_notif_job_cb, rt_table_flash_job_cb: whatever is added, deleted, asked for
\* and answered in between, the lists agree with the flags, and no route is freed
\* while a list holds it.
RoutesSound == ListsAgree /\ AssertsHold

\* nfc_ipv4_rt_request_flash: a client that subscribes and then asks has, when it
\* is served, seen every installed route that no pending notification is about.
FlashComplete ==
  [][\A c \in asked_first \ asked_first' : c \in Subscribers' =>
       \A p \in Dests : Installed(p)' # NoRoute /\ p \notin Stale'
                           => view'[c][p] = Installed(p)']_vars

\* rt_table_kick_start_notif_job: every change is told in the end, whatever changes
\* and requests come in between.
ChangesTold == \A p \in Dests : p \in Stale ~> (p \notin Stale \/ crashed # "no")

\* rt_table_notif_job_cb, rt_table_flash_job_cb: subscribers get all of the table, by the
\* flash they asked for or by notifications.
SubscribersTold == FlashComplete /\ ChangesTold
=============================================================================
