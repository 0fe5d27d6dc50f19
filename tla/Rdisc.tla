------------------------------- MODULE Rdisc -------------------------------
(***************************************************************************)
(* rdisc as a host: it keeps a table of the routers it has heard, each     *)
(* with a preference and a lifetime, and a default route in the kernel     *)
(* for the best of them (-b) or for all (-a).                              *)
(*                                                                         *)
(* Advertisements are handled by pr_pack() with all signals blocked, so    *)
(* in one step.  The table ages in the SIGALRM handler, which SIGTERM,     *)
(* SIGINT and SIGHUP may interrupt: that walk is one step per entry, and   *)
(* the unlinking of an entry and the call that changes the route are two.  *)
(***************************************************************************)
EXTENDS Integers, FiniteSets, FiniteSetsExt, Functions

CONSTANTS Routers,       \* addresses that are advertised
          Link,          \* the device behind which each of them is
          Prefs, Ttls,   \* preferences and lifetimes in advertisements
          TIMER_INTERVAL, GETIFCONF_TIMER, MAX_SOLICITATIONS,
          RouteFaults    \* {"add"}: SIOCADDRT may fail

(* INELIGIBLE_PREF, the smallest int. *)
Ineligible == -1

RdiscAssumption ==
  /\ Prefs \subseteq Nat \cup {Ineligible} /\ IsFiniteSet(Prefs) /\ Ttls \subseteq Nat
  /\ TIMER_INTERVAL \in Nat \ {0} /\ GETIFCONF_TIMER \in Nat /\ MAX_SOLICITATIONS \in Nat \ {0}
  /\ RouteFaults \subseteq {"add"} /\ Routers \subseteq DOMAIN Link

Devices == {Link[r] : r \in Routers}

VARIABLES
  best_preference, solicit, forever, \* options; forever also: has forked
  ntransmitted, nreceived, left_until_solicit, left_until_getifconf,
  armed,       \* an alarm() is set
  devs,        \* devices that are up (the kernel's)
  interfaces,  \* devices as initifs() saw them
  table,       \* routers known: [preference, remaining_time, in_kernel]
  kernel,      \* routers the kernel has a default route to
  pc,          \* "wait": recvfrom(); else the step of the handler, or "exit"
  walk, max, recalculate_max, tp, \* locals of age_table()
  refused      \* an SIOCADDRT has failed (ghost)

options  == <<best_preference, solicit, forever, ntransmitted, nreceived, left_until_solicit, left_until_getifconf>>
ageVars  == <<walk, max, recalculate_max, tp>>
vars == <<options, armed, devs, interfaces, table, kernel, pc, ageVars, refused>>

Entry == [preference : Prefs \cup {Ineligible}, remaining_time : Int, in_kernel : BOOLEAN]
NoEntry == [router |-> "none", preference |-> Ineligible, in_kernel |-> FALSE]
-----------------------------------------------------------------------------
(* The preference of the best router of a table. *)
max_preference(t) == Max({Ineligible} \cup {t[r].preference : r \in DOMAIN t})

Marked(t) == {r \in DOMAIN t : t[r].in_kernel}

(* Both loops over the table that set in_kernel where preference is new_max;
   there is nothing to add when every router is ineligible. *)
AddBest(t) ==
  LET new_max == max_preference(t)
  IN  [r \in DOMAIN t |-> [t[r] EXCEPT !.in_kernel =
                            @ \/ (new_max # Ineligible /\ t[r].preference = new_max)]]

(* Mutant: routes of routers that are no longer the best are kept. *)
DropWorse_Keep(t) == t

(* record_router(), last loop: routes to routers below the maximum go. *)
DropWorse(t) ==
  [r \in DOMAIN t |-> [t[r] EXCEPT !.in_kernel = @ /\ t[r].preference >= max_preference(t)]]

(* record_router(): the table after an advertisement of router r. *)
record_router(t, r, pref, ttl, best) ==
  LET preference   == IF ttl < 4 THEN Ineligible ELSE pref
      known        == r \in DOMAIN t
      old_max      == max_preference(t)
      changed_down == known /\ t[r].preference > preference /\ t[r].preference = old_max
      changed_up   == IF known THEN ~changed_down /\ preference > t[r].preference
                               ELSE preference > old_max
      new  == [preference |-> preference, remaining_time |-> ttl,
               in_kernel |-> known /\ t[r].in_kernel]
      t1   == [x \in DOMAIN t \cup {r} |-> IF x = r THEN new ELSE t[x]]
      t2   == [t1 EXCEPT ![r].in_kernel =
                 preference # Ineligible
                 /\ (@ \/ ~best \/ preference = max_preference(t1))]
      t3   == IF best /\ changed_down THEN AddBest(t2) ELSE t2
  IN  IF best /\ (changed_up \/ changed_down) THEN DropWorse(t3) ELSE t3

(* add_route(), del_route(), rtioctl(): the routes after an SIOCADDRT for
   each of add and an SIOCDELRT for each of del.  Errors are only logged. *)
rtioctl(add, del) ==
  \E ok \in SUBSET add :
    /\ "add" \in RouteFaults \/ ok = add
    /\ kernel' = (kernel \cup ok) \ del
    /\ refused' = (refused \/ ok # add)

(* initifs(): the list of usable interfaces is read again. *)
initifs == interfaces' = devs

is_directly_connected(r) == Link[r] \in interfaces

Init ==
  /\ best_preference \in BOOLEAN
  /\ solicit \in BOOLEAN /\ forever \in BOOLEAN /\ (solicit \/ forever)
  /\ ntransmitted = 0 /\ nreceived = 0
  /\ left_until_solicit = 0 /\ left_until_getifconf = 0
  /\ armed = FALSE /\ pc = "start"
  /\ devs = Devices /\ interfaces = Devices
  /\ table = [r \in {} |-> NoEntry] /\ kernel = {}
  /\ walk = {} /\ max = Ineligible /\ recalculate_max = FALSE /\ tp = NoEntry
  /\ refused = FALSE

(* Mutant: the child's alarm is not set. *)
AfterFork_NoAlarm == armed' = (forever /\ armed)

(* do_fork() in pr_pack(): a child has no alarm, so it is set again. *)
AfterFork == armed' = (armed \/ ~forever)

(* pr_pack(): an advertisement that passes the checks; one that does not
   changes nothing. *)
Advertisement(r, pref, ttl) ==
  /\ pc = "wait"
  /\ IF is_directly_connected(r)
       THEN LET t == record_router(table, r, pref, ttl, best_preference)
            IN  /\ table' = t
                /\ rtioctl(Marked(t) \ Marked(table), Marked(table) \ Marked(t))
       ELSE UNCHANGED <<table, kernel, refused>>
  /\ nreceived' = 1
  /\ AfterFork /\ forever' = TRUE
  /\ UNCHANGED <<best_preference, solicit, ntransmitted, left_until_solicit, left_until_getifconf,
                 devs, interfaces, pc, ageVars>>

(* timer(), first half: the counters, the interfaces, a solicitation.  After
   the last one rdisc gives up if it has heard nothing, unless -f. *)
Timer ==
  /\ pc = "start" \/ (pc = "wait" /\ armed)
  /\ armed' = FALSE
  /\ LET ifconf == left_until_getifconf - TIMER_INTERVAL < 0
         left   == left_until_solicit - TIMER_INTERVAL
         due    == solicit /\ left <= 0
         last   == due /\ ntransmitted + 1 >= MAX_SOLICITATIONS
     IN  /\ IF ifconf THEN initifs ELSE UNCHANGED interfaces
         /\ left_until_getifconf' = IF ifconf THEN GETIFCONF_TIMER
                                    ELSE left_until_getifconf - TIMER_INTERVAL
         /\ ntransmitted' = IF due THEN ntransmitted + 1 ELSE ntransmitted
         /\ left_until_solicit' = IF due /\ ~last THEN TIMER_INTERVAL
                                  ELSE IF solicit THEN left ELSE left_until_solicit
         /\ solicit' = (solicit /\ ~last)
         /\ pc' = IF last /\ ~forever /\ nreceived = 0 THEN "exit" ELSE "age"
  /\ walk' = DOMAIN table /\ max' = max_preference(table) /\ recalculate_max' = FALSE
  /\ UNCHANGED <<best_preference, forever, nreceived, devs, table, kernel, tp, refused>>

(* age_table(): an entry that is unlinked. *)
Expired(e) == e.remaining_time <= 0

AgeEntry(r) ==
  LET e == [table[r] EXCEPT !.remaining_time = @ - TIMER_INTERVAL]
  IN  /\ pc = "age" /\ r \in walk
      /\ walk' = walk \ {r}
      /\ IF Expired(e)
           THEN /\ table' = Restrict(table, DOMAIN table \ {r})
                /\ tp' = [router |-> r, preference |-> e.preference, in_kernel |-> e.in_kernel]
                /\ pc' = "unlinked"
           ELSE table' = [table EXCEPT ![r] = e] /\ UNCHANGED <<tp, pc>>
      /\ UNCHANGED <<options, armed, devs, interfaces, kernel, max, recalculate_max, refused>>

(* Mutant: an expired router never makes room for the next best one. *)
Unlink_NoRecalc == FALSE

(* age_table(): the entry that was unlinked was one of the best. *)
Unlink == recalculate_max \/ (best_preference /\ tp.preference = max)

DeleteExpired ==
  /\ pc = "unlinked"
  /\ rtioctl({}, IF tp.in_kernel THEN {tp.router} ELSE {})
  /\ recalculate_max' = Unlink
  /\ tp' = NoEntry /\ pc' = "age"
  /\ UNCHANGED <<options, armed, devs, interfaces, table, walk, max>>

ToAdd == Marked(AddBest(table)) \ Marked(table)

(* age_table(), second loop: add_route() and then in_kernel++. *)
AddRoute(r) ==
  /\ pc = "age" /\ walk = {} /\ recalculate_max /\ r \in ToAdd
  /\ rtioctl({r}, {})
  /\ tp' = [NoEntry EXCEPT !.router = r] /\ pc' = "added"
  /\ UNCHANGED <<options, armed, devs, interfaces, table, walk, max, recalculate_max>>

MarkRoute ==
  /\ pc = "added"
  /\ table' = [table EXCEPT ![tp.router].in_kernel = TRUE]
  /\ tp' = NoEntry /\ pc' = "age"
  /\ UNCHANGED <<options, armed, devs, interfaces, kernel, walk, max, recalculate_max, refused>>

(* End of age_table() and of timer(): alarm(TIMER_INTERVAL). *)
Rearm ==
  /\ pc = "age" /\ walk = {} /\ (recalculate_max => ToAdd = {})
  /\ armed' = TRUE /\ pc' = "wait"
  /\ max' = Ineligible /\ recalculate_max' = FALSE
  /\ UNCHANGED <<options, devs, interfaces, table, kernel, walk, tp, refused>>

(* graceful_finish() on SIGTERM: discard_table(), then the end. *)
Terminate ==
  /\ pc # "exit"
  /\ rtioctl({}, Marked(table))
  /\ table' = [r \in {} |-> NoEntry] /\ walk' = {} /\ pc' = "exit"
  /\ UNCHANGED <<options, armed, devs, interfaces, max, recalculate_max, tp>>

(* finish() on SIGINT: the end, with the routes left as they are. *)
Interrupt == pc # "exit" /\ pc' = "exit" /\ UNCHANGED <<options, armed, devs, interfaces, table, kernel, ageVars, refused>>

(* SIGHUP: initifs() at any time outside pr_pack(). *)
Hangup == pc # "exit" /\ initifs /\ UNCHANGED <<options, armed, devs, table, kernel, pc, ageVars, refused>>

(* External: a device goes up or down. *)
DeviceChange(d) ==
  /\ pc = "wait"
  /\ devs' = IF d \in devs THEN devs \ {d} ELSE devs \cup {d}
  /\ UNCHANGED <<options, armed, interfaces, table, kernel, pc, ageVars, refused>>

Next ==
  \/ \E r \in Routers, p \in Prefs, ttl \in Ttls : Advertisement(r, p, ttl)
  \/ \E r \in Routers : AgeEntry(r) \/ AddRoute(r)
  \/ \E d \in Devices : DeviceChange(d)
  \/ Timer \/ DeleteExpired \/ MarkRoute \/ Rearm \/ Terminate \/ Interrupt \/ Hangup

(* The alarm comes and its handler runs to its end. *)
Spec ==
  /\ Init /\ [][Next]_vars
  /\ WF_vars(Timer) /\ WF_vars(\E r \in Routers : AgeEntry(r)) /\ WF_vars(DeleteExpired)
  /\ WF_vars(\E r \in Routers : AddRoute(r)) /\ WF_vars(MarkRoute) /\ WF_vars(Rearm)
-----------------------------------------------------------------------------
TypeOK ==
  /\ DOMAIN table \subseteq Routers /\ \A r \in DOMAIN table : table[r] \in Entry
  /\ kernel \subseteq Routers /\ walk \subseteq DOMAIN table
  /\ interfaces \subseteq Devices /\ devs \subseteq Devices
  /\ pc \in {"start", "wait", "age", "unlinked", "added", "exit"}
  /\ ntransmitted \in 0 .. MAX_SOLICITATIONS /\ armed \in BOOLEAN

(* The routers that should have a route: those of the highest preference
   among the eligible, with -a all eligible ones. *)
Wanted == {r \in DOMAIN table : /\ table[r].preference # Ineligible
                                /\ best_preference => table[r].preference = max_preference(table)}

(* graceful_finish(): SIGTERM, also in the middle of age_table(), leaves no
   route behind but the one age_table() was working on: every route is marked
   in the table, which discard_table() empties, or is that one. *)
NoRouteForgotten == kernel \subseteq Marked(table) \cup {tp.router}

(* record_router() and age_table(): whenever rdisc waits, the kernel has a
   route to exactly the best routers of the table, however preferences went
   up and down and entries expired; a route whose SIOCADDRT failed is missing,
   none is left over. *)
RoutesAreBest ==
  /\ NoRouteForgotten
  /\ pc = "wait" =>
       /\ Marked(table) = Wanted
       /\ kernel \subseteq Wanted
       /\ ~refused => kernel = Wanted

(* timer(): a router that falls silent loses its route, before and after the
   fork, unless rdisc is ended. *)
Advertised(r) == \E p \in Prefs, ttl \in Ttls : Advertisement(r, p, ttl)
Dropped(r) == r \notin kernel
SilentRouterDropped ==
  \A r \in Routers : []<><<Advertised(r)>>_vars \/ <>[]Dropped(r) \/ <>(pc = "exit")
=============================================================================
