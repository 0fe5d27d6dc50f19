---------------------------- MODULE RdiscRouter ----------------------------
(***************************************************************************)
(* rdisc -r: a router that advertises itself, and one host on its link     *)
(* that runs rdisc too and ages what it heard.  Both have timers of        *)
(* TIMER_INTERVAL seconds that never drift apart by more than one tick.    *)
(***************************************************************************)
EXTENDS Integers, FiniteSetsExt

CONSTANTS max_adv_int,              \* -T
          TIMER_INTERVAL, GETIFCONF_TIMER,
          initial_advert_interval, initial_advertisements,
          Devices, HostDev          \* devices of the router; the host's link

RouterAssumption ==
  /\ max_adv_int \in 4 .. 1800 /\ TIMER_INTERVAL \in Nat \ {0}
  /\ initial_advert_interval \in Nat /\ initial_advertisements \in Nat /\ HostDev \in Devices

VARIABLES
  left_until_advertise, left_until_getifconf, ntransmitted,
  devs,       \* devices that are up
  interfaces, \* those initifs() saw, with the preference put into advertisements
  running,
  ahead,      \* router ticks less host ticks
  host,       \* the host's entry: [preference, remaining_time]; "none" if there is none
  lost        \* the last advertisement to all hosts was lost on the host's link

vars == <<left_until_advertise, left_until_getifconf, ntransmitted, devs, interfaces,
          running, ahead, host, lost>>

None == [preference |-> "none", remaining_time |-> 0]

(* main(): both follow from -T. *)
min_adv_int == (max_adv_int * 3) \div 4

(* Mutant: the lifetime is one interval. *)
lifetime_One == max_adv_int
lifetime == 3 * max_adv_int

(* min_adv_int + (max_adv_int - min_adv_int) * (random() % 1000) / 1000 *)
Intervals == min_adv_int .. (min_adv_int + ((max_adv_int - min_adv_int) * 999) \div 1000)

(* initifs(): a new array for the devices that are up; preference is not
   written, so it is what malloc() returned. *)
initifs == \E pref \in {"given", "junk"} : interfaces' = [d \in devs |-> pref]

(* init(): initifs(), then the preference of -p, once. *)
Init ==
  /\ left_until_advertise = 0 /\ left_until_getifconf = 0 /\ ntransmitted = 0
  /\ devs = Devices /\ interfaces = [d \in Devices |-> "given"]
  /\ running = TRUE /\ ahead = 0 /\ host = None /\ lost = FALSE

(* record_router() on the host: a lifetime below 4 makes it ineligible. *)
Heard(ttl) == host' = IF ttl < 4 THEN None ELSE [preference |-> interfaces'[HostDev], remaining_time |-> ttl]

(* advertise() to all hosts with sendmcastif() or sendbcastif(): one packet
   on each interface, whatever happened on the others. *)
sendmcast == HostDev \in DOMAIN interfaces'

advertise(ttl) ==
  \/ sendmcast /\ Heard(ttl) /\ lost' = FALSE
  \/ (~sendmcast \/ ~lost) /\ UNCHANGED host /\ lost' = TRUE

(* timer() *)
Tick ==
  /\ running /\ ahead < 1
  /\ LET ifconf == left_until_getifconf - TIMER_INTERVAL < 0
         left   == left_until_advertise - TIMER_INTERVAL
     IN  /\ IF ifconf THEN initifs ELSE UNCHANGED interfaces
         /\ left_until_getifconf' = IF ifconf THEN GETIFCONF_TIMER
                                    ELSE left_until_getifconf - TIMER_INTERVAL
         /\ IF left <= 0
              THEN /\ ntransmitted' = Min({ntransmitted + 1, initial_advertisements})
                   /\ advertise(lifetime)
                   /\ IF ntransmitted + 1 < initial_advertisements
                        THEN left_until_advertise' = initial_advert_interval
                        ELSE left_until_advertise' \in Intervals
                  
              ELSE /\ left_until_advertise' = left
                   /\ UNCHANGED <<ntransmitted, host, lost>>
  /\ ahead' = ahead + 1
  /\ UNCHANGED <<devs, running>>

(* pr_pack(), a solicitation.  From 0.0.0.0 it is answered to all hosts, and
   the interval starts again; from a neighbour it is answered to it. *)
SolicitAll ==
  /\ running
  /\ ntransmitted' = Min({ntransmitted + 1, initial_advertisements})
  /\ left_until_advertise' \in Intervals
  /\ UNCHANGED interfaces /\ advertise(lifetime)
  /\ UNCHANGED <<left_until_getifconf, devs, running, ahead>>

SolicitHost ==
  /\ running /\ HostDev \in DOMAIN interfaces
  /\ ntransmitted' = Min({ntransmitted + 1, initial_advertisements})
  /\ UNCHANGED interfaces
  /\ (Heard(lifetime) \/ UNCHANGED host)
  /\ UNCHANGED <<left_until_advertise, left_until_getifconf, devs, running, ahead, lost>>

(* finish() on SIGINT or SIGTERM: a last advertisement of lifetime 0. *)
Finish ==
  /\ running /\ running' = FALSE
  /\ UNCHANGED interfaces /\ advertise(0)
  /\ UNCHANGED <<left_until_advertise, left_until_getifconf, ntransmitted, devs, ahead>>

(* age_table() on the host. *)
HostTick ==
  /\ ahead > -1 \/ ~running
  /\ host # None
  /\ host' = IF host.remaining_time <= TIMER_INTERVAL THEN None
             ELSE [host EXCEPT !.remaining_time = @ - TIMER_INTERVAL]
  /\ ahead' = IF running THEN ahead - 1 ELSE ahead
  /\ UNCHANGED <<left_until_advertise, left_until_getifconf, ntransmitted, devs, interfaces, running, lost>>

HostIdle ==
  /\ host = None /\ running /\ ahead > -1 /\ ahead' = ahead - 1
  /\ UNCHANGED <<left_until_advertise, left_until_getifconf, ntransmitted, devs, interfaces, running, host, lost>>

(* External: another device of the router goes up or down. *)
DeviceChange(d) ==
  /\ running /\ d # HostDev
  /\ devs' = IF d \in devs THEN devs \ {d} ELSE devs \cup {d}
  /\ UNCHANGED <<left_until_advertise, left_until_getifconf, ntransmitted, interfaces, running, ahead, host, lost>>

Next ==
  \/ Tick \/ SolicitAll \/ SolicitHost \/ Finish \/ HostTick \/ HostIdle
  \/ \E d \in Devices : DeviceChange(d)

Spec == Init /\ [][Next]_vars
-----------------------------------------------------------------------------
TypeOK ==
  /\ left_until_advertise \in Int /\ ntransmitted \in 0 .. initial_advertisements
  /\ ahead \in -1 .. 1 /\ host.remaining_time \in 0 .. lifetime
  /\ DOMAIN interfaces \subseteq Devices

(* timer() and lifetime: a host that has heard the router keeps its route as
   long as the router runs, although every other advertisement to all hosts
   may be lost, whatever the random intervals, the solicitations and the
   phases of the two timers. *)
KeepsRoute == running' /\ host # None => host' # None
RouteKept == [][KeepsRoute]_vars
=============================================================================
