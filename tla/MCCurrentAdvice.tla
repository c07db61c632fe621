--------------------------- MODULE MCCurrentAdvice ---------------------------
(* Small instances of CurrentAdvice.                                       *)
EXTENDS CurrentAdvice, TLC

CONSTANTS k1, k2, a1, c1, c2, o1, o2, r1, now1, next1, draft1, supplier

(* A recommendation to monitor is drafted and approved like any other.     *)
MCAdvices == {[advice |-> "MONITOR", horizons |-> {NO_EXPIRY, 9}],
              [advice |-> "TRADEOFF", horizons |-> {NO_EXPIRY}]}

Flags(fields, f) == [x \in fields |-> x # f]

(* The library, and one link for each candidate.                           *)
Library == [kind |-> "INTERVENTION_LIBRARY_VERSION", id |-> "library", hash |-> "v1",
            option |-> "NONE", mode |-> "NONE", disposition |-> "ACTIVE",
            flags |-> Flags({"unique_unsuperseded_head", "supported"}, "none"),
            replaced |-> FALSE]
Link(c) == [kind |-> "DRIVER_ACTION_LINK_VERSION", id |-> c, hash |-> "v1",
            option |-> c, mode |-> "REACTIVE", disposition |-> "APPROVED",
            flags |-> Flags({"unique_unsuperseded_head", "effective", "supported_result"}, "none"),
            replaced |-> FALSE]
MCConsumed == {Library, Link(c1), Link(c2)}
MCAuthorities ==
    {{[Library EXCEPT !.flags = Flags({"unique_unsuperseded_head", "supported"},
                                      "unique_unsuperseded_head")], Link(c1), Link(c2)}}

Delay == [code |-> "DELAY", type |-> "INTEGER"]

(* The recommended trigger, its approved successor, and one never approved.  *)
Trigger(ref, standing, published, predecessor, modes) ==
    [ref |-> ref, option |-> "ACCEPT_AND_MONITOR", modes |-> modes, definition |-> Delay,
     operator |-> "GTE", threshold |-> [state |-> "present", value |-> 3], allowed |-> {},
     response |-> "REQUEST_MANAGER_REVIEW", standing |-> standing, review |-> standing,
     lifecycle |-> "ACTIVE", reviewed |-> {published}, published |-> published,
     predecessor |-> predecessor, supersession |-> NoRef]
MCRegistry == {Trigger(now1, "APPROVED", 1, NoRef, {"PROACTIVE", "REACTIVE"}),
               Trigger(next1, "APPROVED", 8, now1, {"REACTIVE"}),
               Trigger(draft1, "PROVISIONAL", 2, now1, {"REACTIVE"})}

(* One asks for review; one comes after the successor was published, while *)
(* the horizon is still ahead.                                             *)
Observation(ref, value, available) ==
    [ref |-> ref, definition |-> Delay, value |-> [state |-> "present", value |-> value],
     subject |-> supplier, observed |-> 1, available |-> available,
     firstAvailable |-> available]
MCObservations == {Observation(o1, 4, 2), Observation(o2, 2, 9)}

MCSymmetry == Permutations({k1, k2}) \cup Permutations({c1, c2})
=============================================================================
