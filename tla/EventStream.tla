---------------------------- MODULE EventStream ----------------------------
(***************************************************************************)
(* What the event bus promises a subscriber: the events published since it *)
(* subscribed, in the order they were published and without a gap, up to   *)
(* the point where the bus cuts it off.  Events are numbered as they are   *)
(* published; a subscriber's place is the number of the last it took.      *)
(***************************************************************************)
EXTENDS Naturals

CONSTANT Subscribers

VARIABLES
    published,   \* how many events were published
    phase,       \* "new", "joined", "cut" or "left"
    place,       \* the last event each subscriber took
    end          \* the last event a cut subscriber will be given

vars == <<published, phase, place, end>>

Init ==
    /\ published = 0
    /\ phase = [s \in Subscribers |-> "new"]
    /\ place = [s \in Subscribers |-> 0]
    /\ end = [s \in Subscribers |-> 0]

\* A new subscriber starts at the present.
Join(s) ==
    /\ phase[s] = "new"
    /\ phase' = [phase EXCEPT ![s] = "joined"]
    /\ place' = [place EXCEPT ![s] = published]
    /\ UNCHANGED <<published, end>>

\* A publication never waits: a subscriber that is too slow to be given this
\* event is given no later one either.
Publish ==
    /\ published' = published + 1
    /\ \E slow \in SUBSET {s \in Subscribers : phase[s] = "joined"} :
          /\ phase' = [s \in Subscribers |-> IF s \in slow THEN "cut" ELSE phase[s]]
          /\ end' = [s \in Subscribers |-> IF s \in slow THEN published ELSE end[s]]
    /\ UNCHANGED place

Take(s) ==
    /\ \/ phase[s] = "joined" /\ place[s] < published
       \/ phase[s] = "cut" /\ place[s] < end[s]
    /\ place' = [place EXCEPT ![s] = @ + 1]
    /\ UNCHANGED <<published, phase, end>>

\* Several events at once, as try_recv in a loop takes them.
TakeAll(s) ==
    /\ phase[s] \in {"joined", "cut"}
    /\ place' = [place EXCEPT ![s] = IF phase[s] = "joined" THEN published ELSE end[s]]
    /\ UNCHANGED <<published, phase, end>>

Leave(s) ==
    /\ phase[s] \in {"joined", "cut"}
    /\ phase' = [phase EXCEPT ![s] = "left"]
    /\ UNCHANGED <<published, place, end>>

\* The process ends, and every subscriber with it.
LeaveAll ==
    /\ phase' = [s \in Subscribers |-> IF phase[s] = "new" THEN "new" ELSE "left"]
    /\ UNCHANGED <<published, place, end>>

Next ==
    \/ Publish \/ LeaveAll
    \/ \E s \in Subscribers : Join(s) \/ Take(s) \/ TakeAll(s) \/ Leave(s)

Spec == Init /\ [][Next]_vars
=============================================================================
