-------------------------- MODULE NodeLeakDetector --------------------------
(***************************************************************************)
(* mgo-simulator's NodeLeakDetector: every simulated node holds one; new()  *)
(* adds one to NODE_COUNT, drop() takes one away, and                     *)
(* get_current_node_count() reads it, so a test can see nodes that were   *)
(* never dropped.  NODE_COUNT is thread_local!, one AtomicUsize per       *)
(* thread, and the detector is Send: it may be dropped on another thread  *)
(* than the one that created it.  fetch_add and fetch_sub wrap around.    *)
(***************************************************************************)
EXTENDS Integers, FiniteSets

CONSTANTS
    Threads,        \* the OS threads that create or drop detectors
    Detectors,      \* the detectors a run creates
    UsizeModulus    \* 2^usize::BITS

ASSUME DetectorAssumption ==
    /\ IsFiniteSet(Threads) /\ Threads # {}
    /\ IsFiniteSet(Detectors)
    /\ UsizeModulus \in Nat \ {0}

VARIABLES
    count,    \* NODE_COUNT of each thread
    state,    \* "unborn", "live" or "dropped"
    owner,    \* the thread that holds each live detector
    home      \* the thread each detector was created on (a ghost)

vars == <<count, state, owner, home>>

NoThread == CHOOSE t \in Threads : TRUE

Init ==
    /\ count = [t \in Threads |-> 0]
    /\ state = [d \in Detectors |-> "unborn"]
    /\ owner = [d \in Detectors |-> NoThread]
    /\ home = owner

(* NodeLeakDetector::new() on thread t.                                   *)
New(d, t) ==
    /\ state[d] = "unborn"
    /\ count' = [count EXCEPT ![t] = (@ + 1) % UsizeModulus]
    /\ state' = [state EXCEPT ![d] = "live"]
    /\ owner' = [owner EXCEPT ![d] = t]
    /\ home' = [home EXCEPT ![d] = t]

(* NodeLeakDetector::default() is new().                                   *)
Default(d, t) == New(d, t)

(* The node that holds the detector is moved to another thread.          *)
Move(d, t) ==
    /\ state[d] = "live" /\ owner[d] # t
    /\ owner' = [owner EXCEPT ![d] = t]
    /\ UNCHANGED <<count, state, home>>

(* Mutant: a subtraction that does not wrap (a checked or signed counter). *)
DropDetectorUnwrapped(d) ==
    /\ state[d] = "live"
    /\ count' = [count EXCEPT ![owner[d]] = @ - 1]
    /\ state' = [state EXCEPT ![d] = "dropped"]
    /\ UNCHANGED <<owner, home>>

(* Mutant: drop() takes the node off the counter of the thread that      *)
(* created it, as if the detector remembered its creator.                 *)
DropOnHomeThread(d) ==
    /\ state[d] = "live"
    /\ count' = [count EXCEPT ![home[d]] = (@ + UsizeModulus - 1) % UsizeModulus]
    /\ state' = [state EXCEPT ![d] = "dropped"]
    /\ UNCHANGED <<owner, home>>

(* Drop on the thread that holds it: fetch_sub on that thread's counter.  *)
DropDetector(d) ==
    /\ state[d] = "live"
    /\ count' = [count EXCEPT ![owner[d]] = (@ + UsizeModulus - 1) % UsizeModulus]
    /\ state' = [state EXCEPT ![d] = "dropped"]
    /\ UNCHANGED <<owner, home>>

Next ==
    \/ \E d \in Detectors, t \in Threads : New(d, t) \/ Default(d, t) \/ Move(d, t)
    \/ \E d \in Detectors : DropDetector(d)
    \/ (\A d \in Detectors : state[d] = "dropped") /\ UNCHANGED vars

Spec == Init /\ [][Next]_vars

-----------------------------------------------------------------------------
Live == {d \in Detectors : state[d] = "live"}

(* Every counter stays a usize: fetch_add and fetch_sub wrap instead of   *)
(* leaving 0 .. usize::MAX.                                               *)
TypeOK ==
    /\ count \in [Threads -> 0 .. UsizeModulus - 1]
    /\ home \in [Detectors -> Threads]
    /\ state \in [Detectors -> {"unborn", "live", "dropped"}]
    /\ owner \in [Detectors -> Threads]

CreatedOn(t) == {d \in Detectors : state[d] # "unborn" /\ home[d] = t}

(* A dropped detector keeps the owner it was dropped on.                    *)
DroppedOn(t) == {d \in Detectors : state[d] = "dropped" /\ owner[d] = t}

(* Each thread's counter is the number of detectors new() created on it  *)
(* minus the number drop() dropped on it, wrapped to a usize, wherever     *)
(* those detectors came from or went: the thread-local NODE_COUNT counts   *)
(* the thread's own new() and drop() calls, not the nodes it owns.         *)
CountMatchesThreadHistory ==
    \A t \in Threads :
        count[t] = (Cardinality(CreatedOn(t)) - Cardinality(DroppedOn(t))) % UsizeModulus

(* get_current_node_count() on a thread is the number of nodes alive that *)
(* were created on it: what a leak check after a test relies on.          *)
CountIsPerThreadLive ==
    \A t \in Threads : count[t] = Cardinality({d \in Live : home[d] = t})
=============================================================================
