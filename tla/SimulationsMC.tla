----------------------------- MODULE SimulationsMC -----------------------------
(***************************************************************************)
(* Simulations: who runs them and clears up after them (SimControl), with  *)
(* a simulator that writes and clears two keys; and what each of the three *)
(* does while it runs (SimWalk).  The two share no state here; one run     *)
(* explores each from its own initial state while the other stands still.  *)
(***************************************************************************)
EXTENDS SimControl, Naturals, Sequences, TLC

OneMode == {"events"}
SimKeys == {"guards", "others"}
AllKeysOf == [events |-> SimKeys]

Symmetry == Permutations(Tasks) \cup Permutations(Stoppers)

--------------------------------------------------------------------------------
CONSTANTS APs, Placements, ByCoordinates, Configs, Outgoing, Incoming, Segments, Deletable
CONSTANTS a, b, c, d, alpha, beta, gamma, delta

FourAPs == {a, b, c, d}
FourOrThree == {FourAPs, FourAPs \ {a}}
Sorted == <<a, b, c, d>>

\* No route, which has d, the AP that is deleted, last; and a route that has it first.
TwoConfigs == {[enabled |-> FALSE, route |-> << >>],
               [enabled |-> TRUE, route |-> <<d, b, c, a>>]}

Out == <<alpha, beta>>
In == <<gamma, delta>>

\* The script, with one of the four stretches of normal patrol.
Script == <<[name |-> "normal_patrol", ticks |-> 1], [name |-> "man_down", ticks |-> 6],
            [name |-> "collision_warning", ticks |-> 1], [name |-> "ghost_patrol", ticks |-> 3],
            [name |-> "missed_checkpoint", ticks |-> 3]>>

VARIABLES part, simulator, run, aps, read, floor, guard, turn, adv, complete, triggered,
          removing, seg, tick, fired, raised, seen, lastLoop, torn, raced, unheard

walk == <<simulator, run, aps, read, floor, guard, turn, adv, complete, triggered,
          removing, seg, tick, fired, raised, seen, lastLoop, torn, raced, unheard>>

Walk == INSTANCE SimWalk WITH mode <- simulator

\* The lists name an AP, and a guard, once.
Apart(s) == \A i, j \in DOMAIN s : s[i] = s[j] => i = j

ASSUME WalkAssumption ==
    /\ Placements \subseteq SUBSET APs /\ Deletable \subseteq APs
    /\ ByCoordinates \in Seq(APs) /\ Apart(ByCoordinates)
    /\ \A cfg \in Configs : cfg.route \in Seq(APs) /\ Apart(cfg.route)
    /\ Outgoing \in Seq(Walk!Guards) /\ Outgoing # << >> /\ Incoming \in Seq(Walk!Guards)
    /\ Walk!Range(Outgoing) \cap Walk!Range(Incoming) = {}
    /\ Segments \in Seq([name : STRING, ticks : Nat]) /\ Segments # << >>
    /\ None \notin Seq(APs)
    /\ None \notin [ap : APs, at : Nat, left : SUBSET Walk!Guards]
    /\ None \notin [next : Nat, whole : BOOLEAN]

SimulationsInit ==
    /\ Init
    /\ \/ /\ part = "control"
          /\ simulator = 0 /\ run = 0 /\ aps = 0 /\ read = 0 /\ floor = 0 /\ guard = 0
          /\ turn = 0 /\ adv = 0 /\ complete = 0 /\ triggered = 0 /\ removing = 0
          /\ seg = 0 /\ tick = 0 /\ fired = 0 /\ raised = 0 /\ seen = 0
          /\ lastLoop = 0 /\ torn = 0 /\ raced = 0 /\ unheard = 0
       \/ part = "walk" /\ positions = {} /\ Walk!Init

SimulationsNext ==
    \/ part = "control" /\ Next /\ UNCHANGED <<walk, part>>
    \/ part = "walk" /\ Walk!Next /\ UNCHANGED <<vars, part>>

SimulationsSpec == SimulationsInit /\ [][SimulationsNext]_<<vars, walk, part>>

\* A loop that counts is a loop round all APs, and the shift changes on such loops alone
\* (SimWalk).
LoopsAreHonest == part = "walk" => Walk!LoopsAreHonest

\* However APs are deleted under the walk, every guard can take its next step, and none
\* walks to an AP that is gone (SimWalk).
WalkIsSound == part = "walk" => Walk!WalkIsSound

\* A segment of the script raises its own alert at most once, and no other (SimWalk).
OwnAlertOnce == part = "walk" => Walk!OwnAlertOnce
================================================================================
