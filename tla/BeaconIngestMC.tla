---------------------------- MODULE BeaconIngestMC ----------------------------
(***************************************************************************)
(* Ingest: BeaconIngest with two APs and one beacon that changes hands,    *)
(* and what else a report leaves behind: the nodes of heard beacons        *)
(* (Sightings) and of access points (Heartbeats).  They share no state;    *)
(* one run explores each from its own initial state while the others stand *)
(* still.                                                                  *)
(***************************************************************************)
EXTENDS BeaconIngest, TLC

CONSTANTS b1, b2, p1, p2, ap1, ap2

PeopleSymmetry == Permutations(People)

--------------------------------------------------------------------------------
CONSTANTS Keys, Macs, Keep, Every, TTL, None

ASSUME NodesAssumption ==
    Keep \in Nat /\ Every \in Nat /\ TTL \in Nat /\ None \notin Nat

VARIABLES part, v1, v2, v3, v4, v5, v6, v7, v8, v9, v10

\* The two kinds of nodes are never explored together: they share their variables.
shared == <<v1, v2, v3, v4, v5, v6, v7, v8, v9, v10>>

Scans == INSTANCE Sightings WITH
            Stale <- Keep, Interval <- Every,
            registry <- v1, cache <- v2, fetched <- v3, node <- v4, since <- v5,
            report <- v6, admin <- v7, settled <- v8, known <- v9, failed <- v10
Hearts == INSTANCE Heartbeats WITH
            APs <- Macs, Threshold <- Keep,
            placed <- v1, node <- v2, sim <- v3, list <- v4, beat <- v5, post <- v6,
            request <- v7, heard <- v8, erased <- v9, slipped <- v10

ReportsInit ==
    /\ Init
    /\ \/ /\ part = "positions"
          /\ v1 = 0 /\ v2 = 0 /\ v3 = 0 /\ v4 = 0 /\ v5 = 0
          /\ v6 = 0 /\ v7 = 0 /\ v8 = 0 /\ v9 = 0 /\ v10 = 0
       \/ part = "scans" /\ Scans!Init
       \/ part = "beats" /\ Hearts!Init

ReportsNext ==
    \/ part = "positions" /\ Next /\ UNCHANGED <<shared, part>>
    \/ part = "scans" /\ Scans!Next /\ UNCHANGED <<vars, part>>
    \/ part = "beats" /\ Hearts!Next /\ UNCHANGED <<vars, part>>

ReportsSpec == ReportsInit /\ [][ReportsNext]_<<vars, shared, part>>

\* Nothing is promised of the nodes that takes fairness.
FairReportsSpec == ReportsSpec /\ (part = "positions" => Fairness)

\* The nodes of registered beacons stay, those of strangers go, and which is which was true
\* when they were heard (Sightings); no deleted access point is listed as a new one for
\* long (Heartbeats).
NodesHold ==
    /\ part = "scans" =>
          /\ Scans!TypeOK
          /\ Scans!SparesKnown
          /\ Scans!FlagIsHonest
          /\ Scans!StrangersAreSwept
    /\ part = "beats" =>
          /\ Hearts!TypeOK
          /\ Hearts!GhostsFade
=============================================================================
