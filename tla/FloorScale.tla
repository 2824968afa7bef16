------------------------------ MODULE FloorScale ------------------------------
(***************************************************************************)
(* The geometry of one floor and the positions that are solved in it:      *)
(* floor_service.py writes the floor's scale and the metres of its APs,    *)
(* zone_service.py its zones, and a floor that is being deleted loses      *)
(* zones and APs first.  positioning_service.py keeps a context of the     *)
(* floor that it drops when told to, and omada_ingest_service.py keeps     *)
(* the APs' metres for a while and buffers readings that carry them.       *)
(*                                                                         *)
(* An AP has a spot on the picture of the floor, and metres derived from   *)
(* that spot and a scale: metres are modelled as the pair they were        *)
(* derived from.  Requests run on threads of the web server, without a     *)
(* lock and with a remote call at every step; reports hold pipeline_lock,  *)
(* so one is solved at a time.  Contexts of two floors, and positions of   *)
(* two beacons, share nothing that this module tells apart.                *)
(***************************************************************************)
EXTENDS Integers, FiniteSets

CONSTANTS
    APs,            \* access points of the floor, each an id that is used once
    Scales,         \* pixels per metre an admin may set
    Spots,          \* places on the picture (x_pct, y_pct)
    Layouts,        \* what the floor's zones may be
    Threads,        \* requests under way at a time
    CoordTTL,       \* _AP_CACHE_TTL_S
    BufferWindow,   \* BUFFER_WINDOW_S
    CallsMayFail,   \* whether a remote call may raise
    NoScale, Unplaced, Removed, NoContext, NoReading, Idle

ASSUME TimesAssumption == CoordTTL \in Nat /\ BufferWindow \in Nat
ASSUME FailAssumption == CallsMayFail \in BOOLEAN

VARIABLES
    scale,      \* the floor's scale_pixels_per_meter
    zones,      \* the floor's zones
    aps,        \* the floor's access points
    request,    \* the step each thread is to do next
    context,    \* positioning_service._contexts of this floor
    coords,     \* omada_ingest_service._ap_coords of this floor
    coordsAge,  \* since _ap_cache_loaded_at
    buffer,     \* a beacon's readings, one per AP
    solve,      \* the report that holds pipeline_lock
    \* What the properties need to know of the past:
    blurred,    \* APs whose metres a clash or a failure may have spoilt
    unsure,     \* an invalidation that came while the context was being read
    rezoned,    \* a change of the zones that no invalidation followed
    quiet       \* time since the last change, up to Settling + 1

floorVars == <<scale, zones, aps>>
ingestVars == <<coords, coordsAge, buffer>>
doubt == <<unsure, rezoned>>
vars == <<scale, zones, aps, request, context, coords, coordsAge, buffer, solve,
          blurred, unsure, rezoned, quiet>>

Metres == [spot : Spots, scale : Scales]
AP == [spot : Spots, metres : Metres]
Placed == {a \in APs : aps[a] \notin {Unplaced, Removed}}

\* How old the metres of a reading may be when it is solved.
Settling == CoordTTL + BufferWindow

Init ==
    /\ scale = NoScale
    /\ zones \in Layouts
    /\ aps = [a \in APs |-> Unplaced]
    /\ request = [t \in Threads |-> Idle]
    /\ context = NoContext
    /\ coords = <<>>
    /\ coordsAge = 0
    /\ buffer = [a \in APs |-> NoReading]
    /\ solve = Idle
    /\ blurred = {}
    /\ unsure = FALSE
    /\ rezoned = FALSE
    /\ quiet = 0

-----------------------------------------------------------------------------
(* Requests. *)

Doing(t) == IF request[t] = Idle THEN "nothing" ELSE request[t].do
Solving == IF solve = Idle THEN "nothing" ELSE solve.at
Rescaling(t) == request[t] # Idle /\ request[t].op = "rescale"
Placing(t) == request[t] # Idle /\ request[t].op = "place"

\* A rescale clashes with every other writer of metres, and two placements do not.
Clash(op, t) ==
    \/ op = "rescale" /\ (Rescaling(t) \/ Placing(t))
    \/ op = "place" /\ Rescaling(t)

Begin(t, r) ==
    request' = [u \in Threads |->
        IF u = t THEN [r EXCEPT !.lone = \A v \in Threads \ {t} : ~ Clash(r.op, v)]
        ELSE IF Clash(r.op, u) THEN [request[u] EXCEPT !.lone = FALSE]
        ELSE request[u]]
Goes(t, step) == request' = [request EXCEPT ![t] = step]

\* update_scale(): the floor first, then the context, then the metres of its APs.
Rescale(t, s) ==
    /\ request[t] = Idle
    /\ scale' = s
    /\ Begin(t, [op |-> "rescale", do |-> "invalidate", scale |-> s, lone |-> TRUE])
    /\ quiet' = 0
    /\ UNCHANGED <<zones, aps, context, ingestVars, solve, blurred, doubt>>

\* create_zone(), update_zone(), delete_zone(); an update reads the zone back before
\* the context is dropped.
EditZones(t, z, do) ==
    /\ request[t] = Idle
    /\ zones' = z
    /\ Begin(t, [op |-> "zones", do |-> do, lone |-> TRUE])
    /\ UNCHANGED <<scale, aps, context, ingestVars, solve, blurred, doubt, quiet>>

\* Zones have been read for a context, which a change of them leaves behind.
ZonesAreRead == context # NoContext \/ Solving = "store"

ReadBack(t) ==
    /\ Doing(t) = "readback"
    /\ Goes(t, [request[t] EXCEPT !.do = "invalidate"])
    /\ UNCHANGED <<floorVars, context, ingestVars, solve, blurred, doubt, quiet>>

ReadBackRaises(t) ==
    /\ CallsMayFail /\ Doing(t) = "readback"
    /\ Goes(t, Idle)
    /\ rezoned' = (rezoned \/ ZonesAreRead)
    /\ UNCHANGED <<floorVars, context, ingestVars, solve, blurred, unsure, quiet>>

\* A variant of Invalidate that does not wait for a report and leaves it its context.
InvalidateIfFree(t) ==
    /\ Doing(t) = "invalidate"
    /\ context' = IF solve = Idle THEN NoContext ELSE context
    /\ unsure' = (Solving \in {"zones", "store"}) /\ rezoned' = FALSE
    /\ Goes(t, IF Rescaling(t) THEN [request[t] EXCEPT !.do = "list"] ELSE Idle)
    /\ quiet' = 0
    /\ UNCHANGED <<floorVars, ingestVars, solve, blurred>>

\* invalidate_scale_cache().  A report that has read the floor and not yet stored the
\* context will store it all the same.
Invalidate(t) ==
    /\ Doing(t) = "invalidate"
    /\ context' = NoContext
    /\ unsure' = (Solving \in {"zones", "store"}) /\ rezoned' = FALSE
    /\ Goes(t, IF Rescaling(t) THEN [request[t] EXCEPT !.do = "list"] ELSE Idle)
    /\ quiet' = 0
    /\ UNCHANGED <<floorVars, ingestVars, solve, blurred>>

\* What is known of the metres once a rescale ends: all of them when it was alone.
RescaleEnds(t) == blurred' = IF request[t].lone THEN {} ELSE APs
PlacingEnds(t) == blurred' = IF request[t].lone THEN blurred \ {request[t].ap}
                                                ELSE blurred \cup {request[t].ap}

\* _recalculate_ap_coordinates() lists the APs, then writes them one by one.
ListAPs(t) ==
    /\ Doing(t) = "list"
    /\ IF Placed = {}
       THEN Goes(t, Idle) /\ RescaleEnds(t)
       ELSE /\ Goes(t, [op |-> "rescale", do |-> "update", scale |-> request[t].scale,
                        lone |-> request[t].lone, spots |-> [a \in Placed |-> aps[a].spot]])
            /\ UNCHANGED blurred
    /\ UNCHANGED <<floorVars, context, ingestVars, solve, doubt, quiet>>

Rederived(t, a) == [spot |-> request[t].spots[a], scale |-> request[t].scale]

UpdateAP(t, a) ==
    /\ Doing(t) = "update" /\ a \in DOMAIN request[t].spots
    /\ a \in Placed
    /\ aps' = [aps EXCEPT ![a].metres = Rederived(t, a)]
    /\ LET rest == DOMAIN request[t].spots \ {a} IN
       IF rest = {}
       THEN Goes(t, Idle) /\ RescaleEnds(t)
       ELSE /\ Goes(t, [request[t] EXCEPT !.spots = [b \in rest |-> request[t].spots[b]]])
            /\ UNCHANGED blurred
    /\ quiet' = 0
    /\ UNCHANGED <<scale, zones, context, ingestVars, solve, doubt>>

\* The rescale ends there when the AP was deleted since it was listed (NotFound), or
\* when a call fails: the APs that are left keep their metres.
RescaleRaises(t) ==
    /\ \/ CallsMayFail /\ Rescaling(t) /\ Doing(t) \in {"list", "update"}
       \/ Doing(t) = "update" /\ \E a \in DOMAIN request[t].spots : a \notin Placed
    /\ Goes(t, Idle)
    /\ blurred' = APs
    /\ UNCHANGED <<floorVars, context, ingestVars, solve, doubt, quiet>>

\* create_ap() and update_ap_position() derive the metres from the floor as they read
\* it, and refuse while it has no scale.
Place(t, a, p) ==
    /\ request[t] = Idle
    /\ scale # NoScale
    /\ aps[a] = Unplaced /\ \A u \in Threads : Placing(u) => request[u].ap # a
    /\ Begin(t, [op |-> "place", do |-> "save", ap |-> a, spot |-> p, scale |-> scale,
                 lone |-> TRUE])
    /\ UNCHANGED <<floorVars, context, ingestVars, solve, blurred, doubt, quiet>>

Reposition(t, a, p) ==
    /\ request[t] = Idle
    /\ scale # NoScale
    /\ a \in Placed
    /\ Begin(t, [op |-> "place", do |-> "move", ap |-> a, spot |-> p, scale |-> scale,
                 lone |-> TRUE])
    /\ UNCHANGED <<floorVars, context, ingestVars, solve, blurred, doubt, quiet>>

Derived(t) == [spot |-> request[t].spot,
               metres |-> [spot |-> request[t].spot, scale |-> request[t].scale]]

SaveAP(t) ==
    /\ Doing(t) \in {"save", "move"}
    /\ Doing(t) = "move" => request[t].ap \in Placed
    /\ aps' = [aps EXCEPT ![request[t].ap] = Derived(t)]
    /\ Goes(t, Idle)
    /\ PlacingEnds(t)
    /\ quiet' = 0
    /\ UNCHANGED <<scale, zones, context, ingestVars, solve, doubt>>

\* Nothing is written when the call fails, or the AP to move is deleted.
SaveRaises(t) ==
    /\ Placing(t)
    /\ CallsMayFail \/ (Doing(t) = "move" /\ request[t].ap \notin Placed)
    /\ Goes(t, Idle)
    /\ UNCHANGED <<floorVars, context, ingestVars, solve, blurred, doubt, quiet>>

\* delete_ap(): what else it does is in module SiteRegistry.
RemoveAP(a) ==
    /\ a \in Placed
    /\ aps' = [aps EXCEPT ![a] = Removed]
    /\ quiet' = 0
    /\ UNCHANGED <<scale, zones, request, context, ingestVars, solve, blurred, doubt>>

\* FloorService.delete(): the zones one by one, then the APs it has listed, and no
\* invalidation.  When it gets to the floor itself, that is the end of what this module
\* is about; when a call fails before, the floor stands.
BeginDeletion(t) ==
    /\ request[t] = Idle
    /\ Begin(t, [op |-> "delete", do |-> "unzone", lone |-> TRUE])
    /\ UNCHANGED <<floorVars, context, ingestVars, solve, blurred, doubt, quiet>>

DeleteZone(t, z) ==
    /\ Doing(t) = "unzone"
    /\ zones' = z
    /\ rezoned' = (rezoned \/ ZonesAreRead)
    /\ UNCHANGED <<scale, aps, request, context, ingestVars, solve, blurred, unsure, quiet>>

ListToDelete(t) ==
    /\ Doing(t) = "unzone"
    /\ Goes(t, [op |-> "delete", do |-> "remove", rest |-> Placed, lone |-> request[t].lone])
    /\ UNCHANGED <<floorVars, context, ingestVars, solve, blurred, doubt, quiet>>

DeleteListed(t, a) ==
    /\ Doing(t) = "remove" /\ a \in request[t].rest
    /\ aps' = [aps EXCEPT ![a] = Removed]
    /\ Goes(t, [request[t] EXCEPT !.rest = @ \ {a}])
    /\ quiet' = 0
    /\ UNCHANGED <<scale, zones, context, ingestVars, solve, blurred, doubt>>

DeletionRaises(t) ==
    /\ CallsMayFail /\ Doing(t) \in {"unzone", "remove"}
    /\ Goes(t, Idle)
    /\ UNCHANGED <<floorVars, context, ingestVars, solve, blurred, doubt, quiet>>

-----------------------------------------------------------------------------
(* Reports. *)

\* _get_ap_coords(): the metres of all APs of the floor are read at once, when those of
\* the AP that reports are missing or too old.
Loaded == [a \in Placed |-> aps[a].metres]

Buffered(a, m) == buffer' = [buffer EXCEPT ![a] = [metres |-> m, age |-> 0]]

HearCached(a) ==
    /\ solve = Idle
    /\ a \in DOMAIN coords
    /\ Buffered(a, coords[a])
    /\ UNCHANGED <<floorVars, request, context, coords, coordsAge, solve, blurred, doubt,
                   quiet>>

HearLoading(a) ==
    /\ solve = Idle
    /\ a \notin DOMAIN coords /\ a \in Placed
    /\ coords' = Loaded
    /\ coordsAge' = 0
    /\ Buffered(a, aps[a].metres)
    /\ UNCHANGED <<floorVars, request, context, solve, blurred, doubt, quiet>>

Heard == {a \in APs : buffer[a] # NoReading}

\* compute_position() takes the context it finds ...
SolveInContext ==
    /\ solve = Idle /\ Heard # {}
    /\ context # NoContext
    /\ solve' = [at |-> "save", scale |-> context.scale, zones |-> context.zones]
    /\ UNCHANGED <<floorVars, request, context, ingestVars, blurred, doubt, quiet>>

\* ... or builds one: the floor, then its zones, then the context is stored.
ReadFloor ==
    /\ solve = Idle /\ Heard # {}
    /\ context = NoContext
    /\ solve' = [at |-> "zones", scale |-> scale]
    /\ unsure' = FALSE /\ rezoned' = FALSE
    /\ UNCHANGED <<floorVars, request, context, ingestVars, blurred, quiet>>

ReadZones ==
    /\ Solving = "zones"
    /\ solve' = [at |-> "store", scale |-> solve.scale, zones |-> zones]
    /\ UNCHANGED <<floorVars, request, context, ingestVars, blurred, doubt, quiet>>

StoreContext ==
    /\ Solving = "store"
    /\ context' = [scale |-> solve.scale, zones |-> solve.zones]
    /\ solve' = [solve EXCEPT !.at = "save"]
    /\ UNCHANGED <<floorVars, request, ingestVars, blurred, doubt, quiet>>

SavePosition ==
    /\ Solving = "save"
    /\ solve' = Idle
    /\ UNCHANGED <<floorVars, request, context, ingestVars, blurred, doubt, quiet>>

ReadRaises ==
    /\ CallsMayFail /\ Solving = "zones"
    /\ solve' = Idle
    /\ UNCHANGED <<floorVars, request, context, ingestVars, blurred, doubt, quiet>>

\* A report is done within a unit of time; requests may take longer.
Elapse ==
    /\ solve = Idle
    /\ LET old == coordsAge = CoordTTL IN
       /\ coords' = IF old THEN <<>> ELSE coords
       /\ coordsAge' = IF old \/ coords = <<>> THEN 0 ELSE coordsAge + 1
    /\ buffer' = [a \in APs |->
            IF buffer[a] = NoReading \/ buffer[a].age = BufferWindow THEN NoReading
            ELSE [buffer[a] EXCEPT !.age = @ + 1]]
    /\ quiet' = IF quiet > Settling THEN quiet ELSE quiet + 1
    /\ UNCHANGED <<floorVars, request, context, solve, blurred, doubt>>

\* The backend starts anew: its caches and the requests under way are gone.
Restart ==
    /\ request' = [t \in Threads |-> Idle]
    /\ context' = NoContext
    /\ coords' = <<>> /\ coordsAge' = 0
    /\ buffer' = [a \in APs |-> NoReading]
    /\ solve' = Idle
    /\ blurred' = IF \E t \in Threads : Rescaling(t) THEN APs ELSE blurred
    /\ unsure' = FALSE /\ rezoned' = FALSE
    /\ UNCHANGED <<floorVars, quiet>>

RequestStep(t) ==
    \/ \E s \in Scales : Rescale(t, s)
    \/ \E z \in Layouts, do \in {"invalidate", "readback"} : EditZones(t, z, do)
    \/ ReadBack(t) \/ ReadBackRaises(t)
    \/ Invalidate(t)
    \/ ListAPs(t)
    \/ \E a \in APs : UpdateAP(t, a)
    \/ RescaleRaises(t)
    \/ \E a \in APs, p \in Spots : Place(t, a, p) \/ Reposition(t, a, p)
    \/ SaveAP(t) \/ SaveRaises(t)
    \/ BeginDeletion(t) \/ ListToDelete(t) \/ DeletionRaises(t)
    \/ \E z \in Layouts : DeleteZone(t, z)
    \/ \E a \in APs : DeleteListed(t, a)

ReportStep ==
    \/ \E a \in APs : HearCached(a) \/ HearLoading(a)
    \/ SolveInContext \/ ReadFloor \/ ReadZones \/ StoreContext \/ SavePosition
    \/ ReadRaises

Next ==
    \/ \E t \in Threads : RequestStep(t)
    \/ \E a \in APs : RemoveAP(a)
    \/ ReportStep
    \/ Elapse
    \/ Restart

Spec == Init /\ [][Next]_vars

-----------------------------------------------------------------------------
(* Properties. *)

Step ==
    [op : {"rescale"}, do : {"invalidate", "list"}, scale : Scales, lone : BOOLEAN]
    \cup {r \in [op : {"rescale"}, do : {"update"}, scale : Scales, lone : BOOLEAN,
                 spots : UNION {[S -> Spots] : S \in SUBSET APs}] : DOMAIN r.spots # {}}
    \cup [op : {"zones"}, do : {"invalidate", "readback"}, lone : BOOLEAN]
    \cup [op : {"place"}, do : {"save", "move"}, ap : APs, spot : Spots, scale : Scales,
          lone : BOOLEAN]
    \cup [op : {"delete"}, do : {"unzone"}, lone : BOOLEAN]
    \cup [op : {"delete"}, do : {"remove"}, rest : SUBSET APs, lone : BOOLEAN]

Context == [scale : Scales, zones : Layouts]
Reading == [metres : Metres, age : 0..BufferWindow]
Report == [at : {"zones"}, scale : Scales]
              \cup [at : {"store", "save"}, scale : Scales, zones : Layouts]

\* What stands for nothing is told from what there can be.
ASSUME NothingAssumption ==
    /\ NoScale \notin Scales /\ NoContext \notin Context /\ NoReading \notin Reading
    /\ Unplaced \notin AP /\ Removed \notin AP /\ Unplaced # Removed
    /\ Idle \notin Step \cup Report

\* The state keeps its type; in particular a context always has a scale, because only
\* an AP on a calibrated floor leads to one.
TypeOK ==
    /\ scale \in Scales \cup {NoScale} /\ zones \in Layouts
    /\ \A a \in APs : aps[a] \in {Unplaced, Removed} \/ aps[a] \in AP
    /\ \A t \in Threads : request[t] = Idle \/ request[t] \in Step
    /\ context = NoContext \/ context \in Context
    /\ DOMAIN coords \subseteq APs /\ \A a \in DOMAIN coords : coords[a] \in Metres
    /\ coordsAge \in 0..CoordTTL
    /\ \A a \in APs : buffer[a] = NoReading \/ buffer[a] \in Reading
    /\ solve = Idle \/ solve \in Report
    /\ blurred \subseteq APs /\ unsure \in BOOLEAN /\ rezoned \in BOOLEAN
    /\ quiet \in 0..(Settling + 1)

Writing == \E t \in Threads : Rescaling(t) \/ Placing(t)
Invalidating == \E t \in Threads : Doing(t) \in {"invalidate", "readback"}

\* When no request is writing, every AP's metres are those of its spot at the floor's
\* scale, unless a rescale has met another writer or has failed since the last rescale
\* that ran alone: placements never spoil each other, and saving the scale again
\* repairs what went wrong before.  The code is update_scale() and derive_ap_metres().
MetresMatchScale ==
    ~ Writing =>
        \A a \in Placed \ blurred : aps[a].metres = [spot |-> aps[a].spot, scale |-> scale]

\* A cached context, which never expires, is the floor as it is now, unless an
\* invalidation is still to come or came while the context was being read; its zones
\* may also be old when no invalidation followed their change: the read-back of the
\* zone failed, or FloorService.delete() took them and left the floor.  The code is
\* invalidate_scale_cache() and its callers.
ContextIsCurrent ==
    context # NoContext /\ ~ Invalidating /\ ~ unsure
        => context.scale = scale /\ (~ rezoned => context.zones = zones)

\* Once the floor has been left alone for as long as cached metres and buffered
\* readings live, a position is solved with the metres the APs have and the scale they
\* were derived from: a rescale drops the context at once but not the ingest's metres,
\* and the mixture ends by itself.
SolvedInOneScale ==
    Solving = "save" /\ quiet > Settling /\ ~ Writing /\ ~ Invalidating
      /\ ~ unsure /\ blurred = {}
        => \A a \in Heard : /\ a \in Placed
                            /\ buffer[a].metres = [spot |-> aps[a].spot, scale |-> solve.scale]

\* What positions are computed from holds together: the metres of the APs, the cached
\* context and what a solve takes of both belong to one scale.
ScaleHolds == TypeOK /\ MetresMatchScale /\ ContextIsCurrent /\ SolvedInOneScale

\* Not so, and listed in no run: (docstring, positioning_service.py:158) "Call this after
\* a floor scale, activation, or zone change": the zones of the context are the floor's
\* once those who change them have called.
ZonesAreCurrent ==
    context # NoContext /\ ~ Invalidating /\ ~ unsure => context.zones = zones
=============================================================================
