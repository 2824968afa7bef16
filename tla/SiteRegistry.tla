----------------------------- MODULE SiteRegistry -----------------------------
(***************************************************************************)
(* Floors, access points, the patrol route of a floor and the checkpoint   *)
(* that a camera covers: documents of Firestore that name each other, and  *)
(* that floor_routes.py, floor_service.py and cctv_service.py write from   *)
(* concurrent requests, one remote call at a time and without a common     *)
(* lock.  A call may raise, and the backend may stop, between any two.     *)
(*                                                                         *)
(* The order of a route is left out: a delete takes every occurrence of    *)
(* its AP out.  One camera is modelled; two cameras share nothing here.    *)
(* Scales and zones are in module FloorScale, the rest of a camera in      *)
(* module CameraRegistry, what the simulators do with a deleted AP in      *)
(* module SimWalk.                                                         *)
(***************************************************************************)
EXTENDS FiniteSets

CONSTANTS
    Floors, APs,        \* ids, each used once
    Macs,               \* MAC addresses of access points
    Threads,            \* requests under way at a time
    Unmade, Gone,       \* a document not made yet, and one deleted
    NoMac, NoLink, Idle

\* Something else than an AP, for the camera in late.
Cam == "camera"

\* What an AP's and the camera's document say, and what a request is to do next.
Places == [floor : Floors, mac : Macs \cup {NoMac}]
Coverage == [floor : Floors, link : APs \cup {NoLink}]
CreateSteps == [op : {"create_ap"}, do : {"derive", "save"}, ap : APs, floor : Floors, mac : Macs]
LinkSteps == [op : {"link"}, do : {"create", "update"}, floor : Floors, ap : APs \cup {NoLink}]
DeleteSteps == [op : {"delete_ap"}, do : {"unroute", "delete", "unlink", "write"}, ap : APs,
                floor : Floors, rest : SUBSET APs]
CloseSteps == [op : {"delete_floor"}, do : {"aps", "floor"}, floor : Floors, rest : SUBSET APs]
Steps == CreateSteps \cup LinkSteps \cup DeleteSteps \cup CloseSteps

ASSUME NamesAssumption ==
    /\ Unmade # Gone /\ NoMac \notin Macs /\ NoLink \notin APs /\ Cam \notin APs
    /\ \A d \in (SUBSET APs) \cup Coverage : d \notin {Unmade, Gone}
    /\ Unmade \notin Places /\ Idle \notin Steps

VARIABLES
    floors,     \* a floor's patrol_route, when it exists
    aps,        \* an access point's floor, and its MAC while it exists
    camera,     \* the camera's floor and checkpoint_ap_id
    request,    \* what each thread is to do next
    \* What the properties need to know of the past:
    strays,     \* APs a route was given when they were being deleted, or gone
    slipped,    \* whether the camera's checkpoint was, or lost its unlink
    late,       \* APs, and the camera, saved on a floor being deleted, or gone
    raced,      \* MACs that two requests were placing at a time
    half        \* floors of which a delete has ended half way

docs == <<floors, aps, camera>>
past == <<strays, slipped, late, raced, half>>
vars == <<floors, aps, camera, request, strays, slipped, late, raced, half>>

Here(f) == floors[f] \notin {Unmade, Gone}
Exists(a) == aps[a] # Unmade /\ aps[a].mac # NoMac
APsOn(f) == {a \in APs : Exists(a) /\ aps[a].floor = f}
WithoutAP(a) == [aps EXCEPT ![a].mac = NoMac]
CameraExists == camera \notin {Unmade, Gone}

Init ==
    /\ floors = [f \in Floors |-> Unmade]
    /\ aps = [a \in APs |-> Unmade]
    /\ camera = Unmade
    /\ request = [t \in Threads |-> Idle]
    /\ strays = {} /\ slipped = FALSE /\ late = {} /\ raced = {} /\ half = {}

Doing(t, op) == request[t] # Idle /\ request[t].op = op
At(t, op, do) == Doing(t, op) /\ request[t].do = do
Goes(t, r) == request' = [request EXCEPT ![t] = r]
Advances(t, do) == Goes(t, [request[t] EXCEPT !.do = do])

Leaving(a) == \E t \in Threads : Doing(t, "delete_ap") /\ request[t].ap = a
Closing(f) == \E t \in Threads : Doing(t, "delete_floor") /\ request[t].floor = f

-----------------------------------------------------------------------------
(* Floors and routes. *)

CreateFloor(f) ==
    /\ floors[f] = Unmade
    /\ floors' = [floors EXCEPT ![f] = {}]
    /\ UNCHANGED <<aps, camera, request, past>>

\* A route is written as a whole, and nothing is asked of the APs it names.
WriteRoute(f, route) ==
    /\ floors' = [floors EXCEPT ![f] = route]
    /\ strays' = (strays \ floors[f]) \cup {a \in route : ~ Exists(a) \/ Leaving(a)}

\* update_patrol_config(), with a route of APs that the panel has been shown.
SavePatrol(f, route) ==
    /\ Here(f)
    /\ \A a \in route : aps[a] # Unmade /\ aps[a].floor = f
    /\ WriteRoute(f, route)
    /\ UNCHANGED <<aps, camera, request, slipped, late, raced, half>>

-----------------------------------------------------------------------------
(* create_ap(): the MAC is looked up on all floors, the floor is read for its scale, *)
(* and the AP is saved.                                                              *)

MacTaken(m) == \E a \in APs : Exists(a) /\ aps[a].mac = m

\* An id is new: no document and no other request has it.
NewAP(a) == aps[a] = Unmade /\ \A u \in Threads : Doing(u, "create_ap") => request[u].ap # a

\* Ghost: that another request places m too.
PlacedTwice(m) == {n \in {m} : \E u \in Threads : Doing(u, "create_ap") /\ request[u].mac = n}

\* A variant of CheckMac that looks at the AP's own floor only.
CheckMacHere(t) ==
    /\ request[t] = Idle
    /\ \E a \in APs, f \in Floors, m \in Macs :
         /\ NewAP(a) /\ floors[f] # Unmade
         /\ \A b \in APsOn(f) : aps[b].mac # m
         /\ Goes(t, [op |-> "create_ap", do |-> "derive", ap |-> a, floor |-> f, mac |-> m])
         /\ raced' = raced \cup PlacedTwice(m)
    /\ UNCHANGED <<docs, strays, slipped, late, half>>

CheckMac(t) ==
    /\ request[t] = Idle
    /\ \E a \in APs, f \in Floors, m \in Macs :
         /\ NewAP(a) /\ floors[f] # Unmade
         /\ ~ MacTaken(m)
         /\ Goes(t, [op |-> "create_ap", do |-> "derive", ap |-> a, floor |-> f, mac |-> m])
         /\ raced' = raced \cup PlacedTwice(m)
    /\ UNCHANGED <<docs, strays, slipped, late, half>>

DeriveMetres(t) ==
    /\ At(t, "create_ap", "derive")
    /\ IF Here(request[t].floor) THEN Advances(t, "save") ELSE Goes(t, Idle)
    /\ UNCHANGED <<docs, past>>

Astray(x, f) == IF Here(f) /\ ~ Closing(f) THEN late \ {x} ELSE late \cup {x}

SaveAP(t) ==
    /\ At(t, "create_ap", "save")
    /\ aps' = [aps EXCEPT ![request[t].ap] = [floor |-> request[t].floor, mac |-> request[t].mac]]
    /\ Goes(t, Idle)
    /\ late' = Astray(request[t].ap, request[t].floor)
    /\ UNCHANGED <<floors, camera, strays, slipped, raced, half>>

-----------------------------------------------------------------------------
(* The camera's checkpoint: checked to be an AP of its floor, then saved. *)

\* create(), or an update() that changes the checkpoint: only what differs from the
\* camera as it was read is written.
CanLink(f, a) ==
    IF camera = Unmade THEN \A u \in Threads : ~ Doing(u, "link")
    ELSE CameraExists /\ camera.floor = f /\ camera.link # a

CheckLink(t) ==
    /\ request[t] = Idle
    /\ \E f \in Floors, a \in APs \cup {NoLink} :
         /\ floors[f] # Unmade
         /\ CanLink(f, a)
         /\ a = NoLink \/ a \in APsOn(f)
         /\ Goes(t, [op |-> "link", do |-> IF camera = Unmade THEN "create" ELSE "update",
                     floor |-> f, ap |-> a])
    /\ UNCHANGED <<docs, past>>

SaveLink(t) ==
    /\ Doing(t, "link")
    /\ request[t].do = "update" => CameraExists
    /\ camera' = [floor |-> request[t].floor, link |-> request[t].ap]
    /\ slipped' = (request[t].ap # NoLink /\ (~ Exists(request[t].ap) \/ Leaving(request[t].ap)))
    /\ late' = IF request[t].do = "create" THEN Astray(Cam, request[t].floor) ELSE late
    /\ Goes(t, Idle)
    /\ UNCHANGED <<floors, aps, strays, raced, half>>

RemoveCamera ==
    /\ CameraExists
    /\ camera' = Gone
    /\ slipped' = FALSE
    /\ late' = late \ {Cam}
    /\ UNCHANGED <<floors, aps, request, strays, raced, half>>

-----------------------------------------------------------------------------
(* delete_ap(): the route first, then the AP, then the cameras. *)

ToDelete(a, do, rest) ==
    [op |-> "delete_ap", do |-> do, ap |-> a, floor |-> aps[a].floor, rest |-> rest]

Named(a) == Here(aps[a].floor) /\ a \in floors[aps[a].floor]

ReadRoute(t) ==
    /\ request[t] = Idle
    /\ \E a \in APs :
         /\ aps[a] # Unmade
         /\ \/ Named(a) /\ Goes(t, ToDelete(a, "unroute", floors[aps[a].floor] \ {a}))
            \/ ~ Named(a) /\ Goes(t, ToDelete(a, "delete", {}))
    /\ UNCHANGED <<docs, past>>

\* A variant of Unroute that goes on when the route could not be written.
UnrouteIfPossible(t) ==
    /\ At(t, "delete_ap", "unroute")
    /\ floors' \in {floors, [f \in Floors |-> IF f = request[t].floor /\ Here(f)
                                              THEN request[t].rest ELSE floors[f]]}
    /\ Goes(t, [request[t] EXCEPT !.do = "delete", !.rest = {}])
    /\ UNCHANGED <<aps, camera, past>>

Unroute(t) ==
    /\ At(t, "delete_ap", "unroute")
    /\ Here(request[t].floor)
    /\ floors' = [floors EXCEPT ![request[t].floor] = request[t].rest]
    /\ strays' = (strays \ floors[request[t].floor]) \cup {a \in request[t].rest :
                     \/ ~ Exists(a)
                     \/ \E u \in Threads \ {t} : Doing(u, "delete_ap") /\ request[u].ap = a}
    /\ Goes(t, [request[t] EXCEPT !.do = "delete", !.rest = {}])
    /\ UNCHANGED <<aps, camera, slipped, late, raced, half>>

DeleteAP(t) ==
    /\ At(t, "delete_ap", "delete")
    /\ aps' = WithoutAP(request[t].ap)
    /\ Advances(t, "unlink")
    /\ late' = late \ {request[t].ap}
    /\ UNCHANGED <<floors, camera, strays, slipped, raced, half>>

IsCovered(t) ==
    /\ CameraExists /\ camera.floor = request[t].floor
    /\ camera.link = request[t].ap

\* unlink_ap() lists the floor's cameras and writes those that cover the AP.
ListCameras(t) ==
    /\ At(t, "delete_ap", "unlink")
    /\ IF IsCovered(t) THEN Advances(t, "write") ELSE Goes(t, Idle)
    /\ UNCHANGED <<docs, past>>

Unlink(t) ==
    /\ At(t, "delete_ap", "write")
    /\ CameraExists
    /\ camera' = [camera EXCEPT !.link = NoLink]
    /\ slipped' = FALSE
    /\ Goes(t, Idle)
    /\ UNCHANGED <<floors, aps, strays, late, raced, half>>

-----------------------------------------------------------------------------
(* floor_service.delete(): its APs, then its cameras, then the floor. *)

ListAPs(t) ==
    /\ request[t] = Idle
    /\ \E f \in Floors :
         /\ Here(f)
         /\ Goes(t, [op |-> "delete_floor", do |-> "aps", floor |-> f, rest |-> APsOn(f)])
    /\ UNCHANGED <<docs, past>>

EmptyFloor(t) ==
    /\ At(t, "delete_floor", "aps")
    /\ \E a \in request[t].rest :
         /\ aps' = WithoutAP(a)
         /\ Goes(t, [request[t] EXCEPT !.rest = @ \ {a}])
         /\ late' = late \ {a}
    /\ UNCHANGED <<floors, camera, strays, slipped, raced, half>>

DeleteCameras(t) ==
    /\ At(t, "delete_floor", "aps") /\ request[t].rest = {}
    /\ LET here == CameraExists /\ camera.floor = request[t].floor IN
       /\ camera' = IF here THEN Gone ELSE camera
       /\ slipped' = (slipped /\ ~ here)
       /\ late' = IF here THEN late \ {Cam} ELSE late
    /\ Advances(t, "floor")
    /\ UNCHANGED <<floors, aps, strays, raced, half>>

DeleteFloor(t) ==
    /\ At(t, "delete_floor", "floor")
    /\ floors' = [floors EXCEPT ![request[t].floor] = Gone]
    /\ strays' = IF Here(request[t].floor) THEN strays \ floors[request[t].floor] ELSE strays
    /\ half' = half \ {request[t].floor}
    /\ Goes(t, Idle)
    /\ UNCHANGED <<aps, camera, slipped, late, raced>>

\* A call raises, or the backend stops: the request ends where it is.  Writing to a
\* document that is gone raises too.
Ends(t) ==
    /\ request[t] # Idle
    /\ Goes(t, Idle)
    /\ slipped' = (slipped \/ (Doing(t, "delete_ap") /\ IsCovered(t)
                               /\ ~ Exists(request[t].ap)))
    /\ half' = IF Doing(t, "delete_floor") /\ Here(request[t].floor)
               THEN half \cup {request[t].floor} ELSE half
    /\ UNCHANGED <<docs, strays, late, raced>>

RequestStep(t) ==
    \/ CheckMac(t) \/ DeriveMetres(t) \/ SaveAP(t)
    \/ CheckLink(t) \/ SaveLink(t)
    \/ ReadRoute(t) \/ Unroute(t) \/ DeleteAP(t) \/ ListCameras(t) \/ Unlink(t)
    \/ ListAPs(t) \/ EmptyFloor(t) \/ DeleteCameras(t) \/ DeleteFloor(t)
    \/ Ends(t)

Next ==
    \/ \E f \in Floors : CreateFloor(f)
    \/ \E f \in Floors, route \in SUBSET APs : SavePatrol(f, route)
    \/ RemoveCamera
    \/ \E t \in Threads : RequestStep(t)

Spec == Init /\ [][Next]_vars

-----------------------------------------------------------------------------
(* Properties. *)

\* The state keeps its type.
TypeOK ==
    /\ floors \in [Floors -> {Unmade, Gone} \cup SUBSET APs]
    /\ aps \in [APs -> {Unmade} \cup Places]
    /\ camera \in {Unmade, Gone} \cup Coverage
    /\ request \in [Threads -> {Idle} \cup Steps]
    /\ strays \subseteq APs /\ slipped \in BOOLEAN /\ late \subseteq APs \cup {Cam}
    /\ raced \subseteq Macs /\ half \subseteq Floors

\* A route names only access points that exist, at every moment of a delete and after
\* one that failed half way, unless the route was written, as a whole, with an AP that
\* was gone or being deleted, or the floor's own delete is under way or has failed half
\* way.  delete_ap() takes the AP out of the route before it deletes it.
RouteNamesExisting ==
    \A f \in Floors : Here(f) /\ ~ Closing(f) /\ f \notin half
        => \A a \in floors[f] \ strays : Exists(a)

\* A camera of a floor covers an AP that exists, unless the AP's delete has yet to unlink the
\* camera or ended before it could, or the checkpoint was saved after the AP that the
\* request had found was being deleted.
LinkedExists ==
    CameraExists /\ Here(camera.floor) /\ ~ Closing(camera.floor) /\ camera.floor \notin half
      /\ camera.link # NoLink /\ ~ slipped
        => Exists(camera.link) \/ Leaving(camera.link)

\* Access points and cameras do not outlive their floor, however a delete fails, unless
\* they were saved while it was being deleted: the floor's document goes last.
NoneOutlivesFloor ==
    /\ \A a \in APs \ late : Exists(a) => Here(aps[a].floor)
    /\ CameraExists /\ Cam \notin late => Here(camera.floor)

\* Two access points, on whatever floors, have one MAC only if two requests were
\* placing it at a time: create_ap() checks, then saves.
MacsAreUnique ==
    \A a, b \in APs : Exists(a) /\ Exists(b) /\ a # b /\ aps[a].mac = aps[b].mac
        => aps[a].mac \in raced

\* Nothing dangles: what names an access point, route or camera, names one that exists, and
\* what is on a floor goes with it.
NothingDangles == TypeOK /\ RouteNamesExisting /\ LinkedExists /\ NoneOutlivesFloor
=============================================================================
