-------------------------- MODULE SiteRegistryProofs --------------------------
(***************************************************************************)
(* Proofs about SiteRegistry, for every set of floors, access points, MACs *)
(* and requests under way.                                                 *)
(***************************************************************************)
EXTENDS SiteRegistry, TLAPS

\* The access points that are, or were, placed on f: an AP never changes its floor.
Known(f) == {a \in APs : aps[a] # Unmade /\ aps[a].floor = f}
Made(f) == floors[f] # Unmade

\* What a floor, a camera and a request name was placed where they say, on a floor that
\* was made.
NamesKnown ==
    /\ \A f \in Floors : Here(f) => floors[f] \subseteq Known(f)
    /\ \A a \in APs : aps[a] # Unmade => Made(aps[a].floor)
    /\ CameraExists =>
          /\ Made(camera.floor)
          /\ camera.link # NoLink => camera.link \in Known(camera.floor)
    /\ \A t \in Threads : request[t] # Idle => Made(request[t].floor)
    /\ \A t \in Threads : Doing(t, "link") /\ request[t].ap # NoLink =>
          request[t].ap \in Known(request[t].floor)
    /\ \A t \in Threads : Doing(t, "delete_ap") =>
          /\ request[t].ap \in Known(request[t].floor)
          /\ request[t].rest \subseteq Known(request[t].floor)
    /\ \A t \in Threads : Doing(t, "delete_floor") =>
          request[t].rest \subseteq Known(request[t].floor)

\* A new access point's id, and a new camera's, is with one request; an update of the
\* camera knows its floor.
NewIsMine ==
    \A t \in Threads :
        /\ Doing(t, "create_ap") =>
              /\ aps[request[t].ap] = Unmade
              /\ \A u \in Threads \ {t} : Doing(u, "create_ap") => request[u].ap # request[t].ap
        /\ At(t, "link", "create") =>
              /\ camera = Unmade
              /\ \A u \in Threads \ {t} : ~ Doing(u, "link")
        /\ At(t, "link", "update") =>
              /\ camera # Unmade
              /\ CameraExists => camera.floor = request[t].floor

\* delete_ap() deletes an AP that the route has let go, or was given behind its back.
LeavingIsOff ==
    \A t \in Threads : Doing(t, "delete_ap") =>
        /\ request[t].do # "unroute" /\ Here(request[t].floor) =>
              request[t].ap \notin floors[request[t].floor] \ strays
        /\ request[t].do \in {"unlink", "write"} => ~ Exists(request[t].ap)
        /\ request[t].ap \notin request[t].rest

\* What a delete of a floor has yet to delete is all that is on the floor, but for what
\* came late.
ClosingEmpties ==
    \A t \in Threads :
        /\ At(t, "delete_floor", "aps") =>
              APsOn(request[t].floor) \subseteq request[t].rest \cup late
        /\ At(t, "delete_floor", "floor") =>
              /\ APsOn(request[t].floor) \subseteq late
              /\ CameraExists /\ camera.floor = request[t].floor => Cam \in late

\* A MAC that two have, or may soon have, was being placed twice at a time.
RacesNoted ==
    \A t \in Threads : Doing(t, "create_ap") =>
        /\ \A u \in Threads \ {t} : Doing(u, "create_ap") /\ request[u].mac = request[t].mac
              => request[t].mac \in raced
        /\ MacTaken(request[t].mac) => request[t].mac \in raced

Inv ==
    /\ TypeOK /\ NamesKnown /\ NewIsMine /\ LeavingIsOff /\ ClosingEmpties /\ RacesNoted
    /\ RouteNamesExisting /\ LinkedExists /\ NoneOutlivesFloor /\ MacsAreUnique

--------------------------------------------------------------------------------
\* A request is a record of its own kind.
LEMMA StepKinds ==
    ASSUME TypeOK, NEW t \in Threads
    PROVE  /\ Doing(t, "create_ap") => request[t] \in CreateSteps
           /\ Doing(t, "link") => request[t] \in LinkSteps
           /\ Doing(t, "delete_ap") => request[t] \in DeleteSteps
           /\ Doing(t, "delete_floor") => request[t] \in CloseSteps
           /\ request[t] # Idle => request[t] \in Steps /\ request[t].floor \in Floors
BY DEF TypeOK, Doing, Steps, CreateSteps, LinkSteps, DeleteSteps, CloseSteps

LEMMA GoesType ==
    ASSUME TypeOK, NEW t \in Threads, NEW r \in {Idle} \cup Steps, Goes(t, r)
    PROVE  /\ request' \in [Threads -> {Idle} \cup Steps]
           /\ request'[t] = r /\ \A u \in Threads \ {t} : request'[u] = request[u]
BY DEF TypeOK, Goes

LEMMA TypeInit == Init => TypeOK
BY DEF Init, TypeOK

LEMMA TypeNext == TypeOK /\ NamesKnown /\ [Next]_vars => TypeOK'
<1>. SUFFICES ASSUME TypeOK, NamesKnown, [Next]_vars PROVE TypeOK'  OBVIOUS
<1>1. ASSUME NEW f \in Floors, CreateFloor(f) PROVE TypeOK'
  BY <1>1 DEF CreateFloor, TypeOK, past
<1>2. ASSUME NEW f \in Floors, NEW route \in SUBSET APs, SavePatrol(f, route) PROVE TypeOK'
  BY <1>2 DEF SavePatrol, WriteRoute, TypeOK
<1>3. CASE RemoveCamera  BY <1>3 DEF RemoveCamera, TypeOK
<1>4. ASSUME NEW t \in Threads, RequestStep(t) PROVE TypeOK'
  <2>1. CASE CheckMac(t)
    <3>1. PICK a \in APs, f \in Floors, m \in Macs :
             /\ Goes(t, [op |-> "create_ap", do |-> "derive", ap |-> a, floor |-> f, mac |-> m])
             /\ raced' = raced \cup PlacedTwice(m)
      BY <2>1 DEF CheckMac
    <3>2. [op |-> "create_ap", do |-> "derive", ap |-> a, floor |-> f, mac |-> m] \in Steps
      BY DEF Steps, CreateSteps
    <3>. QED  BY <2>1, <3>1, <3>2, GoesType DEF CheckMac, TypeOK, docs, PlacedTwice
  <2>2. CASE DeriveMetres(t)
    <3>1. request[t] \in CreateSteps  BY <2>2, StepKinds DEF DeriveMetres, At
    <3>2. [request[t] EXCEPT !.do = "save"] \in Steps  BY <3>1 DEF CreateSteps, Steps
    <3>. QED  BY <2>2, <3>2, GoesType DEF DeriveMetres, Advances, TypeOK, docs, past
  <2>3. CASE SaveAP(t)
    <3>1. request[t] \in CreateSteps  BY <2>3, StepKinds DEF SaveAP, At
    <3>2. aps' \in [APs -> {Unmade} \cup Places]
      BY <2>3, <3>1 DEF SaveAP, TypeOK, CreateSteps, Places
    <3>3. late' \subseteq APs \cup {Cam}
      BY <2>3, <3>1 DEF SaveAP, Astray, TypeOK, CreateSteps
    <3>. QED  BY <2>3, <3>2, <3>3, GoesType DEF SaveAP, TypeOK
  <2>4. CASE CheckLink(t)
    <3>1. PICK f \in Floors, a \in APs \cup {NoLink}, do \in {"create", "update"} :
             Goes(t, [op |-> "link", do |-> do, floor |-> f, ap |-> a])
      BY <2>4 DEF CheckLink
    <3>2. [op |-> "link", do |-> do, floor |-> f, ap |-> a] \in Steps
      BY DEF Steps, LinkSteps
    <3>. QED  BY <2>4, <3>1, <3>2, GoesType DEF CheckLink, TypeOK, docs, past
  <2>5. CASE SaveLink(t)
    <3>1. request[t] \in LinkSteps  BY <2>5, StepKinds DEF SaveLink
    <3>2. camera' \in Coverage  BY <2>5, <3>1 DEF SaveLink, LinkSteps, Coverage
    <3>3. late' \subseteq APs \cup {Cam} /\ slipped' \in BOOLEAN
      BY <2>5 DEF SaveLink, Astray, TypeOK
    <3>. QED  BY <2>5, <3>2, <3>3, GoesType DEF SaveLink, TypeOK
  <2>6. CASE ReadRoute(t)
    <3>1. PICK a \in APs :
             /\ aps[a] # Unmade
             /\ \/ Named(a) /\ Goes(t, ToDelete(a, "unroute", floors[aps[a].floor] \ {a}))
                \/ ~ Named(a) /\ Goes(t, ToDelete(a, "delete", {}))
      BY <2>6 DEF ReadRoute
    <3>2. aps[a].floor \in Floors  BY <3>1 DEF TypeOK, Places
    <3>3. ToDelete(a, "delete", {}) \in Steps  BY <3>2 DEF ToDelete, Steps, DeleteSteps
    <3>4. Named(a) => ToDelete(a, "unroute", floors[aps[a].floor] \ {a}) \in Steps
      BY <3>2 DEF Named, Here, ToDelete, Steps, DeleteSteps, TypeOK
    <3>5. request' \in [Threads -> {Idle} \cup Steps]  BY <3>1, <3>3, <3>4, GoesType
    <3>. QED  BY <2>6, <3>5 DEF ReadRoute, TypeOK, docs, past
  <2>7. CASE Unroute(t)
    <3>1. request[t] \in DeleteSteps  BY <2>7, StepKinds DEF Unroute, At
    <3>2. [request[t] EXCEPT !.do = "delete", !.rest = {}] \in Steps
      BY <3>1 DEF DeleteSteps, Steps
    <3>3. /\ floors' \in [Floors -> {Unmade, Gone} \cup SUBSET APs]
          /\ strays' \subseteq APs
      BY <2>7, <3>1 DEF Unroute, TypeOK, DeleteSteps
    <3>. QED  BY <2>7, <3>2, <3>3, GoesType DEF Unroute, TypeOK
  <2>8. CASE DeleteAP(t)
    <3>1. request[t] \in DeleteSteps  BY <2>8, StepKinds DEF DeleteAP, At
    <3>2. [request[t] EXCEPT !.do = "unlink"] \in Steps  BY <3>1 DEF DeleteSteps, Steps
    <3>3. aps[request[t].ap] \in Places
      BY <2>8, <3>1 DEF DeleteAP, At, NamesKnown, Known, TypeOK
    <3>4. aps' \in [APs -> {Unmade} \cup Places]
      BY <2>8, <3>3 DEF DeleteAP, WithoutAP, TypeOK, Places
    <3>. QED  BY <2>8, <3>2, <3>4, GoesType DEF DeleteAP, Advances, TypeOK
  <2>9. CASE ListCameras(t)
    <3>1. request[t] \in DeleteSteps  BY <2>9, StepKinds DEF ListCameras, At
    <3>2. [request[t] EXCEPT !.do = "write"] \in Steps  BY <3>1 DEF DeleteSteps, Steps
    <3>. QED  BY <2>9, <3>2, GoesType DEF ListCameras, Advances, TypeOK, docs, past
  <2>10. CASE Unlink(t)
    <3>1. camera' \in Coverage  BY <2>10 DEF Unlink, CameraExists, TypeOK, Coverage
    <3>. QED  BY <2>10, <3>1, GoesType DEF Unlink, TypeOK
  <2>11. CASE ListAPs(t)
    <3>1. PICK f \in Floors :
             Goes(t, [op |-> "delete_floor", do |-> "aps", floor |-> f, rest |-> APsOn(f)])
      BY <2>11 DEF ListAPs
    <3>2. [op |-> "delete_floor", do |-> "aps", floor |-> f, rest |-> APsOn(f)] \in Steps
      BY DEF Steps, CloseSteps, APsOn
    <3>. QED  BY <2>11, <3>1, <3>2, GoesType DEF ListAPs, TypeOK, docs, past
  <2>12. CASE EmptyFloor(t)
    <3>1. request[t] \in CloseSteps  BY <2>12, StepKinds DEF EmptyFloor, At
    <3>2. PICK a \in request[t].rest :
             /\ aps' = WithoutAP(a) /\ late' = late \ {a}
             /\ Goes(t, [request[t] EXCEPT !.rest = @ \ {a}])
      BY <2>12 DEF EmptyFloor
    <3>3. [request[t] EXCEPT !.rest = @ \ {a}] \in Steps  BY <3>1 DEF CloseSteps, Steps
    <3>4. a \in APs /\ aps[a] \in Places
      BY <2>12, <3>1, <3>2 DEF EmptyFloor, At, NamesKnown, Known, TypeOK
    <3>5. aps' \in [APs -> {Unmade} \cup Places]
      BY <3>2, <3>4 DEF WithoutAP, TypeOK, Places
    <3>. QED  BY <2>12, <3>2, <3>3, <3>5, GoesType DEF EmptyFloor, TypeOK
  <2>13. CASE DeleteCameras(t)
    <3>1. request[t] \in CloseSteps  BY <2>13, StepKinds DEF DeleteCameras, At
    <3>2. [request[t] EXCEPT !.do = "floor"] \in Steps  BY <3>1 DEF CloseSteps, Steps
    <3>. QED  BY <2>13, <3>2, GoesType DEF DeleteCameras, Advances, TypeOK
  <2>14. CASE DeleteFloor(t)
    <3>1. Goes(t, Idle)  BY <2>14 DEF DeleteFloor
    <3>. QED  BY <2>14, <3>1, GoesType DEF DeleteFloor, TypeOK
  <2>15. CASE Ends(t)
    <3>1. request[t].floor \in Floors  BY <2>15, StepKinds DEF Ends
    <3>2. half' \subseteq Floors /\ slipped' \in BOOLEAN  BY <2>15, <3>1 DEF Ends, TypeOK
    <3>. QED  BY <2>15, <3>2, GoesType DEF Ends, TypeOK, docs
  <2>. QED  BY <1>4, <2>1, <2>2, <2>3, <2>4, <2>5, <2>6, <2>7, <2>8, <2>9, <2>10, <2>11,
               <2>12, <2>13, <2>14, <2>15 DEF RequestStep
<1>5. CASE UNCHANGED vars  BY <1>5 DEF vars, TypeOK
<1>. QED  BY <1>1, <1>2, <1>3, <1>4, <1>5 DEF Next
--------------------------------------------------------------------------------
(* What the steps that write do, field by field.                              *)

LEMMA PatrolEffect ==
    ASSUME TypeOK, NEW f \in Floors, NEW route \in SUBSET APs, SavePatrol(f, route)
    PROVE  /\ Here(f) /\ floors'[f] = route /\ route \notin {Unmade, Gone}
           /\ \A g \in Floors \ {f} : floors'[g] = floors[g]
           /\ \A a \in route : a \in Known(f)
           /\ strays' = (strays \ floors[f]) \cup {a \in route : ~ Exists(a) \/ Leaving(a)}
           /\ UNCHANGED <<aps, camera, request, slipped, late, raced, half>>
<1>1. route \notin {Unmade, Gone}  BY NamesAssumption
<1>. QED  BY <1>1 DEF SavePatrol, WriteRoute, TypeOK, Here, Known

\* An access point that is saved is a new one.
LEMMA SaveEffect ==
    ASSUME TypeOK, NewIsMine, NEW t \in Threads, SaveAP(t)
    PROVE  LET a == request[t].ap IN
           /\ Doing(t, "create_ap") /\ a \in APs /\ aps[a] = Unmade
           /\ request[t].floor \in Floors /\ request[t].mac \in Macs /\ request[t].mac # NoMac
           /\ aps'[a] # Unmade /\ aps'[a].floor = request[t].floor
           /\ aps'[a].mac = request[t].mac
           /\ \A b \in APs \ {a} : aps'[b] = aps[b]
           /\ request'[t] = Idle /\ \A u \in Threads \ {t} : request'[u] = request[u]
           /\ late' = Astray(a, request[t].floor)
           /\ UNCHANGED <<floors, camera, strays, slipped, raced, half>>
<1>1. request[t] \in CreateSteps  BY StepKinds DEF SaveAP, At
<1>2. [floor |-> request[t].floor, mac |-> request[t].mac] \in Places
  BY <1>1 DEF CreateSteps, Places
<1>3. /\ request[t].ap \in APs /\ request[t].floor \in Floors
      /\ request[t].mac \in Macs /\ request[t].mac # NoMac
  BY <1>1, NamesAssumption DEF CreateSteps
<1>. QED  BY <1>2, <1>3, NamesAssumption DEF SaveAP, Goes, At, NewIsMine, TypeOK

\* An access point that is deleted keeps its floor.
LEMMA WithoutKeeps ==
    ASSUME TypeOK, NEW a \in APs, aps[a] # Unmade, aps' = WithoutAP(a)
    PROVE  /\ aps'[a] # Unmade /\ aps'[a].floor = aps[a].floor /\ aps'[a].mac = NoMac
           /\ \A b \in APs \ {a} : aps'[b] = aps[b]
<1>1. aps[a] \in Places  BY DEF TypeOK
<1>2. aps' = [aps EXCEPT ![a] = [aps[a] EXCEPT !.mac = NoMac]]  BY DEF WithoutAP
<1>3. [aps[a] EXCEPT !.mac = NoMac] \in Places  BY <1>1 DEF Places
<1>4. /\ [aps[a] EXCEPT !.mac = NoMac].mac = NoMac
      /\ [aps[a] EXCEPT !.mac = NoMac].floor = aps[a].floor
  BY <1>1 DEF Places
<1>. QED  BY <1>2, <1>3, <1>4, NamesAssumption DEF TypeOK

LEMMA UnrouteEffect ==
    ASSUME TypeOK, NamesKnown, LeavingIsOff, NEW t \in Threads, Unroute(t)
    PROVE  LET a == request[t].ap  f == request[t].floor IN
           /\ Doing(t, "delete_ap") /\ a \in APs /\ f \in Floors /\ Here(f)
           /\ floors'[f] \notin {Unmade, Gone}
           /\ floors'[f] \subseteq Known(f) /\ a \notin floors'[f]
           /\ \A g \in Floors \ {f} : floors'[g] = floors[g]
           /\ strays' = (strays \ floors[f]) \cup {b \in floors'[f] : ~ Exists(b) \/
                 \E u \in Threads \ {t} : Doing(u, "delete_ap") /\ request[u].ap = b}
           /\ request'[t] # Idle /\ request'[t].op = "delete_ap" /\ request'[t].do = "delete"
           /\ request'[t].ap = a /\ request'[t].floor = f /\ request'[t].rest = {}
           /\ \A u \in Threads \ {t} : request'[u] = request[u]
           /\ UNCHANGED <<aps, camera, slipped, late, raced, half>>
<1>1. request[t] \in DeleteSteps  BY StepKinds DEF Unroute, At
<1>2. /\ request[t].ap \in APs /\ request[t].floor \in Floors /\ request[t].rest \in SUBSET APs
  BY <1>1 DEF DeleteSteps
<1>3. /\ request[t].rest \subseteq Known(request[t].floor) /\ request[t].ap \notin request[t].rest
      /\ request[t].rest \notin {Unmade, Gone}
  BY <1>2, NamesAssumption DEF Unroute, At, NamesKnown, LeavingIsOff
<1>4. [request[t] EXCEPT !.do = "delete", !.rest = {}] \in DeleteSteps  BY <1>1 DEF DeleteSteps
<1>5. LET r == [request[t] EXCEPT !.do = "delete", !.rest = {}] IN
      /\ r # Idle /\ r.op = "delete_ap" /\ r.do = "delete" /\ r.ap = request[t].ap
      /\ r.floor = request[t].floor /\ r.rest = {}
  BY <1>1, <1>4, NamesAssumption DEF DeleteSteps, Steps
<1>6. /\ request'[t] = [request[t] EXCEPT !.do = "delete", !.rest = {}]
      /\ \A u \in Threads \ {t} : request'[u] = request[u]
  BY DEF Unroute, Goes, TypeOK
<1>7. floors'[request[t].floor] = request[t].rest
  BY <1>2 DEF Unroute, TypeOK
<1>. QED  BY <1>2, <1>3, <1>5, <1>6, <1>7 DEF Unroute, At, Here, TypeOK

LEMMA DeleteEffect ==
    ASSUME TypeOK, NamesKnown, NEW t \in Threads, DeleteAP(t)
    PROVE  LET a == request[t].ap IN
           /\ At(t, "delete_ap", "delete") /\ a \in APs /\ aps[a] # Unmade
           /\ aps[a].floor = request[t].floor /\ request[t].floor \in Floors
           /\ aps'[a] # Unmade /\ aps'[a].floor = aps[a].floor /\ aps'[a].mac = NoMac
           /\ \A b \in APs \ {a} : aps'[b] = aps[b]
           /\ request'[t] # Idle /\ request'[t].op = "delete_ap" /\ request'[t].do = "unlink"
           /\ request'[t].ap = a /\ request'[t].floor = request[t].floor
           /\ request'[t].rest = request[t].rest
           /\ \A u \in Threads \ {t} : request'[u] = request[u]
           /\ late' = late \ {a}
           /\ UNCHANGED <<floors, camera, strays, slipped, raced, half>>
<1>1. request[t] \in DeleteSteps  BY StepKinds DEF DeleteAP, At
<1>2. /\ request[t].ap \in APs /\ request[t].floor \in Floors
      /\ aps[request[t].ap] # Unmade /\ aps[request[t].ap].floor = request[t].floor
  BY <1>1 DEF DeleteSteps, DeleteAP, At, NamesKnown, Known
<1>3. [request[t] EXCEPT !.do = "unlink"] \in DeleteSteps  BY <1>1 DEF DeleteSteps
<1>4. LET r == [request[t] EXCEPT !.do = "unlink"] IN
      /\ r # Idle /\ r.op = "delete_ap" /\ r.do = "unlink" /\ r.ap = request[t].ap
      /\ r.floor = request[t].floor /\ r.rest = request[t].rest
  BY <1>1, <1>3, NamesAssumption DEF DeleteSteps, Steps
<1>5. /\ request'[t] = [request[t] EXCEPT !.do = "unlink"]
      /\ \A u \in Threads \ {t} : request'[u] = request[u]
  BY DEF DeleteAP, Advances, Goes, TypeOK
<1>6. /\ aps'[request[t].ap] # Unmade
      /\ aps'[request[t].ap].floor = aps[request[t].ap].floor /\ aps'[request[t].ap].mac = NoMac
      /\ \A b \in APs \ {request[t].ap} : aps'[b] = aps[b]
  BY <1>2, WithoutKeeps DEF DeleteAP
<1>. QED  BY <1>2, <1>4, <1>5, <1>6 DEF DeleteAP

LEMMA EmptyEffect ==
    ASSUME TypeOK, NamesKnown, NEW t \in Threads, EmptyFloor(t)
    PROVE  \E a \in request[t].rest :
           /\ At(t, "delete_floor", "aps") /\ a \in APs /\ aps[a] # Unmade
           /\ aps[a].floor = request[t].floor /\ request[t].floor \in Floors
           /\ aps'[a] # Unmade /\ aps'[a].floor = aps[a].floor /\ aps'[a].mac = NoMac
           /\ \A b \in APs \ {a} : aps'[b] = aps[b]
           /\ request'[t] # Idle /\ request'[t].op = "delete_floor" /\ request'[t].do = "aps"
           /\ request'[t].floor = request[t].floor /\ request'[t].rest = request[t].rest \ {a}
           /\ \A u \in Threads \ {t} : request'[u] = request[u]
           /\ late' = late \ {a}
           /\ UNCHANGED <<floors, camera, strays, slipped, raced, half>>
<1>1. request[t] \in CloseSteps  BY StepKinds DEF EmptyFloor, At
<1>2. PICK a \in request[t].rest :
         /\ aps' = WithoutAP(a) /\ late' = late \ {a}
         /\ Goes(t, [request[t] EXCEPT !.rest = @ \ {a}])
  BY DEF EmptyFloor
<1>3. /\ a \in APs /\ request[t].floor \in Floors
      /\ aps[a] # Unmade /\ aps[a].floor = request[t].floor
  BY <1>1, <1>2 DEF CloseSteps, EmptyFloor, At, NamesKnown, Known
<1>4. [request[t] EXCEPT !.rest = @ \ {a}] \in CloseSteps  BY <1>1 DEF CloseSteps
<1>5. LET r == [request[t] EXCEPT !.rest = @ \ {a}] IN
      /\ r # Idle /\ r.op = "delete_floor" /\ r.do = request[t].do
      /\ r.floor = request[t].floor /\ r.rest = request[t].rest \ {a}
  BY <1>1, <1>4, NamesAssumption DEF CloseSteps, Steps
<1>6. /\ request'[t] = [request[t] EXCEPT !.rest = @ \ {a}]
      /\ \A u \in Threads \ {t} : request'[u] = request[u]
  BY <1>2 DEF Goes, TypeOK
<1>7. /\ aps'[a] # Unmade /\ aps'[a].floor = aps[a].floor /\ aps'[a].mac = NoMac
      /\ \A b \in APs \ {a} : aps'[b] = aps[b]
  BY <1>2, <1>3, WithoutKeeps
<1>8. At(t, "delete_floor", "aps") /\ UNCHANGED <<floors, camera, strays, slipped, raced, half>>
  BY DEF EmptyFloor
<1>9. request[t].do = "aps"  BY <1>8 DEF At
<1>. QED  BY <1>2, <1>3, <1>5, <1>6, <1>7, <1>8, <1>9

LEMMA LinkEffect ==
    ASSUME TypeOK, NEW t \in Threads, SaveLink(t)
    PROVE  /\ Doing(t, "link") /\ request[t].floor \in Floors
           /\ request[t].ap \in APs \cup {NoLink} /\ request[t].do \in {"create", "update"}
           /\ CameraExists' /\ camera'.floor = request[t].floor /\ camera'.link = request[t].ap
           /\ request[t].do = "update" => CameraExists /\ late' = late
           /\ request[t].do = "create" => late' = Astray(Cam, request[t].floor)
           /\ slipped' = (request[t].ap # NoLink /\ (~ Exists(request[t].ap)
                                                      \/ Leaving(request[t].ap)))
           /\ request'[t] = Idle /\ \A u \in Threads \ {t} : request'[u] = request[u]
           /\ UNCHANGED <<floors, aps, strays, raced, half>>
<1>1. request[t] \in LinkSteps  BY StepKinds DEF SaveLink
<1>2. /\ request[t].floor \in Floors /\ request[t].ap \in APs \cup {NoLink}
      /\ request[t].do \in {"create", "update"}
  BY <1>1 DEF LinkSteps
<1>3. [floor |-> request[t].floor, link |-> request[t].ap] \in Coverage  BY <1>2 DEF Coverage
<1>4. CameraExists'  BY <1>3, NamesAssumption DEF SaveLink, CameraExists
<1>. QED  BY <1>2, <1>4 DEF SaveLink, Goes, TypeOK

LEMMA FloorEffect ==
    ASSUME TypeOK, NEW t \in Threads, DeleteFloor(t)
    PROVE  LET f == request[t].floor IN
           /\ At(t, "delete_floor", "floor") /\ f \in Floors /\ floors'[f] = Gone
           /\ \A g \in Floors \ {f} : floors'[g] = floors[g]
           /\ strays' = IF Here(f) THEN strays \ floors[f] ELSE strays
           /\ half' = half \ {f}
           /\ request'[t] = Idle /\ \A u \in Threads \ {t} : request'[u] = request[u]
           /\ UNCHANGED <<aps, camera, slipped, late, raced>>
<1>1. request[t] \in CloseSteps  BY StepKinds DEF DeleteFloor, At
<1>2. request[t].floor \in Floors  BY <1>1 DEF CloseSteps
<1>3. /\ floors'[request[t].floor] = Gone
      /\ \A g \in Floors \ {request[t].floor} : floors'[g] = floors[g]
  BY <1>2 DEF DeleteFloor, TypeOK
<1>4. request'[t] = Idle /\ \A u \in Threads \ {t} : request'[u] = request[u]
  BY DEF DeleteFloor, Goes, TypeOK
<1>. QED  BY <1>2, <1>3, <1>4, NamesAssumption DEF DeleteFloor

\* No floor is unmade, and no access point moves.
LEMMA KnownGrows ==
    ASSUME Inv, [Next]_vars, NEW f \in Floors
    PROVE  /\ Known(f) \subseteq Known(f)'
           /\ Made(f) => Made(f)'
<1>0. TypeOK /\ NamesKnown /\ NewIsMine /\ LeavingIsOff  BY DEF Inv
<1>1. ASSUME NEW g \in Floors, CreateFloor(g) PROVE UNCHANGED aps /\ (Made(f) => Made(f)')
  BY <1>0, <1>1 DEF CreateFloor, Made, TypeOK
<1>2. ASSUME NEW g \in Floors, NEW route \in SUBSET APs, SavePatrol(g, route)
      PROVE  UNCHANGED aps /\ (Made(f) => Made(f)')
  BY <1>0, <1>2, PatrolEffect DEF Made
<1>3. CASE RemoveCamera  BY <1>3 DEF RemoveCamera, Known, Made
<1>4. ASSUME NEW t \in Threads, RequestStep(t)
      PROVE  Known(f) \subseteq Known(f)' /\ (Made(f) => Made(f)')
  <2>1. CASE SaveAP(t)  BY <1>0, <2>1, SaveEffect DEF Known, Made
  <2>2. CASE DeleteAP(t)  BY <1>0, <2>2, DeleteEffect DEF Known, Made
  <2>3. CASE EmptyFloor(t)
    <3>1. PICK a \in APs :
             /\ aps[a] # Unmade /\ aps'[a] # Unmade /\ aps'[a].floor = aps[a].floor
             /\ \A b \in APs \ {a} : aps'[b] = aps[b]
             /\ floors' = floors
      BY <1>0, <2>3, EmptyEffect
    <3>. QED  BY <3>1 DEF Known, Made
  <2>4. CASE Unroute(t)  BY <1>0, <2>4, UnrouteEffect DEF Known, Made
  <2>5. CASE DeleteFloor(t)  BY <1>0, <2>5, FloorEffect, NamesAssumption DEF Known, Made
  <2>6. CASE ~ (SaveAP(t) \/ DeleteAP(t) \/ EmptyFloor(t) \/ Unroute(t) \/ DeleteFloor(t))
    <3>1. UNCHANGED <<floors, aps>>
      BY <1>4, <2>6
      DEF RequestStep, CheckMac, DeriveMetres, CheckLink, SaveLink, ReadRoute, ListCameras, Unlink,
          ListAPs, DeleteCameras, Ends, docs
    <3>. QED  BY <3>1 DEF Known, Made
  <2>. QED  BY <2>1, <2>2, <2>3, <2>4, <2>5, <2>6
<1>5. CASE UNCHANGED vars  BY <1>5 DEF vars, Known, Made
<1>6. UNCHANGED aps => Known(f)' = Known(f)  BY DEF Known
<1>. QED  BY <1>1, <1>2, <1>3, <1>4, <1>5, <1>6 DEF Next

--------------------------------------------------------------------------------
\* What names an access point or a floor goes on naming one that was placed, or made, there.
LEMMA NamesNext ==
    ASSUME Inv, [Next]_vars
    PROVE  NamesKnown'
<1>1. ASSUME NEW f \in Floors, CreateFloor(f) PROVE NamesKnown'
  BY <1>1, NamesAssumption DEF Inv, NamesKnown, Here, Made, Known, CameraExists, Doing, At,
     CreateFloor, TypeOK, past
<1>2. ASSUME NEW f \in Floors, NEW route \in SUBSET APs, SavePatrol(f, route) PROVE NamesKnown'
  <2>1. /\ floors'[f] = route /\ \A g \in Floors \ {f} : floors'[g] = floors[g]
        /\ route \subseteq Known(f)
        /\ UNCHANGED <<aps, camera, request>>
    BY <1>2, PatrolEffect DEF Inv
  <2>2. \A g \in Floors : Known(g)' = Known(g) /\ (Made(g) => Made(g)')
    BY <2>1, KnownGrows DEF Known
  <2>3. \A g \in Floors : Here(g)' => floors'[g] \subseteq Known(g)'
    BY <2>1, <2>2 DEF Inv, NamesKnown, Here
  <2>. QED  BY <2>1, <2>2, <2>3, StepKinds
       DEF Inv, NamesKnown, CameraExists, Doing, TypeOK, Places, Coverage
<1>3. CASE RemoveCamera
  BY <1>3, NamesAssumption DEF Inv, NamesKnown, Here, Made, Known, CameraExists, Doing, At,
     RemoveCamera, TypeOK
<1>4. ASSUME NEW t \in Threads, RequestStep(t) PROVE NamesKnown'
  <2>1. CASE CheckMac(t)
    BY <2>1, StepKinds, NamesAssumption DEF Inv, NamesKnown, Here, Made, Known, CameraExists,
       Doing, At, CheckMac, NewAP, PlacedTwice, Goes, TypeOK, CreateSteps, Steps, docs, past
  <2>2. CASE DeriveMetres(t)
    BY <2>2, StepKinds, NamesAssumption DEF Inv, NamesKnown, Here, Made, Known, CameraExists,
       Doing, At, DeriveMetres, Advances, Goes, TypeOK, CreateSteps, Steps, docs, past
  <2>3. CASE SaveAP(t)
    BY <2>3, SaveEffect DEF Inv, NamesKnown, Here, Made, Known, CameraExists, Doing, At, Astray
  <2>4. CASE CheckLink(t)
    <3>1. PICK f \in Floors, a \in APs \cup {NoLink}, do \in {"create", "update"} :
             /\ floors[f] # Unmade /\ (a = NoLink \/ a \in APsOn(f))
             /\ Goes(t, [op |-> "link", do |-> do, floor |-> f, ap |-> a])
             /\ UNCHANGED <<floors, aps, camera>>
      BY <2>4 DEF CheckLink, docs
    <3>2. a # NoLink => a \in Known(f)  BY <3>1 DEF APsOn, Known, Exists
    <3>. QED  BY <3>1, <3>2, NamesAssumption
          DEF Inv, NamesKnown, Here, Made, Known, CameraExists, Doing, Goes, TypeOK
  <2>5. CASE SaveLink(t)
    BY <2>5, LinkEffect DEF Inv, NamesKnown, Here, Made, Known, CameraExists, Doing, At, Astray
  <2>6. CASE ReadRoute(t)
    <3>1. PICK a, do, rest :
             /\ a \in APs /\ do \in {"unroute", "delete"}
             /\ aps[a] # Unmade /\ (rest = {} \/ (Named(a) /\ rest = floors[aps[a].floor] \ {a}))
             /\ Goes(t, [op |-> "delete_ap", do |-> do, ap |-> a, floor |-> aps[a].floor,
                         rest |-> rest])
             /\ UNCHANGED <<floors, aps, camera>>
      BY <2>6 DEF ReadRoute, ToDelete, docs
    <3>2. aps[a].floor \in Floors  BY <3>1 DEF Inv, TypeOK, Places
    <3>3. a \in Known(aps[a].floor) /\ rest \subseteq Known(aps[a].floor)
      BY <3>1, <3>2 DEF Inv, NamesKnown, Known, Named
    <3>. QED  BY <3>1, <3>2, <3>3
          DEF Inv, NamesKnown, Here, Made, Known, CameraExists, Doing, Goes, TypeOK
  <2>7. CASE Unroute(t)
    <3>1. \A g \in Floors : Known(g)' = Known(g) /\ (Made(g) => Made(g)')
      BY <2>7, KnownGrows, UnrouteEffect DEF Inv, Known
    <3>2. \A g \in Floors : Here(g)' => floors'[g] \subseteq Known(g)'
      BY <2>7, <3>1, UnrouteEffect DEF Inv, NamesKnown, Here
    <3>. QED  BY <2>7, <3>1, <3>2, UnrouteEffect, StepKinds
          DEF Inv, NamesKnown, CameraExists, Doing, TypeOK, Places, Coverage
  <2>8. CASE DeleteAP(t)
    <3>0. PICK a : a = request[t].ap  OBVIOUS
    <3>1. /\ At(t, "delete_ap", "delete") /\ a \in APs /\ aps[a] # Unmade
          /\ aps'[a] # Unmade /\ aps'[a].floor = aps[a].floor
          /\ \A b \in APs \ {a} : aps'[b] = aps[b]
          /\ request'[t] # Idle /\ request'[t].op = "delete_ap" /\ request'[t].ap = a
          /\ request'[t].floor = request[t].floor /\ request'[t].rest = request[t].rest
          /\ \A u \in Threads \ {t} : request'[u] = request[u]
          /\ UNCHANGED <<floors, camera>>
      BY <2>8, <3>0, DeleteEffect DEF Inv
    <3>2. \A g : Known(g)' = Known(g)  BY <3>1 DEF Known
    <3>3. \A b \in APs : (aps'[b] # Unmade) <=> (aps[b] # Unmade)  BY <3>1
    <3>4. \A u \in Threads :
             request'[u] # Idle =>
                /\ request[u] # Idle /\ request'[u].op = request[u].op
                /\ request'[u].ap = request[u].ap /\ request'[u].floor = request[u].floor
                /\ request'[u].rest = request[u].rest
      BY <3>0, <3>1 DEF At, Doing
    <3>5. \A b \in APs : aps[b] # Unmade => aps'[b].floor = aps[b].floor  BY <3>1
    <3>. QED  BY <3>1, <3>2, <3>3, <3>4, <3>5
          DEF Inv, NamesKnown, Here, Made, CameraExists, Doing
  <2>9. CASE ListCameras(t)
    BY <2>9, StepKinds, NamesAssumption DEF Inv, NamesKnown, Here, Made, Known, CameraExists,
       Doing, At, ListCameras, Advances, IsCovered, Goes, TypeOK, DeleteSteps, Steps, docs,
       past
  <2>10. CASE Unlink(t)
    BY <2>10, StepKinds, NamesAssumption DEF Inv, NamesKnown, Here, Made, Known, CameraExists,
       Doing, At, Unlink, Goes, TypeOK, DeleteSteps, Steps, docs, past
  <2>11. CASE ListAPs(t)
    <3>1. PICK f \in Floors :
             /\ Here(f) /\ UNCHANGED <<floors, aps, camera>>
             /\ Goes(t, [op |-> "delete_floor", do |-> "aps", floor |-> f, rest |-> APsOn(f)])
      BY <2>11 DEF ListAPs, docs
    <3>2. APsOn(f) \subseteq Known(f)  BY DEF APsOn, Known, Exists
    <3>. QED  BY <3>1, <3>2
          DEF Inv, NamesKnown, Here, Made, Known, CameraExists, Doing, Goes, TypeOK
  <2>12. CASE EmptyFloor(t)
    BY <2>12, EmptyEffect DEF Inv, NamesKnown, Here, Made, Known, CameraExists, Doing, At
  <2>13. CASE DeleteCameras(t)
    BY <2>13, StepKinds, NamesAssumption DEF Inv, NamesKnown, Here, Made, Known, CameraExists,
       Doing, At, DeleteCameras, Advances, Goes, TypeOK, CloseSteps, Steps, docs, past
  <2>14. CASE DeleteFloor(t)
    <3>1. \A g \in Floors : Known(g)' = Known(g) /\ (Made(g) => Made(g)')
      BY <2>14, KnownGrows, FloorEffect DEF Inv, Known
    <3>2. \A g \in Floors : Here(g)' => floors'[g] \subseteq Known(g)'
      BY <2>14, <3>1, FloorEffect DEF Inv, NamesKnown, Here
    <3>. QED  BY <2>14, <3>1, <3>2, FloorEffect, StepKinds
          DEF Inv, NamesKnown, CameraExists, Doing, TypeOK, Places, Coverage
  <2>15. CASE Ends(t)
    BY <2>15, StepKinds, NamesAssumption DEF Inv, NamesKnown, Here, Made, Known, CameraExists,
       Doing, At, Ends, IsCovered, Goes, TypeOK, Steps, docs, past
  <2>. QED  BY <1>4, <2>1, <2>2, <2>3, <2>4, <2>5, <2>6, <2>7, <2>8, <2>9, <2>10, <2>11, <2>12,
     <2>13, <2>14, <2>15 DEF RequestStep
<1>5. CASE UNCHANGED vars
  BY <1>5 DEF Inv, NamesKnown, Here, Made, Known, CameraExists, Doing, At, vars
<1>. QED  BY <1>1, <1>2, <1>3, <1>4, <1>5 DEF Next

\* A new id stays with one request until it is saved.
LEMMA NewNext ==
    ASSUME Inv, [Next]_vars
    PROVE  NewIsMine'
<1>1. ASSUME NEW f \in Floors, CreateFloor(f) PROVE NewIsMine'
  BY <1>1, NamesAssumption DEF Inv, NewIsMine, CameraExists, Doing, At, CreateFloor, TypeOK,
     past
<1>2. ASSUME NEW f \in Floors, NEW route \in SUBSET APs, SavePatrol(f, route) PROVE NewIsMine'
  BY <1>2, PatrolEffect DEF Inv, NewIsMine, CameraExists, Doing, At
<1>3. CASE RemoveCamera
  BY <1>3, NamesAssumption DEF Inv, NewIsMine, CameraExists, Doing, At, RemoveCamera, TypeOK
<1>4. ASSUME NEW t \in Threads, RequestStep(t) PROVE NewIsMine'
  <2>1. CASE CheckMac(t)
    BY <2>1, StepKinds, NamesAssumption DEF Inv, NewIsMine, CameraExists, Doing, At, CheckMac,
       NewAP, PlacedTwice, Goes, TypeOK, CreateSteps, Steps, docs, past
  <2>2. CASE DeriveMetres(t)
    BY <2>2, StepKinds, NamesAssumption DEF Inv, NewIsMine, CameraExists, Doing, At,
       DeriveMetres, Advances, Goes, TypeOK, CreateSteps, Steps, docs, past
  <2>3. CASE SaveAP(t)
    <3>1. \A u \in Threads : Doing(u, "create_ap") => request[u].ap \in APs
      BY StepKinds DEF Inv, CreateSteps
    <3>. QED  BY <2>3, <3>1, SaveEffect DEF Inv, NewIsMine, CameraExists, Doing, At
  <2>4. CASE CheckLink(t)
    BY <2>4, StepKinds, NamesAssumption DEF Inv, NewIsMine, CameraExists, Doing, At, CheckLink,
       CanLink, Goes, TypeOK, LinkSteps, Steps, docs, past
  <2>5. CASE SaveLink(t)
    BY <2>5, LinkEffect DEF Inv, NewIsMine, CameraExists, Doing, At, Astray
  <2>6. CASE ReadRoute(t)
    BY <2>6, StepKinds, NamesAssumption DEF Inv, NewIsMine, CameraExists, Doing, At, ReadRoute,
       Named, ToDelete, Goes, TypeOK, DeleteSteps, Steps, docs, past
  <2>7. CASE Unroute(t)
    BY <2>7, UnrouteEffect DEF Inv, NewIsMine, CameraExists, Doing, At
  <2>8. CASE DeleteAP(t)
    <3>1. \A u \in Threads : Doing(u, "create_ap") => request[u].ap \in APs
      BY StepKinds DEF Inv, CreateSteps
    <3>. QED  BY <2>8, <3>1, DeleteEffect DEF Inv, NewIsMine, CameraExists, Doing, At
  <2>9. CASE ListCameras(t)
    BY <2>9, StepKinds, NamesAssumption DEF Inv, NewIsMine, CameraExists, Doing, At,
       ListCameras, Advances, IsCovered, Goes, TypeOK, DeleteSteps, Steps, docs, past
  <2>10. CASE Unlink(t)
    <3>1. camera # Unmade /\ CameraExists /\ camera \in Coverage
      BY <2>10 DEF Unlink, CameraExists, Inv, TypeOK
    <3>2. camera' \in Coverage /\ camera'.floor = camera.floor
      BY <2>10, <3>1 DEF Unlink, Coverage
    <3>3. camera' # Unmade  BY <3>2, NamesAssumption
    <3>4. request'[t] = Idle /\ (\A u \in Threads \ {t} : request'[u] = request[u]) /\ aps' = aps
      BY <2>10 DEF Unlink, Goes, Inv, TypeOK
    <3>. QED  BY <3>1, <3>2, <3>3, <3>4 DEF Inv, NewIsMine, Doing, At
  <2>11. CASE ListAPs(t)
    BY <2>11, StepKinds, NamesAssumption DEF Inv, NewIsMine, CameraExists, Doing, At, ListAPs,
       Goes, TypeOK, CloseSteps, Steps, docs, past
  <2>12. CASE EmptyFloor(t)
    <3>1. PICK a \in APs :
             /\ aps[a] # Unmade /\ At(t, "delete_floor", "aps")
             /\ \A b \in APs \ {a} : aps'[b] = aps[b]
             /\ request'[t] # Idle /\ request'[t].op = "delete_floor"
             /\ \A u \in Threads \ {t} : request'[u] = request[u]
             /\ UNCHANGED camera
      BY <2>12, EmptyEffect DEF Inv
    <3>2. ASSUME NEW u \in Threads, Doing(u, "create_ap") PROVE request[u].ap \in APs \ {a}
      BY <3>1, <3>2, StepKinds DEF Inv, NewIsMine, CreateSteps
    <3>. QED  BY <3>1, <3>2 DEF Inv, NewIsMine, CameraExists, Doing, At
  <2>13. CASE DeleteCameras(t)
    BY <2>13, StepKinds, NamesAssumption DEF Inv, NewIsMine, CameraExists, Doing, At,
       DeleteCameras, Advances, Goes, TypeOK, CloseSteps, Steps, docs, past
  <2>14. CASE DeleteFloor(t)
    BY <2>14, FloorEffect DEF Inv, NewIsMine, CameraExists, Doing, At
  <2>15. CASE Ends(t)
    BY <2>15, StepKinds, NamesAssumption DEF Inv, NewIsMine, CameraExists, Doing, At, Ends,
       IsCovered, Goes, TypeOK, Steps, docs, past
  <2>. QED  BY <1>4, <2>1, <2>2, <2>3, <2>4, <2>5, <2>6, <2>7, <2>8, <2>9, <2>10, <2>11, <2>12,
     <2>13, <2>14, <2>15 DEF RequestStep
<1>5. CASE UNCHANGED vars
  BY <1>5 DEF Inv, NewIsMine, CameraExists, Doing, At, vars
<1>. QED  BY <1>1, <1>2, <1>3, <1>4, <1>5 DEF Next

\* The route lets an access point go before it is deleted.
LEMMA LeavingNext ==
    ASSUME Inv, [Next]_vars
    PROVE  LeavingIsOff'
<1>1. ASSUME NEW f \in Floors, CreateFloor(f) PROVE LeavingIsOff'
  BY <1>1, NamesAssumption DEF Inv, LeavingIsOff, Here, Known, NamesKnown, Exists, Leaving,
     Doing, At, CreateFloor, TypeOK, past
<1>2. ASSUME NEW f \in Floors, NEW route \in SUBSET APs, SavePatrol(f, route) PROVE LeavingIsOff'
  <2>1. \A b \in route : b \in strays' \/ (Exists(b) /\ ~ Leaving(b))
    BY <1>2, PatrolEffect DEF Inv
  <2>2. ASSUME NEW t \in Threads, Doing(t, "delete_ap"),
               request[t].do # "unroute", Here(request[t].floor)'
        PROVE  request[t].ap \notin floors'[request[t].floor] \ strays'
    <3>1. request[t].ap \in Known(request[t].floor) /\ request[t].floor \in Floors
          /\ request[t].ap \in APs
      BY <2>2, StepKinds DEF Inv, NamesKnown, Known, Doing
    <3>2. CASE request[t].floor = f
      BY <1>2, <2>1, <2>2, <3>2, PatrolEffect DEF Inv, Leaving
    <3>3. CASE request[t].floor # f
      <4>1. /\ floors'[request[t].floor] = floors[request[t].floor]
            /\ Here(request[t].floor) /\ floors[f] \subseteq Known(f)
        BY <1>2, <2>2, <3>1, <3>3, PatrolEffect DEF Inv, Here, NamesKnown
      <4>2. request[t].ap \notin floors[f]  BY <3>1, <3>3, <4>1 DEF Known
      <4>3. request[t].ap \in strays => request[t].ap \in strays'
        BY <1>2, <4>2, PatrolEffect DEF Inv
      <4>. QED  BY <2>2, <4>1, <4>3 DEF Inv, LeavingIsOff
    <3>. QED  BY <3>2, <3>3
  <2>3. UNCHANGED <<request, aps>>  BY <1>2, PatrolEffect DEF Inv
  <2>. QED  BY <2>2, <2>3 DEF Inv, LeavingIsOff, Doing, Exists, Here
<1>3. CASE RemoveCamera
  BY <1>3, NamesAssumption DEF Inv, LeavingIsOff, Here, Known, NamesKnown, Exists, Leaving,
     Doing, At, RemoveCamera, TypeOK
<1>4. ASSUME NEW t \in Threads, RequestStep(t) PROVE LeavingIsOff'
  <2>1. CASE CheckMac(t)
    BY <2>1, StepKinds, NamesAssumption DEF Inv, LeavingIsOff, Here, Known, NamesKnown, Exists,
       Leaving, Doing, At, CheckMac, NewAP, PlacedTwice, Goes, TypeOK, CreateSteps, Steps,
       docs, past
  <2>2. CASE DeriveMetres(t)
    BY <2>2, StepKinds, NamesAssumption DEF Inv, LeavingIsOff, Here, Known, NamesKnown, Exists,
       Leaving, Doing, At, DeriveMetres, Advances, Goes, TypeOK, CreateSteps, Steps, docs, past
  <2>3. CASE SaveAP(t)
    BY <2>3, SaveEffect DEF Inv, LeavingIsOff, Here, Known, NamesKnown, Exists, Leaving, Doing,
       At, Astray
  <2>4. CASE CheckLink(t)
    BY <2>4, StepKinds, NamesAssumption DEF Inv, LeavingIsOff, Here, Known, NamesKnown, Exists,
       Leaving, Doing, At, CheckLink, CanLink, Goes, TypeOK, LinkSteps, Steps, docs, past
  <2>5. CASE SaveLink(t)
    BY <2>5, LinkEffect DEF Inv, LeavingIsOff, Here, Known, NamesKnown, Exists, Leaving, Doing,
       At, Astray
  <2>6. CASE ReadRoute(t)
    BY <2>6, StepKinds, NamesAssumption DEF Inv, LeavingIsOff, Here, Known, NamesKnown, Exists,
       Leaving, Doing, At, ReadRoute, Named, ToDelete, Goes, TypeOK, DeleteSteps, Steps, docs,
       past
  <2>7. CASE Unroute(t)
    <3>1. /\ request[t].floor \in Floors /\ Here(request[t].floor)
          /\ floors[request[t].floor] \subseteq Known(request[t].floor)
      BY <2>7, UnrouteEffect DEF Inv, NamesKnown
    <3>2. ASSUME NEW u \in Threads, Doing(u, "delete_ap")', request'[u].do # "unroute",
                 floors'[request'[u].floor] \notin {Unmade, Gone}
          PROVE  request'[u].ap \notin floors'[request'[u].floor] \ strays'
      <4>1. CASE u = t  BY <2>7, <4>1, UnrouteEffect DEF Inv
      <4>2. CASE u # t
        <5>1. request'[u] = request[u] /\ Doing(u, "delete_ap")
          BY <2>7, <3>2, <4>2, UnrouteEffect DEF Inv, Doing
        <5>2. /\ request[u].floor \in Floors /\ request[u].ap \in Known(request[u].floor)
          BY <5>1, StepKinds DEF Inv, NamesKnown, Doing
        <5>3. CASE request[u].floor = request[t].floor
          BY <2>7, <4>2, <5>1, <5>3, UnrouteEffect DEF Inv
        <5>4. CASE request[u].floor # request[t].floor
          <6>1. floors'[request[u].floor] = floors[request[u].floor]
            BY <2>7, <5>2, <5>4, UnrouteEffect DEF Inv
          <6>2. request[u].ap \notin floors[request[t].floor]
            BY <3>1, <5>2, <5>4 DEF Known
          <6>3. request[u].ap \in strays => request[u].ap \in strays'
            BY <2>7, <6>2, UnrouteEffect DEF Inv
          <6>. QED  BY <3>2, <5>1, <6>1, <6>3 DEF Inv, LeavingIsOff, Here
        <5>. QED  BY <5>3, <5>4
      <4>. QED  BY <4>1, <4>2
    <3>3. \A u \in Threads : Doing(u, "delete_ap")' =>
             /\ request'[u].do \in {"unlink", "write"} => ~ Exists(request'[u].ap)
             /\ request'[u].ap \notin request'[u].rest
      BY <2>7, UnrouteEffect DEF Inv, LeavingIsOff, Doing
    <3>4. UNCHANGED aps  BY <2>7, UnrouteEffect DEF Inv
    <3>. QED  BY <3>2, <3>3, <3>4 DEF LeavingIsOff, Here, Exists
  <2>8. CASE DeleteAP(t)
    BY <2>8, DeleteEffect DEF Inv, LeavingIsOff, Here, Known, NamesKnown, Exists, Leaving,
       Doing, At
  <2>9. CASE ListCameras(t)
    BY <2>9, StepKinds, NamesAssumption DEF Inv, LeavingIsOff, Here, Known, NamesKnown, Exists,
       Leaving, Doing, At, ListCameras, Advances, IsCovered, Goes, TypeOK, DeleteSteps, Steps,
       docs, past
  <2>10. CASE Unlink(t)
    BY <2>10, StepKinds, NamesAssumption DEF Inv, LeavingIsOff, Here, Known, NamesKnown,
       Exists, Leaving, Doing, At, Unlink, Goes, TypeOK, DeleteSteps, Steps, docs, past
  <2>11. CASE ListAPs(t)
    BY <2>11, StepKinds, NamesAssumption DEF Inv, LeavingIsOff, Here, Known, NamesKnown,
       Exists, Leaving, Doing, At, ListAPs, Goes, TypeOK, CloseSteps, Steps, docs, past
  <2>12. CASE EmptyFloor(t)
    BY <2>12, EmptyEffect DEF Inv, LeavingIsOff, Here, Known, NamesKnown, Exists, Leaving,
       Doing, At
  <2>13. CASE DeleteCameras(t)
    BY <2>13, StepKinds, NamesAssumption DEF Inv, LeavingIsOff, Here, Known, NamesKnown,
       Exists, Leaving, Doing, At, DeleteCameras, Advances, Goes, TypeOK, CloseSteps, Steps,
       docs, past
  <2>14. CASE DeleteFloor(t)
    <3>1. /\ request[t].floor \in Floors /\ floors'[request[t].floor] = Gone
          /\ \A g \in Floors \ {request[t].floor} : floors'[g] = floors[g]
          /\ request'[t] = Idle /\ (\A u \in Threads \ {t} : request'[u] = request[u])
          /\ strays' = IF Here(request[t].floor) THEN strays \ floors[request[t].floor] ELSE strays
          /\ aps' = aps
      BY <2>14, FloorEffect DEF Inv
    <3>2. ASSUME NEW u \in Threads \ {t}, Doing(u, "delete_ap"), request[u].do # "unroute",
                 floors'[request[u].floor] \notin {Unmade, Gone}
          PROVE  request[u].ap \notin floors'[request[u].floor] \ strays'
      <4>1. /\ request[u].floor \in Floors \ {request[t].floor}
            /\ request[u].ap \in Known(request[u].floor)
        BY <3>1, <3>2, StepKinds DEF Inv, NamesKnown, Doing
      <4>2. floors'[request[u].floor] = floors[request[u].floor]  BY <3>1, <4>1
      <4>3. Here(request[t].floor) => request[u].ap \notin floors[request[t].floor]
        BY <3>1, <4>1 DEF Inv, NamesKnown, Known
      <4>4. request[u].ap \in strays => request[u].ap \in strays'  BY <3>1, <4>3
      <4>. QED  BY <3>2, <4>2, <4>4 DEF Inv, LeavingIsOff, Here
    <3>. QED  BY <3>1, <3>2 DEF Inv, LeavingIsOff, Doing, Here, Exists
  <2>15. CASE Ends(t)
    BY <2>15, StepKinds, NamesAssumption DEF Inv, LeavingIsOff, Here, Known, NamesKnown,
       Exists, Leaving, Doing, At, Ends, IsCovered, Goes, TypeOK, Steps, docs, past
  <2>. QED  BY <1>4, <2>1, <2>2, <2>3, <2>4, <2>5, <2>6, <2>7, <2>8, <2>9, <2>10, <2>11, <2>12,
     <2>13, <2>14, <2>15 DEF RequestStep
<1>5. CASE UNCHANGED vars
  BY <1>5 DEF Inv, LeavingIsOff, Here, Known, NamesKnown, Exists, Leaving, Doing, At, vars
<1>. QED  BY <1>1, <1>2, <1>3, <1>4, <1>5 DEF Next

\* A delete of a floor misses nothing but what came late.
LEMMA ClosingNext ==
    ASSUME Inv, [Next]_vars
    PROVE  ClosingEmpties'
<1>1. ASSUME NEW f \in Floors, CreateFloor(f) PROVE ClosingEmpties'
  BY <1>1, NamesAssumption DEF Inv, ClosingEmpties, APsOn, Exists, CameraExists, Doing, At,
     CreateFloor, TypeOK, past
<1>2. ASSUME NEW f \in Floors, NEW route \in SUBSET APs, SavePatrol(f, route) PROVE ClosingEmpties'
  BY <1>2, PatrolEffect DEF Inv, ClosingEmpties, APsOn, Exists, CameraExists, Doing, At
<1>3. CASE RemoveCamera
  BY <1>3, NamesAssumption DEF Inv, ClosingEmpties, APsOn, Exists, CameraExists, Doing, At,
     RemoveCamera, TypeOK
<1>4. ASSUME NEW t \in Threads, RequestStep(t) PROVE ClosingEmpties'
  <2>1. CASE CheckMac(t)
    BY <2>1, StepKinds, NamesAssumption DEF Inv, ClosingEmpties, APsOn, Exists, CameraExists,
       Doing, At, CheckMac, NewAP, PlacedTwice, Goes, TypeOK, CreateSteps, Steps, docs, past
  <2>2. CASE DeriveMetres(t)
    BY <2>2, StepKinds, NamesAssumption DEF Inv, ClosingEmpties, APsOn, Exists, CameraExists,
       Doing, At, DeriveMetres, Advances, Goes, TypeOK, CreateSteps, Steps, docs, past
  <2>3. CASE SaveAP(t)
    <3> DEFINE a == request[t].ap
    <3>1. /\ aps[a] = Unmade /\ aps'[a].floor = request[t].floor
          /\ \A b \in APs \ {a} : aps'[b] = aps[b]
          /\ Doing(t, "create_ap") /\ late' = Astray(a, request[t].floor) /\ camera' = camera
          /\ request'[t] = Idle /\ (\A u \in Threads \ {t} : request'[u] = request[u])
      BY <2>3, SaveEffect DEF Inv
    <3>2. \A f : a \notin APsOn(f) /\ APsOn(f)' \subseteq APsOn(f) \cup {a}
      BY <3>1 DEF APsOn, Exists
    <3>3. \A f : a \in APsOn(f)' => f = request[t].floor  BY <3>1 DEF APsOn
    <3>4. late \ {a} \subseteq late' /\ (Closing(request[t].floor) => a \in late')
      BY <3>1 DEF Astray
    <3>5. Cam \in late => Cam \in late'
      BY <3>4, <2>3, SaveEffect, NamesAssumption DEF Inv
    <3>6. ASSUME NEW u \in Threads \ {t}, Doing(u, "delete_floor")
          PROVE  a \in APsOn(request[u].floor)' => a \in late'
      <4>1. request'[u] = request[u]  BY <3>1
      <4>2. a \in APsOn(request[u].floor)' => request[u].floor = request[t].floor
        BY <3>1, <4>1 DEF APsOn
      <4>. QED  BY <3>4, <3>6, <4>1, <4>2 DEF Closing
    <3>. HIDE DEF a
    <3>. QED  BY <3>1, <3>2, <3>4, <3>5, <3>6 DEF Inv, ClosingEmpties, CameraExists, Doing, At
  <2>4. CASE CheckLink(t)
    BY <2>4, StepKinds, NamesAssumption DEF Inv, ClosingEmpties, APsOn, Exists, CameraExists,
       Doing, At, CheckLink, CanLink, Goes, TypeOK, LinkSteps, Steps, docs, past
  <2>5. CASE SaveLink(t)
    <3>1. /\ camera'.floor = request[t].floor /\ CameraExists'
          /\ request[t].do = "update" => CameraExists /\ camera.floor = request[t].floor
                                           /\ late' = late
          /\ request[t].do = "create" => late' = Astray(Cam, request[t].floor)
          /\ request[t].do \in {"create", "update"} /\ aps' = aps
          /\ request'[t] = Idle /\ (\A u \in Threads \ {t} : request'[u] = request[u])
      BY <2>5, LinkEffect DEF Inv, NewIsMine, At
    <3>2. late \subseteq late' \cup {Cam} /\ (APs \cap late) \subseteq late'
      BY <3>1, NamesAssumption DEF Astray
    <3>3. \A u \in Threads : Doing(u, "delete_floor") => Closing(request[u].floor)
      BY DEF Closing
    <3>4. \A f : APsOn(f)' = APsOn(f) /\ APsOn(f) \subseteq APs  BY <3>1 DEF APsOn, Exists
    <3>5. \A u \in Threads : At(u, "delete_floor", "floor") /\ camera'.floor = request[u].floor
            => Cam \in late'
      BY <3>1, <3>3 DEF Inv, ClosingEmpties, Astray, At
    <3>. QED  BY <3>1, <3>2, <3>4, <3>5 DEF Inv, ClosingEmpties, Doing, At
  <2>6. CASE ReadRoute(t)
    BY <2>6, StepKinds, NamesAssumption DEF Inv, ClosingEmpties, APsOn, Exists, CameraExists,
       Doing, At, ReadRoute, Named, ToDelete, Goes, TypeOK, DeleteSteps, Steps, docs, past
  <2>7. CASE Unroute(t)
    BY <2>7, UnrouteEffect DEF Inv, ClosingEmpties, APsOn, Exists, CameraExists, Doing, At
  <2>8. CASE DeleteAP(t)
    <3>1. \A f : APsOn(f)' = APsOn(f) \ {request[t].ap}
      BY <2>8, DeleteEffect DEF Inv, APsOn, Exists
    <3>2. Cam \in late => Cam \in late'  BY <2>8, DeleteEffect, NamesAssumption DEF Inv
    <3>. QED  BY <2>8, <3>1, <3>2, DeleteEffect DEF Inv, ClosingEmpties, CameraExists, Doing, At
  <2>9. CASE ListCameras(t)
    BY <2>9, StepKinds, NamesAssumption DEF Inv, ClosingEmpties, APsOn, Exists, CameraExists,
       Doing, At, ListCameras, Advances, IsCovered, Goes, TypeOK, DeleteSteps, Steps, docs,
       past
  <2>10. CASE Unlink(t)
    BY <2>10, StepKinds, NamesAssumption DEF Inv, ClosingEmpties, APsOn, Exists, CameraExists,
       Doing, At, Unlink, Goes, TypeOK, DeleteSteps, Steps, docs, past
  <2>11. CASE ListAPs(t)
    BY <2>11, StepKinds, NamesAssumption DEF Inv, ClosingEmpties, APsOn, Exists, CameraExists,
       Doing, At, ListAPs, Goes, TypeOK, CloseSteps, Steps, docs, past
  <2>12. CASE EmptyFloor(t)
    <3>1. PICK a \in request[t].rest :
             /\ At(t, "delete_floor", "aps") /\ a \in APs
             /\ aps'[a].mac = NoMac /\ aps'[a].floor = aps[a].floor /\ aps[a] # Unmade
             /\ \A b \in APs \ {a} : aps'[b] = aps[b]
             /\ request'[t] # Idle /\ request'[t].op = "delete_floor"
             /\ request'[t].do = "aps" /\ request'[t].floor = request[t].floor
             /\ request'[t].rest = request[t].rest \ {a}
             /\ \A u \in Threads \ {t} : request'[u] = request[u]
             /\ late' = late \ {a} /\ camera' = camera
      BY <2>12, EmptyEffect DEF Inv
    <3>2. \A f : APsOn(f)' = APsOn(f) \ {a}  BY <3>1 DEF APsOn, Exists
    <3>3. Cam \in late => Cam \in late'  BY <3>1, NamesAssumption
    <3>. QED  BY <3>1, <3>2, <3>3 DEF Inv, ClosingEmpties, CameraExists, Doing, At
  <2>13. CASE DeleteCameras(t)
    BY <2>13, StepKinds, NamesAssumption DEF Inv, ClosingEmpties, APsOn, Exists, CameraExists,
       Doing, At, DeleteCameras, Advances, Goes, TypeOK, CloseSteps, Steps, docs, past
  <2>14. CASE DeleteFloor(t)
    BY <2>14, FloorEffect DEF Inv, ClosingEmpties, APsOn, Exists, CameraExists, Doing, At
  <2>15. CASE Ends(t)
    BY <2>15, StepKinds, NamesAssumption DEF Inv, ClosingEmpties, APsOn, Exists, CameraExists,
       Doing, At, Ends, IsCovered, Goes, TypeOK, Steps, docs, past
  <2>. QED  BY <1>4, <2>1, <2>2, <2>3, <2>4, <2>5, <2>6, <2>7, <2>8, <2>9, <2>10, <2>11, <2>12,
     <2>13, <2>14, <2>15 DEF RequestStep
<1>5. CASE UNCHANGED vars
  BY <1>5 DEF Inv, ClosingEmpties, APsOn, Exists, CameraExists, Doing, At, vars
<1>. QED  BY <1>1, <1>2, <1>3, <1>4, <1>5 DEF Next

\* A MAC placed twice was noted when the second looked it up.
LEMMA RacesNext ==
    ASSUME Inv, [Next]_vars
    PROVE  RacesNoted'
<1>1. ASSUME NEW f \in Floors, CreateFloor(f) PROVE RacesNoted'
  BY <1>1, NamesAssumption DEF Inv, RacesNoted, MacTaken, Exists, Doing, At, CreateFloor,
     TypeOK, past
<1>2. ASSUME NEW f \in Floors, NEW route \in SUBSET APs, SavePatrol(f, route) PROVE RacesNoted'
  BY <1>2, PatrolEffect DEF Inv, RacesNoted, MacTaken, Exists, Doing, At
<1>3. CASE RemoveCamera
  BY <1>3, NamesAssumption DEF Inv, RacesNoted, MacTaken, Exists, Doing, At, RemoveCamera,
     TypeOK
<1>4. ASSUME NEW t \in Threads, RequestStep(t) PROVE RacesNoted'
  <2>1. CASE CheckMac(t)
    BY <2>1, StepKinds, NamesAssumption DEF Inv, RacesNoted, MacTaken, Exists, Doing, At,
       CheckMac, NewAP, PlacedTwice, Goes, TypeOK, CreateSteps, Steps, docs, past
  <2>2. CASE DeriveMetres(t)
    BY <2>2, StepKinds, NamesAssumption DEF Inv, RacesNoted, MacTaken, Exists, Doing, At,
       DeriveMetres, Advances, Goes, TypeOK, CreateSteps, Steps, docs, past
  <2>3. CASE SaveAP(t)
    BY <2>3, SaveEffect DEF Inv, RacesNoted, MacTaken, Exists, Doing, At, Astray
  <2>4. CASE CheckLink(t)
    BY <2>4, StepKinds, NamesAssumption DEF Inv, RacesNoted, MacTaken, Exists, Doing, At,
       CheckLink, CanLink, Goes, TypeOK, LinkSteps, Steps, docs, past
  <2>5. CASE SaveLink(t)
    BY <2>5, LinkEffect DEF Inv, RacesNoted, MacTaken, Exists, Doing, At, Astray
  <2>6. CASE ReadRoute(t)
    BY <2>6, StepKinds, NamesAssumption DEF Inv, RacesNoted, MacTaken, Exists, Doing, At,
       ReadRoute, Named, ToDelete, Goes, TypeOK, DeleteSteps, Steps, docs, past
  <2>7. CASE Unroute(t)
    BY <2>7, UnrouteEffect DEF Inv, RacesNoted, MacTaken, Exists, Doing, At
  <2>8. CASE DeleteAP(t)
    BY <2>8, DeleteEffect DEF Inv, RacesNoted, MacTaken, Exists, Doing, At
  <2>9. CASE ListCameras(t)
    BY <2>9, StepKinds, NamesAssumption DEF Inv, RacesNoted, MacTaken, Exists, Doing, At,
       ListCameras, Advances, IsCovered, Goes, TypeOK, DeleteSteps, Steps, docs, past
  <2>10. CASE Unlink(t)
    BY <2>10, StepKinds, NamesAssumption DEF Inv, RacesNoted, MacTaken, Exists, Doing, At,
       Unlink, Goes, TypeOK, DeleteSteps, Steps, docs, past
  <2>11. CASE ListAPs(t)
    BY <2>11, StepKinds, NamesAssumption DEF Inv, RacesNoted, MacTaken, Exists, Doing, At,
       ListAPs, Goes, TypeOK, CloseSteps, Steps, docs, past
  <2>12. CASE EmptyFloor(t)
    BY <2>12, EmptyEffect DEF Inv, RacesNoted, MacTaken, Exists, Doing, At
  <2>13. CASE DeleteCameras(t)
    BY <2>13, StepKinds, NamesAssumption DEF Inv, RacesNoted, MacTaken, Exists, Doing, At,
       DeleteCameras, Advances, Goes, TypeOK, CloseSteps, Steps, docs, past
  <2>14. CASE DeleteFloor(t)
    BY <2>14, FloorEffect DEF Inv, RacesNoted, MacTaken, Exists, Doing, At
  <2>15. CASE Ends(t)
    BY <2>15, StepKinds, NamesAssumption DEF Inv, RacesNoted, MacTaken, Exists, Doing, At,
       Ends, IsCovered, Goes, TypeOK, Steps, docs, past
  <2>. QED  BY <1>4, <2>1, <2>2, <2>3, <2>4, <2>5, <2>6, <2>7, <2>8, <2>9, <2>10, <2>11, <2>12,
     <2>13, <2>14, <2>15 DEF RequestStep
<1>5. CASE UNCHANGED vars
  BY <1>5 DEF Inv, RacesNoted, MacTaken, Exists, Doing, At, vars
<1>. QED  BY <1>1, <1>2, <1>3, <1>4, <1>5 DEF Next

\* A route names what exists.
LEMMA RoutesNext ==
    ASSUME Inv, [Next]_vars
    PROVE  RouteNamesExisting'
<1>1. ASSUME NEW f \in Floors, CreateFloor(f) PROVE RouteNamesExisting'
  BY <1>1, NamesAssumption DEF Inv, RouteNamesExisting, Here, Exists, Closing, Doing, At,
     CreateFloor, TypeOK, past
<1>2. ASSUME NEW f \in Floors, NEW route \in SUBSET APs, SavePatrol(f, route)
      PROVE  RouteNamesExisting'
  <2>1. \A b \in route : b \in strays' \/ Exists(b)
    BY <1>2, PatrolEffect DEF Inv
  <2>2. ASSUME NEW g \in Floors \ {f}, Here(g)
        PROVE  floors'[g] \ strays' \subseteq floors[g] \ strays
    <3>1. floors[g] \subseteq Known(g) /\ floors[f] \subseteq Known(f)
      BY <1>2, <2>2, PatrolEffect DEF Inv, NamesKnown
    <3>2. floors[g] \cap floors[f] = {}  BY <3>1 DEF Known
    <3>. QED  BY <1>2, <3>2, PatrolEffect DEF Inv
  <2>3. /\ floors'[f] = route /\ \A g \in Floors \ {f} : floors'[g] = floors[g]
        /\ UNCHANGED <<aps, request, half>>
    BY <1>2, PatrolEffect DEF Inv
  <2>. QED  BY <2>1, <2>2, <2>3 DEF Inv, RouteNamesExisting, Here, Exists, Closing, Doing
<1>3. CASE RemoveCamera
  BY <1>3, NamesAssumption DEF Inv, RouteNamesExisting, Here, Exists, Closing, Doing, At,
     RemoveCamera, TypeOK
<1>4. ASSUME NEW t \in Threads, RequestStep(t) PROVE RouteNamesExisting'
  <2>1. CASE CheckMac(t)
    BY <2>1, StepKinds, NamesAssumption DEF Inv, RouteNamesExisting, Here, Exists, Closing,
       Doing, At, CheckMac, NewAP, PlacedTwice, Goes, TypeOK, CreateSteps, Steps, docs, past
  <2>2. CASE DeriveMetres(t)
    BY <2>2, StepKinds, NamesAssumption DEF Inv, RouteNamesExisting, Here, Exists, Closing,
       Doing, At, DeriveMetres, Advances, Goes, TypeOK, CreateSteps, Steps, docs, past
  <2>3. CASE SaveAP(t)
    <3>1. /\ \A b \in APs : Exists(b) => Exists(b)'
          /\ Doing(t, "create_ap") /\ request'[t] = Idle
          /\ \A u \in Threads \ {t} : request'[u] = request[u]
          /\ UNCHANGED <<floors, strays, half>>
      BY <2>3, SaveEffect DEF Inv, Exists
    <3>2. \A g \in Floors : Closing(g)' <=> Closing(g)  BY <3>1 DEF Closing, Doing
    <3>3. \A g \in Floors : Here(g) => floors[g] \subseteq APs  BY DEF Inv, NamesKnown, Known
    <3>. QED  BY <3>1, <3>2, <3>3 DEF Inv, RouteNamesExisting, Here
  <2>4. CASE CheckLink(t)
    BY <2>4, StepKinds, NamesAssumption DEF Inv, RouteNamesExisting, Here, Exists, Closing,
       Doing, At, CheckLink, CanLink, Goes, TypeOK, LinkSteps, Steps, docs, past
  <2>5. CASE SaveLink(t)
    BY <2>5, LinkEffect DEF Inv, RouteNamesExisting, Here, Exists, Closing, Doing, At, Astray
  <2>6. CASE ReadRoute(t)
    BY <2>6, StepKinds, NamesAssumption DEF Inv, RouteNamesExisting, Here, Exists, Closing,
       Doing, At, ReadRoute, Named, ToDelete, Goes, TypeOK, DeleteSteps, Steps, docs, past
  <2>7. CASE Unroute(t)
    <3>1. \A b \in floors'[request[t].floor] : b \in strays' \/ Exists(b)
      BY <2>7, UnrouteEffect DEF Inv
    <3>2. ASSUME NEW g \in Floors \ {request[t].floor}, Here(g)
          PROVE  floors'[g] \ strays' \subseteq floors[g] \ strays
      <4>1. /\ floors[g] \subseteq Known(g)
            /\ floors[request[t].floor] \subseteq Known(request[t].floor)
        BY <2>7, <3>2, UnrouteEffect DEF Inv, NamesKnown
      <4>2. floors[g] \cap floors[request[t].floor] = {}  BY <4>1 DEF Known
      <4>. QED  BY <2>7, <4>2, UnrouteEffect DEF Inv
    <3>3. /\ \A g \in Floors \ {request[t].floor} : floors'[g] = floors[g]
          /\ Doing(t, "delete_ap") /\ Doing(t, "delete_ap")'
          /\ \A u \in Threads \ {t} : request'[u] = request[u]
          /\ UNCHANGED <<aps, half>>
      BY <2>7, UnrouteEffect DEF Inv, Doing
    <3>4. \A g \in Floors : Closing(g)' <=> Closing(g)  BY <3>3 DEF Closing, Doing
    <3>. QED  BY <3>1, <3>2, <3>3, <3>4 DEF Inv, RouteNamesExisting, Here, Exists
  <2>8. CASE DeleteAP(t)
    <3>1. ASSUME NEW g \in Floors, Here(g) PROVE request[t].ap \notin floors[g] \ strays
      BY <2>8, <3>1, DeleteEffect DEF Inv, NamesKnown, LeavingIsOff, Known, At, Here
    <3>2. /\ \A b \in APs \ {request[t].ap} : aps'[b] = aps[b]
          /\ Doing(t, "delete_ap") /\ Doing(t, "delete_ap")'
          /\ \A u \in Threads \ {t} : request'[u] = request[u]
          /\ UNCHANGED <<floors, strays, half>>
      BY <2>8, DeleteEffect DEF Inv, Doing, At
    <3>3. \A g \in Floors : Closing(g)' <=> Closing(g)  BY <3>2 DEF Closing, Doing
    <3>4. \A g \in Floors : Here(g) => floors[g] \subseteq APs  BY DEF Inv, NamesKnown, Known
    <3>. QED  BY <3>1, <3>2, <3>3, <3>4 DEF Inv, RouteNamesExisting, Here, Exists
  <2>9. CASE ListCameras(t)
    BY <2>9, StepKinds, NamesAssumption DEF Inv, RouteNamesExisting, Here, Exists, Closing,
       Doing, At, ListCameras, Advances, IsCovered, Goes, TypeOK, DeleteSteps, Steps, docs,
       past
  <2>10. CASE Unlink(t)
    BY <2>10, StepKinds, NamesAssumption DEF Inv, RouteNamesExisting, Here, Exists, Closing,
       Doing, At, Unlink, Goes, TypeOK, DeleteSteps, Steps, docs, past
  <2>11. CASE ListAPs(t)
    BY <2>11, StepKinds, NamesAssumption DEF Inv, RouteNamesExisting, Here, Exists, Closing,
       Doing, At, ListAPs, Goes, TypeOK, CloseSteps, Steps, docs, past
  <2>12. CASE EmptyFloor(t)
    <3>1. PICK a \in request[t].rest :
             /\ Doing(t, "delete_floor") /\ Doing(t, "delete_floor")'
             /\ request'[t].floor = request[t].floor /\ a \in Known(request[t].floor)
             /\ \A b \in APs \ {a} : aps'[b] = aps[b]
             /\ \A u \in Threads \ {t} : request'[u] = request[u]
             /\ UNCHANGED <<floors, strays, half>>
      BY <2>12, EmptyEffect DEF Inv, At, Doing, Known
    <3>2. \A g \in Floors : Closing(g)' <=> Closing(g)  BY <3>1 DEF Closing, Doing
    <3>3. ASSUME NEW g \in Floors, Here(g), ~ Closing(g)
          PROVE  floors[g] \subseteq APs \ {a}
      BY <3>1, <3>3 DEF Inv, NamesKnown, Known, Closing
    <3>. QED  BY <3>1, <3>2, <3>3 DEF Inv, RouteNamesExisting, Here, Exists
  <2>13. CASE DeleteCameras(t)
    BY <2>13, StepKinds, NamesAssumption DEF Inv, RouteNamesExisting, Here, Exists, Closing,
       Doing, At, DeleteCameras, Advances, Goes, TypeOK, CloseSteps, Steps, docs, past
  <2>14. CASE DeleteFloor(t)
    <3>1. /\ request[t].floor \in Floors /\ floors'[request[t].floor] = Gone
          /\ Doing(t, "delete_floor")
          /\ \A g \in Floors \ {request[t].floor} : floors'[g] = floors[g]
          /\ request'[t] = Idle /\ (\A u \in Threads \ {t} : request'[u] = request[u])
          /\ strays' = IF Here(request[t].floor) THEN strays \ floors[request[t].floor] ELSE strays
          /\ half' = half \ {request[t].floor} /\ aps' = aps
      BY <2>14, FloorEffect DEF Inv, At
    <3>2. ASSUME NEW g \in Floors \ {request[t].floor}, Here(g)
          PROVE  floors'[g] \ strays' \subseteq floors[g] \ strays
      BY <3>1, <3>2 DEF Inv, NamesKnown, Known
    <3>3. \A g \in Floors \ {request[t].floor} : Closing(g) => Closing(g)'
      BY <3>1 DEF Closing, Doing
    <3>. QED  BY <3>1, <3>2, <3>3 DEF Inv, RouteNamesExisting, Here, Exists
  <2>15. CASE Ends(t)
    BY <2>15, StepKinds, NamesAssumption DEF Inv, RouteNamesExisting, Here, Exists, Closing,
       Doing, At, Ends, IsCovered, Goes, TypeOK, Steps, docs, past
  <2>. QED  BY <1>4, <2>1, <2>2, <2>3, <2>4, <2>5, <2>6, <2>7, <2>8, <2>9, <2>10, <2>11, <2>12,
     <2>13, <2>14, <2>15 DEF RequestStep
<1>5. CASE UNCHANGED vars
  BY <1>5 DEF Inv, RouteNamesExisting, Here, Exists, Closing, Doing, At, vars
<1>. QED  BY <1>1, <1>2, <1>3, <1>4, <1>5 DEF Next

\* A checkpoint names what exists, or is about to be unlinked.
LEMMA LinkNext ==
    ASSUME Inv, [Next]_vars
    PROVE  LinkedExists'
<1>1. ASSUME NEW f \in Floors, CreateFloor(f) PROVE LinkedExists'
  <2>1. /\ floors[f] = Unmade /\ \A g \in Floors \ {f} : floors'[g] = floors[g]
        /\ UNCHANGED <<aps, camera, request, slipped, half>>
    BY <1>1 DEF CreateFloor, Inv, TypeOK, past
  <2>2. CameraExists => camera.floor \in Floors /\ camera.floor # f
    BY <2>1 DEF Inv, NamesKnown, Made, CameraExists, TypeOK, Coverage
  <2>. QED  BY <2>1, <2>2 DEF Inv, LinkedExists, CameraExists, Here, Exists, Closing, Leaving, Doing
<1>2. ASSUME NEW f \in Floors, NEW route \in SUBSET APs, SavePatrol(f, route) PROVE LinkedExists'
  <2>1. /\ UNCHANGED <<aps, camera, request, slipped, half>> /\ Here(f)
        /\ \A g \in Floors \ {f} : floors'[g] = floors[g]
    BY <1>2, PatrolEffect DEF Inv
  <2>2. CameraExists => camera.floor \in Floors  BY DEF Inv, CameraExists, TypeOK, Coverage
  <2>. QED  BY <2>1, <2>2 DEF Inv, LinkedExists, CameraExists, Here, Exists, Closing, Leaving, Doing
<1>3. CASE RemoveCamera
  BY <1>3, NamesAssumption DEF Inv, LinkedExists, CameraExists, Here, Exists, Closing, Leaving,
     Doing, At, RemoveCamera, TypeOK
<1>4. ASSUME NEW t \in Threads, RequestStep(t) PROVE LinkedExists'
  <2>1. CASE CheckMac(t)
    BY <2>1, StepKinds, NamesAssumption DEF Inv, LinkedExists, CameraExists, Here, Exists,
       Closing, Leaving, Doing, At, CheckMac, NewAP, PlacedTwice, Goes, TypeOK, CreateSteps,
       Steps, docs, past
  <2>2. CASE DeriveMetres(t)
    BY <2>2, StepKinds, NamesAssumption DEF Inv, LinkedExists, CameraExists, Here, Exists,
       Closing, Leaving, Doing, At, DeriveMetres, Advances, Goes, TypeOK, CreateSteps, Steps,
       docs, past
  <2>3. CASE SaveAP(t)
    <3>1. /\ \A b \in APs : Exists(b) => Exists(b)'
          /\ Doing(t, "create_ap") /\ request'[t] = Idle
          /\ \A u \in Threads \ {t} : request'[u] = request[u]
          /\ UNCHANGED <<floors, camera, slipped, half>>
      BY <2>3, SaveEffect DEF Inv, Exists
    <3>2. \A g, b : (Closing(g)' <=> Closing(g)) /\ (Leaving(b)' <=> Leaving(b))
      BY <3>1 DEF Closing, Leaving, Doing
    <3>3. CameraExists /\ camera.link # NoLink => camera.link \in APs
      BY DEF Inv, CameraExists, TypeOK, Coverage
    <3>. QED  BY <3>1, <3>2, <3>3 DEF Inv, LinkedExists, CameraExists, Here
  <2>4. CASE CheckLink(t)
    BY <2>4, StepKinds, NamesAssumption DEF Inv, LinkedExists, CameraExists, Here, Exists,
       Closing, Leaving, Doing, At, CheckLink, CanLink, Goes, TypeOK, LinkSteps, Steps, docs,
       past
  <2>5. CASE SaveLink(t)
    <3>1. /\ camera'.link = request[t].ap /\ aps' = aps
          /\ Doing(t, "link") /\ request'[t] = Idle
          /\ \A u \in Threads \ {t} : request'[u] = request[u]
          /\ slipped' = (request[t].ap # NoLink /\ (~ Exists(request[t].ap)
                                                     \/ Leaving(request[t].ap)))
      BY <2>5, LinkEffect DEF Inv
    <3>. QED  BY <3>1 DEF LinkedExists, Exists
  <2>6. CASE ReadRoute(t)
    BY <2>6, StepKinds, NamesAssumption DEF Inv, LinkedExists, CameraExists, Here, Exists,
       Closing, Leaving, Doing, At, ReadRoute, Named, ToDelete, Goes, TypeOK, DeleteSteps,
       Steps, docs, past
  <2>7. CASE Unroute(t)
    <3>1. /\ Here(request[t].floor) /\ Doing(t, "delete_ap") /\ Doing(t, "delete_ap")'
          /\ request'[t].ap = request[t].ap
          /\ \A u \in Threads \ {t} : request'[u] = request[u]
          /\ \A g \in Floors \ {request[t].floor} : floors'[g] = floors[g]
          /\ UNCHANGED <<aps, camera, slipped, half>>
      BY <2>7, UnrouteEffect DEF Inv, Doing
    <3>2. \A g, b : (Closing(g)' <=> Closing(g)) /\ (Leaving(b)' <=> Leaving(b))
      BY <3>1 DEF Closing, Leaving, Doing
    <3>3. CameraExists => camera.floor \in Floors  BY DEF Inv, CameraExists, TypeOK, Coverage
    <3>. QED  BY <3>1, <3>2, <3>3 DEF Inv, LinkedExists, CameraExists, Here, Exists
  <2>8. CASE DeleteAP(t)
    <3>1. /\ Doing(t, "delete_ap") /\ Doing(t, "delete_ap")' /\ request'[t].ap = request[t].ap
          /\ \A u \in Threads \ {t} : request'[u] = request[u]
          /\ \A b \in APs \ {request[t].ap} : aps'[b] = aps[b]
          /\ UNCHANGED <<floors, camera, slipped, half>>
      BY <2>8, DeleteEffect DEF Inv, Doing, At
    <3>2. \A g, b : (Closing(g)' <=> Closing(g)) /\ (Leaving(b)' <=> Leaving(b))
      BY <3>1 DEF Closing, Leaving, Doing
    <3>3. Leaving(request[t].ap)  BY <3>1 DEF Leaving
    <3>4. CameraExists /\ camera.link # NoLink => camera.link \in APs
      BY DEF Inv, CameraExists, TypeOK, Coverage
    <3>. QED  BY <3>1, <3>2, <3>3, <3>4 DEF Inv, LinkedExists, CameraExists, Here, Exists
  <2>9. CASE ListCameras(t)
    <3>1. /\ Doing(t, "delete_ap") /\ UNCHANGED <<floors, aps, camera, slipped, half>>
          /\ \A u \in Threads \ {t} : request'[u] = request[u]
      BY <2>9 DEF ListCameras, Goes, Advances, At, Inv, TypeOK, docs, past
    <3>2. IsCovered(t) => Doing(t, "delete_ap")' /\ request'[t].ap = request[t].ap
      BY <2>9, StepKinds, NamesAssumption
      DEF ListCameras, Goes, Advances, At, Doing, Inv, TypeOK, DeleteSteps, Steps
    <3>3. ~ IsCovered(t) => request'[t] = Idle
      BY <2>9 DEF ListCameras, Goes, Inv, TypeOK
    <3>4. CameraExists /\ camera.link # NoLink /\ camera.link = request[t].ap => IsCovered(t)
      BY <3>1 DEF IsCovered, Inv, NamesKnown, Known
    <3>5. \A g : Closing(g)' <=> Closing(g)  BY <3>1, <3>2, <3>3 DEF Closing, Doing
    <3>6. CameraExists /\ camera.link # NoLink /\ Leaving(camera.link) => Leaving(camera.link)'
      BY <3>1, <3>2, <3>4 DEF Leaving, Doing
    <3>. QED  BY <3>1, <3>5, <3>6 DEF Inv, LinkedExists, CameraExists, Here, Exists
  <2>10. CASE Unlink(t)
    BY <2>10, StepKinds, NamesAssumption DEF Inv, LinkedExists, CameraExists, Here, Exists,
       Closing, Leaving, Doing, At, Unlink, Goes, TypeOK, DeleteSteps, Steps, docs, past
  <2>11. CASE ListAPs(t)
    <3>1. /\ request[t] = Idle /\ UNCHANGED <<floors, aps, camera, slipped, half>>
          /\ \A u \in Threads \ {t} : request'[u] = request[u]
      BY <2>11 DEF ListAPs, Goes, Inv, TypeOK, docs, past
    <3>2. \A g, b : (Closing(g) => Closing(g)') /\ (Leaving(b) => Leaving(b)')
      BY <3>1 DEF Closing, Leaving, Doing
    <3>. QED  BY <3>1, <3>2 DEF Inv, LinkedExists, CameraExists, Here, Exists
  <2>12. CASE EmptyFloor(t)
    <3>1. PICK a \in request[t].rest :
             /\ Doing(t, "delete_floor") /\ Doing(t, "delete_floor")'
             /\ request'[t].floor = request[t].floor /\ a \in Known(request[t].floor)
             /\ \A b \in APs \ {a} : aps'[b] = aps[b]
             /\ \A u \in Threads \ {t} : request'[u] = request[u]
             /\ UNCHANGED <<floors, camera, slipped, half>>
      BY <2>12, EmptyEffect DEF Inv, At, Doing, Known
    <3>2. \A g, b : (Closing(g)' <=> Closing(g)) /\ (Leaving(b)' <=> Leaving(b))
      BY <3>1 DEF Closing, Leaving, Doing
    <3>3. CameraExists /\ camera.link # NoLink /\ ~ Closing(camera.floor)
             => camera.link \in APs \ {a}
      BY <3>1 DEF Inv, NamesKnown, Known, Closing
    <3>. QED  BY <3>1, <3>2, <3>3 DEF Inv, LinkedExists, CameraExists, Here, Exists
  <2>13. CASE DeleteCameras(t)
    BY <2>13, StepKinds, NamesAssumption DEF Inv, LinkedExists, CameraExists, Here, Exists,
       Closing, Leaving, Doing, At, DeleteCameras, Advances, Goes, TypeOK, CloseSteps, Steps,
       docs, past
  <2>14. CASE DeleteFloor(t)
    <3>1. /\ request[t].floor \in Floors /\ floors'[request[t].floor] = Gone
          /\ Doing(t, "delete_floor")
          /\ \A g \in Floors \ {request[t].floor} : floors'[g] = floors[g]
          /\ request'[t] = Idle /\ (\A u \in Threads \ {t} : request'[u] = request[u])
          /\ half' = half \ {request[t].floor} /\ UNCHANGED <<aps, camera, slipped>>
      BY <2>14, FloorEffect DEF Inv, At
    <3>2. /\ \A g \in Floors \ {request[t].floor} : Closing(g) => Closing(g)'
          /\ \A b : Leaving(b) => Leaving(b)'
      BY <3>1 DEF Closing, Leaving, Doing
    <3>3. CameraExists => camera.floor \in Floors  BY DEF Inv, CameraExists, TypeOK, Coverage
    <3>. QED  BY <3>1, <3>2, <3>3 DEF Inv, LinkedExists, CameraExists, Here, Exists
  <2>15. CASE Ends(t)
    <3>1. /\ request[t] # Idle /\ request'[t] = Idle /\ UNCHANGED <<floors, aps, camera>>
          /\ \A u \in Threads \ {t} : request'[u] = request[u]
          /\ half' = IF Doing(t, "delete_floor") /\ Here(request[t].floor)
                     THEN half \cup {request[t].floor} ELSE half
          /\ slipped' = (slipped \/ (Doing(t, "delete_ap") /\ IsCovered(t)
                                     /\ ~ Exists(request[t].ap)))
      BY <2>15 DEF Ends, Goes, Inv, TypeOK, docs
    <3>2. \A g \in Floors : Here(g) /\ Closing(g) => Closing(g)' \/ g \in half'
      BY <3>1 DEF Closing, Doing
    <3>3. half \subseteq half'  BY <3>1
    <3>4. ASSUME CameraExists, camera.link # NoLink, Leaving(camera.link), ~ slipped'
          PROVE  Exists(camera.link) \/ Leaving(camera.link)'
      <4>1. PICK u \in Threads : Doing(u, "delete_ap") /\ request[u].ap = camera.link
        BY <3>4 DEF Leaving
      <4>2. CASE u # t  BY <3>1, <4>1, <4>2 DEF Leaving, Doing
      <4>3. CASE u = t
        <5>1. IsCovered(t)  BY <3>4, <4>1, <4>3 DEF IsCovered, Inv, NamesKnown, Known
        <5>. QED  BY <3>1, <3>4, <4>1, <4>3, <5>1
      <4>. QED  BY <4>2, <4>3
    <3>5. CameraExists => camera.floor \in Floors  BY DEF Inv, CameraExists, TypeOK, Coverage
    <3>6. ~ slipped' => ~ slipped  BY <3>1
    <3>. QED  BY <3>1, <3>2, <3>3, <3>4, <3>5, <3>6
          DEF Inv, LinkedExists, CameraExists, Here, Exists
  <2>. QED  BY <1>4, <2>1, <2>2, <2>3, <2>4, <2>5, <2>6, <2>7, <2>8, <2>9, <2>10, <2>11, <2>12,
     <2>13, <2>14, <2>15 DEF RequestStep
<1>5. CASE UNCHANGED vars
  BY <1>5 DEF Inv, LinkedExists, CameraExists, Here, Exists, Closing, Leaving, Doing, At, vars
<1>. QED  BY <1>1, <1>2, <1>3, <1>4, <1>5 DEF Next

\* Nothing outlives its floor but what came late.
LEMMA OutlivesNext ==
    ASSUME Inv, [Next]_vars
    PROVE  NoneOutlivesFloor'
<1>1. ASSUME NEW f \in Floors, CreateFloor(f) PROVE NoneOutlivesFloor'
  BY <1>1, NamesAssumption DEF Inv, NoneOutlivesFloor, Here, Exists, CameraExists, CreateFloor,
     TypeOK, past
<1>2. ASSUME NEW f \in Floors, NEW route \in SUBSET APs, SavePatrol(f, route)
      PROVE  NoneOutlivesFloor'
  <2>1. /\ \A g \in Floors : Here(g) => Here(g)'
        /\ UNCHANGED <<aps, camera, late>>
    BY <1>2, PatrolEffect DEF Inv, Here
  <2>2. /\ \A a \in APs : Exists(a) => aps[a].floor \in Floors
        /\ CameraExists => camera.floor \in Floors
    BY DEF Inv, TypeOK, Places, Coverage, Exists, CameraExists
  <2>. QED  BY <2>1, <2>2 DEF Inv, NoneOutlivesFloor, CameraExists, Exists
<1>3. CASE RemoveCamera
  BY <1>3, NamesAssumption DEF Inv, NoneOutlivesFloor, Here, Exists, CameraExists,
     RemoveCamera, TypeOK
<1>4. ASSUME NEW t \in Threads, RequestStep(t) PROVE NoneOutlivesFloor'
  <2>1. CASE CheckMac(t)
    BY <2>1, StepKinds, NamesAssumption DEF Inv, NoneOutlivesFloor, Here, Exists, CameraExists,
       CheckMac, NewAP, PlacedTwice, Goes, TypeOK, CreateSteps, Steps, docs, past
  <2>2. CASE DeriveMetres(t)
    BY <2>2, StepKinds, NamesAssumption DEF Inv, NoneOutlivesFloor, Here, Exists, CameraExists,
       DeriveMetres, Advances, Goes, TypeOK, CreateSteps, Steps, docs, past
  <2>3. CASE SaveAP(t)
    <3> DEFINE a == request[t].ap
    <3>1. /\ a \in APs /\ aps'[a].floor = request[t].floor
          /\ \A b \in APs \ {a} : aps'[b] = aps[b]
          /\ late' = Astray(a, request[t].floor) /\ UNCHANGED <<camera, floors>>
      BY <2>3, SaveEffect DEF Inv
    <3>2. /\ late \ {a} \subseteq late' /\ (a \notin late' => Here(request[t].floor))
      BY <3>1 DEF Astray
    <3>3. Cam \in late => Cam \in late'  BY <3>1, <3>2, NamesAssumption
    <3>. HIDE DEF a
    <3>. QED  BY <3>1, <3>2, <3>3 DEF Inv, NoneOutlivesFloor, CameraExists, Exists, Here
  <2>4. CASE CheckLink(t)
    BY <2>4, StepKinds, NamesAssumption DEF Inv, NoneOutlivesFloor, Here, Exists, CameraExists,
       CheckLink, CanLink, Goes, TypeOK, LinkSteps, Steps, docs, past
  <2>5. CASE SaveLink(t)
    <3>1. /\ camera'.floor = request[t].floor
          /\ request[t].do = "update" => CameraExists /\ camera.floor = request[t].floor
                                           /\ late' = late
          /\ request[t].do = "create" => late' = Astray(Cam, request[t].floor)
          /\ request[t].do \in {"create", "update"} /\ UNCHANGED <<aps, floors>>
      BY <2>5, LinkEffect DEF Inv, NewIsMine, At
    <3>2. (APs \cap late) \subseteq late'  BY <3>1, NamesAssumption DEF Astray
    <3>3. Cam \notin late' => Here(request[t].floor)
      BY <3>1 DEF Inv, NoneOutlivesFloor, Astray
    <3>. QED  BY <3>1, <3>2, <3>3 DEF Inv, NoneOutlivesFloor, Exists, Here
  <2>6. CASE ReadRoute(t)
    BY <2>6, StepKinds, NamesAssumption DEF Inv, NoneOutlivesFloor, Here, Exists, CameraExists,
       ReadRoute, Named, ToDelete, Goes, TypeOK, DeleteSteps, Steps, docs, past
  <2>7. CASE Unroute(t)
    <3>1. /\ \A g \in Floors : Here(g) => Here(g)'
          /\ UNCHANGED <<aps, camera, late>>
      BY <2>7, UnrouteEffect DEF Inv, Here
    <3>2. /\ \A a \in APs : Exists(a) => aps[a].floor \in Floors
          /\ CameraExists => camera.floor \in Floors
      BY DEF Inv, TypeOK, Places, Coverage, Exists, CameraExists
    <3>. QED  BY <3>1, <3>2 DEF Inv, NoneOutlivesFloor, CameraExists, Exists
  <2>8. CASE DeleteAP(t)
    <3>1. /\ request[t].ap \in APs /\ aps'[request[t].ap].mac = NoMac
          /\ \A b \in APs \ {request[t].ap} : aps'[b] = aps[b]
          /\ late' = late \ {request[t].ap} /\ UNCHANGED <<camera, floors>>
      BY <2>8, DeleteEffect DEF Inv
    <3>2. Cam \in late => Cam \in late'  BY <3>1, NamesAssumption
    <3>. QED  BY <3>1, <3>2 DEF Inv, NoneOutlivesFloor, CameraExists, Exists, Here
  <2>9. CASE ListCameras(t)
    BY <2>9, StepKinds, NamesAssumption DEF Inv, NoneOutlivesFloor, Here, Exists, CameraExists,
       ListCameras, Advances, IsCovered, Goes, TypeOK, DeleteSteps, Steps, docs, past
  <2>10. CASE Unlink(t)
    BY <2>10, StepKinds, NamesAssumption DEF Inv, NoneOutlivesFloor, Here, Exists,
       CameraExists, Unlink, Goes, TypeOK, DeleteSteps, Steps, docs, past
  <2>11. CASE ListAPs(t)
    BY <2>11, StepKinds, NamesAssumption DEF Inv, NoneOutlivesFloor, Here, Exists,
       CameraExists, ListAPs, Goes, TypeOK, CloseSteps, Steps, docs, past
  <2>12. CASE EmptyFloor(t)
    <3>1. PICK a \in APs :
             /\ aps'[a].mac = NoMac /\ \A b \in APs \ {a} : aps'[b] = aps[b]
             /\ late' = late \ {a} /\ UNCHANGED <<camera, floors>>
      BY <2>12, EmptyEffect DEF Inv
    <3>2. Cam \in late => Cam \in late'  BY <3>1, NamesAssumption
    <3>. QED  BY <3>1, <3>2 DEF Inv, NoneOutlivesFloor, CameraExists, Exists, Here
  <2>13. CASE DeleteCameras(t)
    BY <2>13, StepKinds, NamesAssumption DEF Inv, NoneOutlivesFloor, Here, Exists,
       CameraExists, DeleteCameras, Advances, Goes, TypeOK, CloseSteps, Steps, docs, past
  <2>14. CASE DeleteFloor(t)
    <3>1. /\ request[t].floor \in Floors /\ At(t, "delete_floor", "floor")
          /\ \A g \in Floors \ {request[t].floor} : floors'[g] = floors[g]
          /\ UNCHANGED <<aps, camera, late>>
      BY <2>14, FloorEffect DEF Inv
    <3>2. /\ APsOn(request[t].floor) \subseteq late
          /\ CameraExists /\ camera.floor = request[t].floor => Cam \in late
      BY <3>1 DEF Inv, ClosingEmpties
    <3>3. /\ \A a \in APs : Exists(a) => aps[a].floor \in Floors
          /\ CameraExists => camera.floor \in Floors
      BY DEF Inv, TypeOK, Places, Coverage, Exists, CameraExists
    <3>. QED  BY <3>1, <3>2, <3>3 DEF Inv, NoneOutlivesFloor, APsOn, CameraExists, Exists, Here
  <2>15. CASE Ends(t)
    BY <2>15, StepKinds, NamesAssumption DEF Inv, NoneOutlivesFloor, Here, Exists,
       CameraExists, Ends, IsCovered, Goes, TypeOK, Steps, docs, past
  <2>. QED  BY <1>4, <2>1, <2>2, <2>3, <2>4, <2>5, <2>6, <2>7, <2>8, <2>9, <2>10, <2>11, <2>12,
     <2>13, <2>14, <2>15 DEF RequestStep
<1>5. CASE UNCHANGED vars
  BY <1>5 DEF Inv, NoneOutlivesFloor, Here, Exists, CameraExists, vars
<1>. QED  BY <1>1, <1>2, <1>3, <1>4, <1>5 DEF Next

\* Two access points share a MAC only after a race.
LEMMA MacsNext ==
    ASSUME Inv, [Next]_vars
    PROVE  MacsAreUnique'
<1>1. ASSUME NEW f \in Floors, CreateFloor(f) PROVE MacsAreUnique'
  BY <1>1, NamesAssumption DEF Inv, MacsAreUnique, RacesNoted, MacTaken, Exists, Doing, At,
     CreateFloor, TypeOK, past
<1>2. ASSUME NEW f \in Floors, NEW route \in SUBSET APs, SavePatrol(f, route) PROVE MacsAreUnique'
  BY <1>2, PatrolEffect DEF Inv, MacsAreUnique, RacesNoted, MacTaken, Exists, Doing, At
<1>3. CASE RemoveCamera
  BY <1>3, NamesAssumption DEF Inv, MacsAreUnique, RacesNoted, MacTaken, Exists, Doing, At,
     RemoveCamera, TypeOK
<1>4. ASSUME NEW t \in Threads, RequestStep(t) PROVE MacsAreUnique'
  <2>1. CASE CheckMac(t)
    BY <2>1, StepKinds, NamesAssumption DEF Inv, MacsAreUnique, RacesNoted, MacTaken, Exists,
       Doing, At, CheckMac, NewAP, PlacedTwice, Goes, TypeOK, CreateSteps, Steps, docs, past
  <2>2. CASE DeriveMetres(t)
    BY <2>2, StepKinds, NamesAssumption DEF Inv, MacsAreUnique, RacesNoted, MacTaken, Exists,
       Doing, At, DeriveMetres, Advances, Goes, TypeOK, CreateSteps, Steps, docs, past
  <2>3. CASE SaveAP(t)
    BY <2>3, SaveEffect DEF Inv, MacsAreUnique, RacesNoted, MacTaken, Exists, Doing, At, Astray
  <2>4. CASE CheckLink(t)
    BY <2>4, StepKinds, NamesAssumption DEF Inv, MacsAreUnique, RacesNoted, MacTaken, Exists,
       Doing, At, CheckLink, CanLink, Goes, TypeOK, LinkSteps, Steps, docs, past
  <2>5. CASE SaveLink(t)
    BY <2>5, LinkEffect DEF Inv, MacsAreUnique, RacesNoted, MacTaken, Exists, Doing, At, Astray
  <2>6. CASE ReadRoute(t)
    BY <2>6, StepKinds, NamesAssumption DEF Inv, MacsAreUnique, RacesNoted, MacTaken, Exists,
       Doing, At, ReadRoute, Named, ToDelete, Goes, TypeOK, DeleteSteps, Steps, docs, past
  <2>7. CASE Unroute(t)
    BY <2>7, UnrouteEffect DEF Inv, MacsAreUnique, RacesNoted, MacTaken, Exists, Doing, At
  <2>8. CASE DeleteAP(t)
    BY <2>8, DeleteEffect DEF Inv, MacsAreUnique, RacesNoted, MacTaken, Exists, Doing, At
  <2>9. CASE ListCameras(t)
    BY <2>9, StepKinds, NamesAssumption DEF Inv, MacsAreUnique, RacesNoted, MacTaken, Exists,
       Doing, At, ListCameras, Advances, IsCovered, Goes, TypeOK, DeleteSteps, Steps, docs,
       past
  <2>10. CASE Unlink(t)
    BY <2>10, StepKinds, NamesAssumption DEF Inv, MacsAreUnique, RacesNoted, MacTaken, Exists,
       Doing, At, Unlink, Goes, TypeOK, DeleteSteps, Steps, docs, past
  <2>11. CASE ListAPs(t)
    BY <2>11, StepKinds, NamesAssumption DEF Inv, MacsAreUnique, RacesNoted, MacTaken, Exists,
       Doing, At, ListAPs, Goes, TypeOK, CloseSteps, Steps, docs, past
  <2>12. CASE EmptyFloor(t)
    BY <2>12, EmptyEffect DEF Inv, MacsAreUnique, RacesNoted, MacTaken, Exists, Doing, At
  <2>13. CASE DeleteCameras(t)
    BY <2>13, StepKinds, NamesAssumption DEF Inv, MacsAreUnique, RacesNoted, MacTaken, Exists,
       Doing, At, DeleteCameras, Advances, Goes, TypeOK, CloseSteps, Steps, docs, past
  <2>14. CASE DeleteFloor(t)
    BY <2>14, FloorEffect DEF Inv, MacsAreUnique, RacesNoted, MacTaken, Exists, Doing, At
  <2>15. CASE Ends(t)
    BY <2>15, StepKinds, NamesAssumption DEF Inv, MacsAreUnique, RacesNoted, MacTaken, Exists,
       Doing, At, Ends, IsCovered, Goes, TypeOK, Steps, docs, past
  <2>. QED  BY <1>4, <2>1, <2>2, <2>3, <2>4, <2>5, <2>6, <2>7, <2>8, <2>9, <2>10, <2>11, <2>12,
     <2>13, <2>14, <2>15 DEF RequestStep
<1>5. CASE UNCHANGED vars
  BY <1>5 DEF Inv, MacsAreUnique, RacesNoted, MacTaken, Exists, Doing, At, vars
<1>. QED  BY <1>1, <1>2, <1>3, <1>4, <1>5 DEF Next

--------------------------------------------------------------------------------
LEMMA InvInit == Init => Inv
<1>. SUFFICES ASSUME Init PROVE Inv  OBVIOUS
<1>1. NamesKnown /\ NewIsMine /\ LeavingIsOff /\ ClosingEmpties /\ RacesNoted
  BY DEF Init, NamesKnown, NewIsMine, LeavingIsOff, ClosingEmpties, RacesNoted, Here, Made,
         CameraExists, Doing, At
<1>2. RouteNamesExisting /\ LinkedExists /\ NoneOutlivesFloor /\ MacsAreUnique
  BY DEF Init, RouteNamesExisting, LinkedExists, NoneOutlivesFloor, MacsAreUnique, Here,
         Exists, CameraExists
<1>. QED  BY <1>1, <1>2, TypeInit DEF Inv

LEMMA InvNext == Inv /\ [Next]_vars => Inv'
<1>. SUFFICES ASSUME Inv, [Next]_vars PROVE Inv'  OBVIOUS
<1>1. TypeOK'  BY TypeNext DEF Inv
<1>. QED  BY <1>1, NamesNext, NewNext, LeavingNext, ClosingNext, RacesNext, RoutesNext,
             LinkNext, OutlivesNext, MacsNext DEF Inv

LEMMA Invariance == Spec => []Inv
BY InvInit, InvNext, PTL DEF Spec

\* floor_service.py, cctv_service.py: for any number of floors, access points and requests
\* that overlap and fail, what a route, a checkpoint or a floor's contents name is there,
\* but for the causes that NothingDangles tells.
THEOREM WhatIsNamedExists == Spec => []NothingDangles
<1>1. Inv => NothingDangles  BY DEF Inv, NothingDangles
<1>. QED  BY <1>1, Invariance, PTL

\* floor_routes.py: two access points have one MAC only if two requests were placing it
\* at a time.
THEOREM MacsApart == Spec => []MacsAreUnique
<1>1. Inv => MacsAreUnique  BY DEF Inv
<1>. QED  BY <1>1, Invariance, PTL
=============================================================================
