------------------------ MODULE MarkerDetectionCheck ------------------------
(***************************************************************************)
(* What a vision client does with a frame, for every position of a square  *)
(* of LEDs in front of it and every subset of them that it sees.           *)
(***************************************************************************)
EXTENDS MarkerDetection

CONSTANTS
    Reach,     \* bound: the corners are at most this far from the centre
    Distances  \* bound: how far from a camera a marker is, in units of its ray

VARIABLES
    stage,     \* "start", "ready", "organized", "identified", "exited" or "matched"
    camera,    \* the fields of FXBcam
    lights,    \* what the camera sees
    markers,   \* the vector of the main loop
    rays       \* the rays cast, or, on the server, those of one match

vars == <<stage, camera, lights, markers, rays>>

(* Hue 0 is blue, 1 red, 2 neither. *)
BlueEntry == [min |-> 0, max |-> 0]
RedEntry  == [min |-> 1, max |-> 1]
HalfEntry == [min |-> 2, max |-> Nothing]
MarkerFiles ==
         {[found |-> FALSE, entries |-> <<>>]}
    \cup {[found |-> TRUE, entries |-> e] :
              e \in {<<BlueEntry, RedEntry>>, <<BlueEntry, RedEntry, HalfEntry>>,
                     <<BlueEntry, HalfEntry, RedEntry>>}}
ParameterFiles == {{}, Parameters, Parameters \ {"Tc_ext"}}

(* The corners of a square centred on the origin, clockwise in the image.  *)
Corner(a, b) == <<[x |-> a, y |-> b], [x |-> -b, y |-> a], [x |-> -a, y |-> -b], [x |-> b, y |-> -a]>>
Led(c, i, area) ==
    [x |-> c[i + 1].x, y |-> c[i + 1].y, area |-> area, color |-> IF i = 0 THEN 1 ELSE 0, led |-> i]

(* A smaller reflection of the red LED, a speck, and a light of another    *)
(* colour.                                                                 *)
Noise ==
         <<[x |-> 1, y |-> 9, area |-> 7, color |-> 1, led |-> Nothing],
            [x |-> 2, y |-> 9, area |-> 5, color |-> 0, led |-> Nothing],
            [x |-> 3, y |-> 9, area |-> 20, color |-> 2, led |-> Nothing]>>

(* The LEDs seen, in the order of their areas. *)
Scenes ==
    LET vectors == {v \in (-Reach .. Reach) \X (-Reach .. Reach) : v # <<0, 0>>}
        orders  == UNION {SetToSeqs(S) : S \in SUBSET (0 .. 3)}
        seen(v, o) == [i \in DOMAIN o |-> Led(Corner(v[1], v[2]), o[i], 20 - i)]
    IN  {seen(v, o) : v \in vectors, o \in orders}
        \cup {seen(v, o) \o Noise : v \in vectors, o \in {p \in orders : 0 \in ToSet(p)}}

Init ==
    /\ stage = "start" /\ camera = NewCamera
    /\ lights = <<>> /\ markers = <<>> /\ rays = <<>>

(* The program ends if it lacks a parameter of the camera. *)
Start ==
    /\ stage = "start"
    /\ \E parameters \in ParameterFiles, file \in MarkerFiles :
         /\ stage' = IF ReadCamPara(parameters) THEN "ready" ELSE "exited"
         /\ camera' = IF ReadCamPara(parameters) THEN ReadMarkerData(camera, file) ELSE camera
    /\ UNCHANGED <<lights, markers, rays>>

Organize ==
    /\ stage = "ready"
    /\ IF CanSegment(camera)
       THEN /\ stage' = "organized"
            /\ lights' \in Scenes
            /\ markers' = OrganizeMarkers(camera, lights')
       ELSE stage' = "exited" /\ UNCHANGED <<lights, markers>>
    /\ UNCHANGED <<camera, rays>>

Find ==
    /\ stage = "organized"
    /\ markers' \in FindSingleMarker(markers)
    /\ rays' = IF Len(markers) > 2 THEN CastRays(markers') ELSE <<>>
    /\ stage' = "identified"
    /\ UNCHANGED <<camera, lights>>

(* On the server: rays of cameras at different places, all of which go     *)
(* through one marker.                                                     *)
Directions == {<<5, 0, 0>>, <<0, 5, 0>>, <<3, 4, 0>>, <<0, 3, -4>>, <<-4, 0, 3>>}
Marker == <<2, -1, 7>>
RayFrom(d, t) == [d |-> d, o |-> [i \in Axes |-> Marker[i] - t * d[i]]]

Match ==
    /\ stage = "start"
    /\ \E S \in SUBSET Directions, t \in [Directions -> Distances] :
         /\ Cardinality(S) >= 2
         /\ rays' = [i \in 1 .. Cardinality(S) |-> RayFrom(SetToSeq(S)[i], t[SetToSeq(S)[i]])]
    /\ stage' = "matched"
    /\ UNCHANGED <<camera, lights, markers>>

Next == Start \/ Organize \/ Find \/ Match

Spec == Init /\ [][Next]_vars

-----------------------------------------------------------------------------
(* The LEDs that count: those seen in a colour that has a marker.          *)
Seen == {b \in ToSet(lights) : b.led # Nothing /\ \E m \in {0, 1} : m \in camera.table[b.color]}

(* With three or four LEDs of the square in view, whichever they are and   *)
(* however it is turned, there is one ray per LED and it carries its id,   *)
(* although only one LED can be told from the others by its colour.        *)
LedsAreIdentified ==
    stage = "identified" /\ Cardinality(Seen) >= 3 =>
        /\ Len(rays) = Cardinality(Seen)
        /\ {<<r.through, r.marker>> : r \in ToSet(rays)} = {<< <<b.x, b.y>>, b.led>> : b \in Seen}

(* Rays of different directions that meet in a marker are intersected in   *)
(* the marker: it solves the equations, and nothing else does.             *)
RaysMeetInTheMarker ==
    stage = "matched" =>
        LET A == MatrixA(rays)
        IN  /\ TimesVector(A, Marker) = VectorB(rays)
            /\   A[1][1] * (A[2][2] * A[3][3] - A[2][3] * A[3][2])
               - A[1][2] * (A[2][1] * A[3][3] - A[2][3] * A[3][1])
               + A[1][3] * (A[2][1] * A[3][2] - A[2][2] * A[3][1]) # 0

(* Both ends of a ray: the camera casts it through the right LED, and the  *)
(* server finds the LED where the rays meet.                               *)
RaysFollowLeds == LedsAreIdentified /\ RaysMeetInTheMarker
=============================================================================
