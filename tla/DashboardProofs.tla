-------------------------- MODULE DashboardProofs --------------------------
(***************************************************************************)
(* What the dashboard draws on its map and beside it is right for every    *)
(* value of the constants.  Each part has an inductive invariant; a step   *)
(* of one leaves the variables of the others alone, so that together they  *)
(* are an invariant of the dashboard.                                      *)
(***************************************************************************)
EXTENDS MCDashboard, PlaybackProofs

-----------------------------------------------------------------------------
(* The live map. *)
TrailOK(t) ==
    /\ t \in Seq(1..MaxFix) /\ Len(t) <= MaxPoints
    /\ \A i \in 1..(Len(t) - 1) : t[i] # t[i + 1]
DrawnWell(v) == v \in View /\ TrailOK(v.trail)

\* A view with another trail is a view.
LEMMA ViewTrail ==
    ASSUME NEW v \in View, NEW t, TrailOK(t)
    PROVE  [v EXCEPT !.trail = t] \in View
BY BoundedSeqIs, LiveMapAssumption DEF View, TrailOK

\* A step that draws a vehicle leaves its trail a trail.
LEMMA TidiedWell ==
    ASSUME NEW v, DrawnWell(v), NEW mode, NEW max
    PROVE  /\ DrawnWell(Tidied(v, mode, max))
           /\ Tidied(v, mode, max).marker = v.marker
           /\ Tidied(v, mode, max).goal = v.goal
           /\ Tidied(v, mode, max).frame = v.frame
           /\ Tidied(v, mode, max).circle = v.circle
BY DEF DrawnWell, View, Tidied, Layer

\* Drawing the circle of the accuracy leaves marker and trail alone.
LEMMA CircledWell ==
    ASSUME NEW v, DrawnWell(v), NEW accurate
    PROVE  /\ DrawnWell(Circled(v, accurate))
           /\ Circled(v, accurate).marker = v.marker
           /\ Circled(v, accurate).goal = v.goal
           /\ Circled(v, accurate).frame = v.frame
BY DEF DrawnWell, View, Circled, Layer

\* A marker that moves to a position shows it, or is on its way there.
LEMMA MovedWell ==
    ASSUME NEW v, DrawnWell(v), NEW fix \in Fix
    PROVE  /\ DrawnWell(Moved(v, fix))
           /\ Moved(v, fix).marker
           /\ fix # 0 => fix = IF Moved(v, fix).frame # 0 THEN Moved(v, fix).frame ELSE Moved(v, fix).goal
<1>1. CASE v.marker
  BY <1>1, LiveMapAssumption DEF DrawnWell, View, Moved
<1>2. CASE ~v.marker
  <2> DEFINE w == [v EXCEPT !.marker = TRUE, !.goal = fix, !.frame = 0, !.clustered = TRUE]
  <2>1. Moved(v, fix) = w
    BY <1>2 DEF Moved
  <2>2. 0 \in Fix
    BY LiveMapAssumption DEF Fix
  <2>3. w \in View /\ w.marker /\ w.goal = fix /\ w.frame = 0 /\ w.trail = v.trail
    BY <2>2 DEF DrawnWell, View
  <2> QED
    BY <2>1, <2>3 DEF DrawnWell
<1> QED
  BY <1>1, <1>2

\* A trail that takes another position repeats nothing and stays short enough.
LEMMA TrailGrows ==
    ASSUME NEW t, TrailOK(t), NEW fix \in 1..MaxFix, t # <<>> => Last(t) # fix, MaxPoints > 0
    PROVE  TrailOK(IF Len(Append(t, fix)) > MaxPoints THEN Tail(Append(t, fix)) ELSE Append(t, fix))
<1> DEFINE u == Append(t, fix)
<1>1. /\ u \in Seq(1..MaxFix) /\ Len(u) = Len(t) + 1
      /\ \A i \in 1..Len(t) : u[i] = t[i]
      /\ u[Len(t) + 1] = fix /\ Len(t) \in Nat
  BY AppendProperties, LenProperties DEF TrailOK
<1>2. \A i \in 1..(Len(u) - 1) : u[i] # u[i + 1]
  <2> SUFFICES ASSUME NEW i \in 1..(Len(u) - 1) PROVE u[i] # u[i + 1]
    OBVIOUS
  <2>1. CASE i = Len(t)
    BY <2>1, <1>1, EmptySeq DEF Last
  <2>2. CASE i # Len(t)
    BY <2>2, <1>1 DEF TrailOK
  <2> QED
    BY <2>1, <2>2
<1>3. CASE Len(u) > MaxPoints
  <2> HIDE DEF u
  <2>1. /\ Tail(u) \in Seq(1..MaxFix) /\ Len(Tail(u)) = Len(u) - 1
        /\ \A i \in 1..(Len(u) - 1) : Tail(u)[i] = u[i + 1]
    BY <1>1, <1>3, HeadTailProperties, EmptySeq, LiveMapAssumption
  <2>2. Len(Tail(u)) <= MaxPoints
    BY <2>1, <1>1, LiveMapAssumption DEF TrailOK
  <2> QED
    BY <2>1, <2>2, <1>1, <1>2, <1>3 DEF TrailOK, u
<1>4. CASE ~(Len(u) > MaxPoints)
  BY <1>4, <1>1, <1>2, LiveMapAssumption DEF TrailOK
<1> QED
  BY <1>3, <1>4

\* Adding a position to the trail leaves the marker alone.
LEMMA TrailedWell ==
    ASSUME NEW v, DrawnWell(v), NEW fix \in 1..MaxFix, NEW mode, points \in {0, MaxPoints}
    PROVE  /\ DrawnWell(Trailed(v, fix, mode))
           /\ Trailed(v, fix, mode).marker = v.marker
           /\ Trailed(v, fix, mode).goal = v.goal
           /\ Trailed(v, fix, mode).frame = v.frame
<1>1. CASE mode # NoVehicle \/ (points > 0 /\ v.trail # <<>> /\ Last(v.trail) = fix)
  BY <1>1 DEF Trailed
<1>2. CASE ~(mode # NoVehicle \/ (points > 0 /\ v.trail # <<>> /\ Last(v.trail) = fix)) /\ points = 0
  <2>1. TrailOK(<<>>)
    BY LiveMapAssumption, EmptySeq DEF TrailOK
  <2>2. Trailed(v, fix, mode) = [v EXCEPT !.trail = <<>>, !.layer = "none"]
    BY <1>2 DEF Trailed
  <2>3. [v EXCEPT !.trail = <<>>] \in View
    BY <2>1, ViewTrail DEF DrawnWell
  <2> QED
    BY <2>1, <2>2, <2>3 DEF DrawnWell, View, Layer
<1>3. CASE ~(mode # NoVehicle \/ (points > 0 /\ v.trail # <<>> /\ Last(v.trail) = fix)) /\ points # 0
  <2> DEFINE longer == Append(v.trail, fix)
             kept == IF Len(longer) > points THEN Tail(longer) ELSE longer
             layer == IF Len(kept) < 2 THEN v.layer ELSE IF Visible(v, mode) THEN "on" ELSE "off"
  <2>1. TrailOK(kept)
    BY <1>3, TrailGrows, LiveMapAssumption DEF DrawnWell
  <2>2. Trailed(v, fix, mode) = [v EXCEPT !.trail = kept, !.layer = layer]
    BY <1>3 DEF Trailed, DrawnWell, View
  <2>3. layer \in Layer
    BY DEF DrawnWell, View, Layer
  <2> HIDE DEF kept, layer
  <2>4. [v EXCEPT !.trail = kept] \in View
    BY <2>1, ViewTrail DEF DrawnWell
  <2> QED
    BY <2>1, <2>2, <2>3, <2>4 DEF DrawnWell, View
<1> QED
  BY <1>1, <1>2, <1>3

\* A vehicle drawn with a known position is drawn well, and shows that position or goes there.
LEMMA DrawnIsWell ==
    ASSUME NEW v, DrawnWell(v), NEW known \in Known, NEW mode, points \in {0, MaxPoints}
    PROVE  /\ DrawnWell(Drawn(v, known, mode))
           /\ known.fix # 0 =>
                /\ Drawn(v, known, mode).marker
                /\ known.fix = IF Drawn(v, known, mode).frame # 0 THEN Drawn(v, known, mode).frame
                                                                ELSE Drawn(v, known, mode).goal
<1>1. CASE known.fix = 0
  BY <1>1 DEF Drawn
<1>2. CASE known.fix # 0
  <2> DEFINE m == Moved(v, known.fix)
             c == Circled(m, known.accurate)
  <2>0. known.fix \in Fix /\ known.fix \in 1..MaxFix
    BY <1>2, LiveMapAssumption DEF Known, Fix
  <2>1. /\ DrawnWell(m) /\ m.marker
        /\ known.fix = IF m.frame # 0 THEN m.frame ELSE m.goal
    BY <2>0, <1>2, MovedWell
  <2>2. DrawnWell(c) /\ c.marker = m.marker /\ c.goal = m.goal /\ c.frame = m.frame
    BY <2>1, CircledWell
  <2>3. Drawn(v, known, mode) = Trailed(c, known.fix, mode)
    BY <1>2 DEF Drawn
  <2> HIDE DEF m, c
  <2>4. /\ DrawnWell(Trailed(c, known.fix, mode))
        /\ Trailed(c, known.fix, mode).marker = c.marker
        /\ Trailed(c, known.fix, mode).goal = c.goal
        /\ Trailed(c, known.fix, mode).frame = c.frame
    BY <2>0, <2>2, TrailedWell
  <2> QED
    BY <2>1, <2>2, <2>3, <2>4
<1> QED
  BY <1>1, <1>2

\* The list names vehicles, and what is drawn for each of them is a drawing: a trail
\* without repetitions, and a marker only for those of the list.
ListOK(known) == DOMAIN known \subseteq Vehicle /\ \A d \in DOMAIN known : known[d] \in Known
PictureOK(drawings, known) ==
    /\ drawings \in [Vehicle -> View]
    /\ \A d \in Vehicle : DrawnWell(drawings[d]) /\ (drawings[d].marker => d \in DOMAIN known)
DrawingOK == ListOK(devices) /\ PictureOK(view, devices) /\ points \in {0, MaxPoints}

\* Of the loads that await, the current one knows the session it may restore, or has entered its own.
LoadsOK ==
    /\ loads \subseteq Load /\ started \in 0..MaxLoads /\ live \in 0..started
    /\ history \in Vehicle \cup {NoVehicle} /\ controls \in BOOLEAN
    /\ \A l \in loads : l.id <= started
    /\ \A l, m \in loads : l.id = m.id => l = m
    /\ \A l \in loads : l.id = live /\ l.stage # "trips" => l.previous = history
    /\ \A l \in loads : l.id = live /\ l.stage = "trips" => history # NoVehicle
    /\ controls => history # NoVehicle

ServerOK ==
    /\ serverFix \in [Vehicle -> Fix] /\ enabled \subseteq Vehicle
    /\ socket \in BOOLEAN /\ connected \in BOOLEAN /\ clusterOn \in BOOLEAN /\ grouped \in BOOLEAN
    /\ gets \subseteq (ListAnswer \cup StateAnswer)

MapInv == DrawingOK /\ LoadsOK /\ ServerOK

\* The invariant of the map gives what is stated of it.
LEMMA MapInvGives == ASSUME MapInv PROVE MapTypeOK /\ NoGhostMarkers /\ ControlsMeanHistory /\ TrailsAreTrails
<1>1. MapTypeOK
  BY DEF MapInv, DrawingOK, ListOK, PictureOK, LoadsOK, ServerOK, MapTypeOK, Listed
<1>2. NoGhostMarkers /\ ControlsMeanHistory
  BY DEF MapInv, DrawingOK, PictureOK, LoadsOK, NoGhostMarkers, ControlsMeanHistory, Listed
<1>3. TrailsAreTrails
  BY DEF MapInv, DrawingOK, PictureOK, DrawnWell, TrailOK, TrailsAreTrails
<1> QED
  BY <1>1, <1>2, <1>3

\* One vehicle drawn anew leaves the picture right.
LEMMA PictureExcept ==
    ASSUME NEW drawings, NEW known, PictureOK(drawings, known), NEW d \in Vehicle, NEW w,
           DrawnWell(w), w.marker => d \in DOMAIN known
    PROVE  PictureOK([drawings EXCEPT ![d] = w], known)
BY DEF PictureOK, DrawnWell

\* What the assumption on the constants of the map says.
LEMMA MapConstants ==
    /\ MaxFix \in Nat /\ MaxPoints \in Nat /\ MaxLoads \in Nat /\ MaxEvents \in Nat /\ MaxGets \in Nat
    /\ 0 \in Fix /\ NoVehicle \notin Vehicle
BY LiveMapAssumption DEF Fix

\* A vehicle not drawn yet is drawn well.
LEMMA BlankWell == DrawnWell(Blank)
<1>1. TrailOK(<<>>)
  BY LiveMapAssumption, EmptySeq DEF TrailOK
<1>2. <<>> \in BoundedSeq(1..MaxFix, MaxPoints) /\ 0 \in Fix
  <2>1. <<>> \in BoundedSeq(1..MaxFix, MaxPoints) <=> <<>> \in Seq(1..MaxFix) /\ Len(<<>>) <= MaxPoints
    BY BoundedSeqIs, MapConstants
  <2> QED
    BY <1>1, <2>1, MapConstants DEF TrailOK
<1> QED
  BY <1>1, <1>2 DEF DrawnWell, Blank, View, Layer

\* The map starts in the invariant.
LEMMA MapInvInit == MapInit => MapInv
<1> SUFFICES ASSUME MapInit PROVE MapInv
  OBVIOUS
<1>1. DrawingOK
  <2>1. ListOK(devices)
    BY DEF MapInit, ListOK
  <2>2. PictureOK(view, devices)
    BY BlankWell DEF MapInit, PictureOK, DrawnWell, Blank
  <2> QED
    BY <2>1, <2>2 DEF MapInit, DrawingOK
<1>2. LoadsOK
  <2>1. started = 0 /\ live = 0 /\ loads = {} /\ history = NoVehicle /\ controls = FALSE
    BY DEF MapInit
  <2>2. controls \in BOOLEAN /\ ~controls
    BY <2>1
  <2>3. started \in 0..MaxLoads /\ live \in 0..started
    BY <2>1, MapConstants
  <2> QED
    BY <2>1, <2>2, <2>3 DEF LoadsOK
<1>3. ServerOK
  <2>1. [d \in Vehicle |-> 0] \in Partial(Vehicle, Fix)
    BY LiveMapAssumption DEF Partial, Fix
  <2>2. gets \subseteq ListAnswer
    BY <2>1 DEF MapInit, ListAnswer
  <2> QED
    BY <2>2, MapConstants DEF MapInit, ServerOK
<1> QED
  BY <1>1, <1>2, <1>3 DEF MapInv
-----------------------------------------------------------------------------
\* A position with its accuracy is a known one.
LEMMA KnownFix == ASSUME NEW fix \in Fix PROVE [fix |-> fix, accurate |-> HasAccuracy(fix)] \in Known
BY DEF Known, HasAccuracy

\* The same of a vehicle as the map shows it.
LEMMA Drawn2 ==
    ASSUME DrawingOK, NEW d \in Vehicle, NEW known \in Known, NEW mode
    PROVE  /\ DrawnWell(Drawn(view[d], known, mode))
           /\ known.fix # 0 =>
                /\ Drawn(view[d], known, mode).marker
                /\ known.fix = IF Drawn(view[d], known, mode).frame # 0 THEN Drawn(view[d], known, mode).frame
                                                                ELSE Drawn(view[d], known, mode).goal
BY DrawnIsWell DEF DrawingOK, PictureOK

\* A position from the socket leaves the drawing right.
LEMMA PositionUpdateDraws ==
    ASSUME DrawingOK, ServerOK, NEW d \in Vehicle, PositionUpdate(d)
    PROVE  DrawingOK'
<1>0. points' = points
  BY DEF PositionUpdate
<1> DEFINE fix == serverFix'[d]
           merged == [fix |-> fix, accurate |-> HasAccuracy(fix) \/ (d \in Listed /\ devices[d].accurate)]
<1>1. fix \in Fix
  BY LiveMapAssumption DEF PositionUpdate, ServerOK, Fix
<1>2. merged \in Known
  <2>1. (HasAccuracy(fix) \/ (d \in Listed /\ devices[d].accurate)) \in BOOLEAN
    OBVIOUS
  <2> QED
    BY <1>1, <2>1 DEF Known
<1>3. CASE socket /\ d \in Listed
  <2>1. /\ devices' = [devices EXCEPT ![d] = merged]
        /\ view' = IF history = NoVehicle THEN [view EXCEPT ![d] = Drawn(view[d], merged, history)] ELSE view
    BY <1>3 DEF PositionUpdate
  <2> HIDE DEF merged
  <2>2. ListOK(devices') /\ DOMAIN devices' = DOMAIN devices
    BY <2>1, <1>2 DEF DrawingOK, ListOK
  <2>3. DrawnWell(Drawn(view[d], merged, history))
    BY <1>2, Drawn2
  <2>4. PictureOK(view', devices)
    BY <2>1, <2>3, <1>3, PictureExcept DEF DrawingOK, Listed
  <2>5. PictureOK(view', devices')
    BY <2>4, <2>2 DEF PictureOK
  <2> QED
    BY <2>2, <2>5, <1>0 DEF DrawingOK
<1>4. CASE ~(socket /\ d \in Listed)
  <2>1. UNCHANGED <<devices, view>>
    BY <1>4 DEF PositionUpdate
  <2> QED
    BY <2>1, <1>0 DEF DrawingOK
<1> QED
  BY <1>3, <1>4

\* What answers on their way carry.
LEMMA AnswerRows ==
    ASSUME ServerOK, NEW a \in gets
    PROVE  /\ a.kind = "list" => DOMAIN a.rows \subseteq Vehicle /\ \A d \in DOMAIN a.rows : a.rows[d] \in Fix
           /\ a.kind = "state" => a.vehicle \in Vehicle /\ a.fix \in Fix
<1>1. a \in ListAnswer \cup StateAnswer
  BY DEF ServerOK
<1>2. CASE a \in ListAnswer
  <2>1. a.kind = "list" /\ a.rows \in Partial(Vehicle, Fix)
    BY <1>2 DEF ListAnswer
  <2> QED
    BY <2>1 DEF Partial
<1>3. CASE a \in StateAnswer
  BY <1>3 DEF StateAnswer
<1> QED
  BY <1>1, <1>2, <1>3

\* So does the list of the devices, which draws every vehicle in it.
LEMMA ReceiveListDraws ==
    ASSUME DrawingOK, ServerOK, NEW a \in gets, ReceiveList(a)
    PROVE  DrawingOK'
<1> DEFINE K == [d \in DOMAIN a.rows |-> [fix |-> a.rows[d], accurate |-> HasAccuracy(a.rows[d])]]
           F(d) == IF d \in DOMAIN a.rows THEN Drawn(view[d], K[d], history) ELSE Unlisted(view[d])
<1>1. DOMAIN a.rows \subseteq Vehicle /\ \A d \in DOMAIN a.rows : a.rows[d] \in Fix
  BY AnswerRows DEF ReceiveList
<1>2. devices' = K /\ points' = points
  BY DEF ReceiveList
<1>3. view' = [d \in Vehicle |-> F(d)]
  BY <1>2 DEF ReceiveList
<1>4. ListOK(K)
  BY <1>1, KnownFix DEF ListOK
<1>5. DOMAIN K = DOMAIN a.rows
  OBVIOUS
<1>6. \A d \in Vehicle : DrawnWell(F(d)) /\ (F(d).marker => d \in DOMAIN K)
  <2> SUFFICES ASSUME NEW d \in Vehicle PROVE DrawnWell(F(d)) /\ (F(d).marker => d \in DOMAIN K)
    OBVIOUS
  <2>1. CASE d \in DOMAIN a.rows
    <3>1. K[d] \in Known
      BY <2>1, <1>4, <1>5 DEF ListOK
    <3> HIDE DEF K
    <3> QED
      BY <3>1, <2>1, <1>5, Drawn2
  <2>2. CASE d \notin DOMAIN a.rows
    <3>1. DrawnWell(view[d])
      BY DEF DrawingOK, PictureOK
    <3>2. DrawnWell(Unlisted(view[d])) /\ Unlisted(view[d]).marker = FALSE
      BY <3>1 DEF DrawnWell, View, Unlisted
    <3> QED
      BY <3>2, <2>2
  <2> QED
    BY <2>1, <2>2
<1> HIDE DEF K, F
<1>7. PictureOK(view', devices')
  BY <1>2, <1>3, <1>6 DEF PictureOK, DrawnWell
<1> QED
  BY <1>2, <1>4, <1>7 DEF DrawingOK

\* So does the state of one device.
LEMMA ReceiveStateDraws ==
    ASSUME DrawingOK, ServerOK, NEW a \in gets, ReceiveState(a)
    PROVE  DrawingOK'
<1>0. points' = points /\ a.vehicle \in Vehicle /\ a.fix \in Fix
  BY AnswerRows DEF ReceiveState
<1> DEFINE known == [fix |-> a.fix, accurate |-> HasAccuracy(a.fix)]
<1>1. known \in Known
  BY <1>0, KnownFix
<1>2. CASE a.vehicle \in Listed
  <2>1. /\ devices' = [devices EXCEPT ![a.vehicle] = known]
        /\ view' = [view EXCEPT ![a.vehicle] = Drawn(view[a.vehicle], known, history)]
    BY <1>2 DEF ReceiveState
  <2> HIDE DEF known
  <2>2. ListOK(devices') /\ DOMAIN devices' = DOMAIN devices
    BY <2>1, <1>1 DEF DrawingOK, ListOK
  <2>3. DrawnWell(Drawn(view[a.vehicle], known, history))
    BY <1>0, <1>1, Drawn2
  <2>4. PictureOK(view', devices)
    BY <2>1, <2>3, <1>2, <1>0, PictureExcept DEF DrawingOK, Listed
  <2>5. PictureOK(view', devices')
    BY <2>4, <2>2 DEF PictureOK
  <2> QED
    BY <2>2, <2>5, <1>0 DEF DrawingOK
<1>3. CASE a.vehicle \notin Listed
  BY <1>3, <1>0 DEF ReceiveState, DrawingOK
<1> QED
  BY <1>2, <1>3

\* What hides, shows, tidies or moves keeps the trail and the marker.
SameTrail(w, v) == w \in View /\ w.trail = v.trail /\ w.marker = v.marker

\* Views that keep markers and trails leave the drawing right.
LEMMA PictureKept ==
    ASSUME DrawingOK, view' \in [Vehicle -> View], points' \in {0, MaxPoints},
           \A d \in Vehicle : SameTrail(view'[d], view[d]), devices' = devices
    PROVE  DrawingOK'
<1>1. ListOK(devices')
  BY DEF DrawingOK
<1>2. ASSUME NEW d \in Vehicle PROVE DrawnWell(view'[d]) /\ (view'[d].marker => d \in DOMAIN devices')
  BY DEF DrawingOK, PictureOK, DrawnWell, SameTrail
<1> QED
  BY <1>1, <1>2 DEF DrawingOK, PictureOK

\* Tidying a vehicle for the live mode keeps its marker and only cuts its trail.
LEMMA TidiedSame ==
    ASSUME NEW v, DrawnWell(v), NEW mode, NEW max
    PROVE  SameTrail(Tidied(v, mode, max), v) /\ Tidied(v, mode, max) \in View
BY DEF DrawnWell, View, Tidied, Layer, SameTrail

\* Another circle keeps marker and trail.
LEMMA CircleSame ==
    ASSUME NEW w, NEW v, SameTrail(w, v), NEW c \in Layer
    PROVE  SameTrail([w EXCEPT !.circle = c], v)
BY DEF SameTrail, View

\* Another layer keeps marker and trail.
LEMMA LayerSame ==
    ASSUME NEW w, NEW v, SameTrail(w, v), NEW c \in Layer
    PROVE  SameTrail([w EXCEPT !.layer = c], v)
BY DEF SameTrail, View

\* Being clustered keeps marker and trail.
LEMMA ClusteredSame ==
    ASSUME NEW w, NEW v, SameTrail(w, v), NEW c \in BOOLEAN
    PROVE  SameTrail([w EXCEPT !.clustered = c], v)
BY DEF SameTrail, View

\* A frame of an animation keeps marker and trail.
LEMMA FrameSame ==
    ASSUME NEW w, NEW v, SameTrail(w, v), NEW f \in Fix
    PROVE  SameTrail([w EXCEPT !.frame = f], v) /\ SameTrail([w EXCEPT !.goal = f], v)
BY DEF SameTrail, View

\* A view as it is drawn.
LEMMA ViewSame ==
    ASSUME DrawingOK, NEW d \in Vehicle
    PROVE  SameTrail(view[d], view[d]) /\ DrawnWell(view[d]) /\ view[d] \in View
           /\ view[d].circle \in Layer /\ view[d].layer \in Layer /\ view[d].frame \in Fix /\ view[d].goal \in Fix
           /\ view[d].clustered \in BOOLEAN /\ view[d].marker \in BOOLEAN
<1>1. view[d] \in View /\ DrawnWell(view[d])
  BY DEF DrawingOK, PictureOK
<1> QED
  BY <1>1 DEF SameTrail, View

\* What leaving a history does to a view keeps marker and trail.
LEMMA RestoredSame ==
    ASSUME DrawingOK, NEW d \in Vehicle, NEW mode, NEW max
    PROVE  SameTrail([Tidied(view[d], mode, max) EXCEPT !.circle = IF d \in Listed /\ @ = "off" THEN "on" ELSE @], view[d])
<1> DEFINE w == Tidied(view[d], mode, max)
           c == IF d \in Listed /\ w.circle = "off" THEN "on" ELSE w.circle
<1>1. SameTrail(w, view[d]) /\ w \in View
  BY ViewSame, TidiedSame
<1>2. w.circle \in Layer
  BY <1>1 DEF View
<1> HIDE DEF w
<1>3. c \in Layer
  BY <1>2 DEF Layer
<1> QED
  BY <1>1, <1>3, CircleSame DEF w

\* A frame of the animation leaves the drawing right.
LEMMA AnimationFrameDraws ==
    ASSUME DrawingOK, NEW d \in Vehicle, AnimationFrame(d)
    PROVE  DrawingOK'
<1> DEFINE v == view[d]
           a == [v EXCEPT !.goal = v.frame]
           b == [a EXCEPT !.frame = 0]
<1>1. devices' = devices /\ points' = points
  BY DEF AnimationFrame
<1>2. SameTrail(a, v) /\ SameTrail(b, v)
  BY ViewSame, FrameSame, MapConstants
<1>3. b = [v EXCEPT !.goal = v.frame, !.frame = 0]
  BY ViewSame DEF View
<1>4. view' = [view EXCEPT ![d] = a] \/ view' = [view EXCEPT ![d] = b]
  <2>1. CASE view' = [view EXCEPT ![d].goal = v.frame, ![d].frame = 0]
    BY <2>1, ViewSame DEF DrawingOK, PictureOK, View
  <2>2. CASE view' = [view EXCEPT ![d].goal = v.frame]
    BY <2>2
  <2> QED
    BY <2>1, <2>2 DEF AnimationFrame
<1> HIDE DEF a, b
<1>5. view' \in [Vehicle -> View] /\ \A e \in Vehicle : SameTrail(view'[e], view[e])
  BY <1>2, <1>4, ViewSame DEF DrawingOK, PictureOK, SameTrail
<1> QED
  BY <1>1, <1>5, PictureKept DEF DrawingOK

\* So does the search field.
LEMMA SearchDraws ==
    ASSUME DrawingOK, NEW matches, Search(matches)
    PROVE  DrawingOK'
<1> DEFINE
      F(d) == IF d \notin Listed \/ ~view[d].marker THEN view[d]
         ELSE IF d \in matches
         THEN [view[d] EXCEPT !.clustered = TRUE,
                              !.circle = IF @ = "none" THEN @ ELSE "on",
                              !.layer = IF @ = "off" /\ history = NoVehicle /\ ~grouped THEN "on" ELSE @]
         ELSE [view[d] EXCEPT !.clustered = FALSE,
                              !.circle = IF @ = "none" THEN @ ELSE "off",
                              !.layer = IF @ = "none" THEN @ ELSE "off"]
<1>1. devices' = devices /\ points' = points /\ view' = [d \in Vehicle |-> F(d)]
  BY DEF Search
<1>2. ASSUME NEW d \in Vehicle PROVE SameTrail(F(d), view[d])
  BY ViewSame DEF SameTrail, View, Layer
<1> HIDE DEF F
<1>3. view' \in [Vehicle -> View] /\ \A e \in Vehicle : SameTrail(view'[e], view[e])
  BY <1>1, <1>2 DEF SameTrail
<1> QED
  BY <1>1, <1>3, PictureKept DEF DrawingOK

\* So does the zoom.
LEMMA ZoomDraws ==
    ASSUME DrawingOK, Zoom
    PROVE  DrawingOK'
<1> DEFINE
      c(v) == IF v.layer = "none" THEN v.layer
              ELSE IF points > 0 /\ v.marker /\ Len(v.trail) >= 2 /\ history = NoVehicle /\ grouped /\ v.clustered
              THEN "on" ELSE "off"
      F(d) == [view[d] EXCEPT !.layer = c(view[d])]
<1>1. devices' = devices /\ points' = points /\ view' = [d \in Vehicle |-> F(d)]
  BY DEF Zoom
<1>2. ASSUME NEW d \in Vehicle PROVE SameTrail(F(d), view[d])
  <2>1. c(view[d]) \in Layer
    BY ViewSame DEF Layer
  <2> HIDE DEF c
  <2> QED
    BY <2>1, ViewSame, LayerSame
<1> HIDE DEF F
<1>3. view' \in [Vehicle -> View] /\ \A e \in Vehicle : SameTrail(view'[e], view[e])
  BY <1>1, <1>2 DEF SameTrail
<1> QED
  BY <1>1, <1>3, PictureKept DEF DrawingOK

\* So does the setting of the trails.
LEMMA BreadcrumbsDraw ==
    ASSUME DrawingOK, SetBreadcrumbs
    PROVE  DrawingOK'
<1>1. devices' = devices /\ points' \in {0, MaxPoints}
      /\ view' = [d \in Vehicle |-> Tidied(view[d], history, points')]
  BY DEF SetBreadcrumbs
<1>2. \A d \in Vehicle : SameTrail(Tidied(view[d], history, points'), view[d])
  BY ViewSame, TidiedSame
<1>3. view' \in [Vehicle -> View] /\ \A e \in Vehicle : SameTrail(view'[e], view[e])
  BY <1>1, <1>2 DEF SameTrail
<1> QED
  BY <1>1, <1>3, PictureKept

\* So does the load of a history.
LEMMA LoadHistoryDraws ==
    ASSUME DrawingOK, NEW d \in Vehicle, LoadHistory(d)
    PROVE  DrawingOK'
<1> DEFINE
      F(e) == [view[e] EXCEPT
                  !.frame = 0,
                  !.circle = IF e \in Listed /\ @ = "on" THEN "off" ELSE @,
                  !.layer = IF @ = "on" THEN "off" ELSE @]
<1>1. devices' = devices /\ points' = points /\ view' = [e \in Vehicle |-> F(e)]
  BY DEF LoadHistory
<1>2. ASSUME NEW e \in Vehicle PROVE SameTrail(F(e), view[e])
  BY ViewSame, MapConstants DEF SameTrail, View, Layer
<1> HIDE DEF F
<1>3. view' \in [Vehicle -> View] /\ \A e \in Vehicle : SameTrail(view'[e], view[e])
  BY <1>1, <1>2 DEF SameTrail
<1> QED
  BY <1>1, <1>3, PictureKept DEF DrawingOK

\* So does the way back to the live mode.
LEMMA RestoreLiveDraws ==
    ASSUME DrawingOK, NEW mode, RestoreLive(mode), UNCHANGED <<devices, points>>
    PROVE  DrawingOK'
<1>1. CASE mode # NoVehicle
  BY <1>1 DEF RestoreLive, DrawingOK
<1>2. CASE mode = NoVehicle
  <2>1. view' = [d \in Vehicle |-> Restored(view[d], d)]
    BY <1>2 DEF RestoreLive
  <2>2. \A d \in Vehicle : SameTrail(Restored(view[d], d), view[d])
    BY RestoredSame DEF Restored
  <2>3. view' \in [Vehicle -> View] /\ \A e \in Vehicle : SameTrail(view'[e], view[e])
    BY <2>1, <2>2 DEF SameTrail
  <2> QED
    BY <2>3, PictureKept DEF DrawingOK
<1> QED
  BY <1>1, <1>2

\* So does a history without positions.
LEMMA NoPositionsDraws ==
    ASSUME DrawingOK, NEW l, NoPositions(l)
    PROVE  DrawingOK'
<1> DEFINE F(d) == [Tidied(view[d], l.previous, points) EXCEPT
                      !.circle = IF d \in Listed /\ @ = "off" THEN "on" ELSE @]
<1>1. devices' = devices /\ points' = points /\ view' = [d \in Vehicle |-> F(d)]
  BY DEF NoPositions
<1>2. \A d \in Vehicle : SameTrail(F(d), view[d])
  BY RestoredSame
<1> HIDE DEF F
<1>3. view' \in [Vehicle -> View] /\ \A e \in Vehicle : SameTrail(view'[e], view[e])
  BY <1>1, <1>2 DEF SameTrail
<1> QED
  BY <1>1, <1>3, PictureKept DEF DrawingOK

\* exitHistoryMode draws every vehicle of the list at, or on its way to, its last known position.
LEMMA ExitDraws ==
    ASSUME DrawingOK, ExitHistory
    PROVE  /\ DrawingOK'
           /\ \A d \in DOMAIN devices' : devices'[d].fix # 0 =>
                 /\ view'[d].marker
                 /\ devices'[d].fix = IF view'[d].frame # 0 THEN view'[d].frame ELSE view'[d].goal
<1> DEFINE
      back(d) == [view[d] EXCEPT !.clustered = view[d].marker,
                                 !.circle = IF @ = "none" THEN @ ELSE "on"]
      drawn(d) == Drawn(back(d), devices[d], NoVehicle)
      F(d) == IF d \notin Listed THEN Tidied(view[d], NoVehicle, points) ELSE Tidied(drawn(d), NoVehicle, points)
<1>1. devices' = devices /\ points' = points /\ view' = [d \in Vehicle |-> F(d)]
  BY DEF ExitHistory
<1>2. ASSUME NEW d \in Vehicle PROVE DrawnWell(F(d)) /\ (F(d).marker => d \in Listed)
                   /\ (d \in Listed /\ devices[d].fix # 0 =>
                         F(d).marker /\ devices[d].fix = IF F(d).frame # 0 THEN F(d).frame ELSE F(d).goal)
  <2>1. CASE d \notin Listed
    <3>1. DrawnWell(Tidied(view[d], NoVehicle, points)) /\ Tidied(view[d], NoVehicle, points).marker = view[d].marker
      BY ViewSame, TidiedWell
    <3>2. ~view[d].marker
      BY <2>1 DEF DrawingOK, PictureOK, Listed
    <3> QED
      BY <2>1, <3>1, <3>2
  <2>2. CASE d \in Listed
    <3>1. DrawnWell(back(d))
      BY ViewSame DEF DrawnWell, View, Layer
    <3>2. devices[d] \in Known /\ points \in {0, MaxPoints}
      BY <2>2 DEF DrawingOK, ListOK, Listed
    <3>3. /\ DrawnWell(drawn(d))
          /\ devices[d].fix # 0 =>
               drawn(d).marker /\ devices[d].fix = IF drawn(d).frame # 0 THEN drawn(d).frame ELSE drawn(d).goal
      BY <3>1, <3>2, DrawnIsWell
    <3> HIDE DEF drawn
    <3>4. /\ DrawnWell(Tidied(drawn(d), NoVehicle, points))
          /\ Tidied(drawn(d), NoVehicle, points).marker = drawn(d).marker
          /\ Tidied(drawn(d), NoVehicle, points).goal = drawn(d).goal
          /\ Tidied(drawn(d), NoVehicle, points).frame = drawn(d).frame
      BY <3>3, TidiedWell
    <3> QED
      BY <2>2, <3>3, <3>4
  <2> QED
    BY <2>1, <2>2
<1> HIDE DEF F
<1>3. PictureOK(view', devices')
  BY <1>1, <1>2 DEF PictureOK, DrawnWell, Listed
<1>4. DrawingOK'
  BY <1>1, <1>3 DEF DrawingOK
<1>5. DOMAIN devices \subseteq Vehicle
  BY DEF DrawingOK, ListOK
<1> QED
  BY <1>1, <1>2, <1>4, <1>5 DEF Listed

\* Every step but those of a load leaves the loads alone.
LEMMA LoadsKept == ASSUME LoadsOK, UNCHANGED historyVars PROVE LoadsOK'
BY DEF LoadsOK, historyVars

\* What a load in progress is.
LEMMA LoadIs ==
    ASSUME LoadsOK, NEW l \in loads
    PROVE  /\ l \in Load /\ l.id \in 1..started /\ l.vehicle \in Vehicle
           /\ l.previous \in Vehicle \cup {NoVehicle} /\ l.stage \in {"settings", "positions", "trips"}
BY MapConstants DEF LoadsOK, Load

\* Starting a load keeps the loads right: it is the newest.
LEMMA LoadHistoryLoads ==
    ASSUME LoadsOK, DrawingOK, NEW d \in Vehicle, LoadHistory(d)
    PROVE  LoadsOK'
<1> DEFINE new == [id |-> started + 1, vehicle |-> d, previous |-> history, stage |-> "settings"]
<1>1. /\ started < MaxLoads /\ started' = started + 1 /\ live' = started + 1 /\ loads' = loads \cup {new}
      /\ history' = history /\ controls' = controls
  BY DEF LoadHistory
<1>2. /\ new \in Load /\ started' \in 0..MaxLoads /\ live' \in 0..started'
      /\ started \in Nat /\ started + 1 > started
  BY <1>1, MapConstants DEF LoadsOK, Load
<1>3. new.id = started + 1 /\ new.previous = history /\ new.stage = "settings"
  OBVIOUS
<1> HIDE DEF new
<1>4. \A l \in loads : l.id <= started /\ l.id \in Nat /\ l.id # started + 1
  BY <1>2, LoadIs DEF LoadsOK
<1>5. \A l \in loads' : l.id <= started'
  BY <1>1, <1>2, <1>3, <1>4
<1>6. \A l, m \in loads' : l.id = m.id => l = m
  BY <1>1, <1>3, <1>4 DEF LoadsOK
<1>7. \A l \in loads' : l.id = live' => l = new
  BY <1>1, <1>4
<1> QED
  BY <1>1, <1>2, <1>3, <1>5, <1>6, <1>7 DEF LoadsOK

\* A load that ends leaves those of the others.
LEMMA LoadGone ==
    ASSUME LoadsOK, NEW l \in loads, loads' = loads \ {l}, UNCHANGED <<started, live, history>>,
           controls' \in BOOLEAN, controls' => controls
    PROVE  LoadsOK'
BY DEF LoadsOK

\* A load that was overtaken or fails ends and enters no history.
LEMMA LoadAbortedLoads ==
    ASSUME LoadsOK, NEW l \in loads, LoadAborted(l) \/ LoadFails(l)
    PROVE  LoadsOK' /\ history' = history
<1>1. loads' = loads \ {l} /\ UNCHANGED <<started, live>>
  BY DEF LoadAborted, LoadFails
<1>2. history' = history
  BY DEF LoadAborted, LoadFails, Superseded, LoadsOK
<1>3. controls' \in BOOLEAN /\ (controls' => controls)
  <2>1. PICK mode : RestoreLive(mode)
    BY DEF LoadAborted, LoadFails
  <2>2. controls' = FALSE \/ controls' = controls
    BY <2>1 DEF RestoreLive
  <2>3. controls \in BOOLEAN
    BY DEF LoadsOK
  <2>4. CASE controls' = FALSE
    BY <2>4
  <2>5. CASE controls' = controls
    BY <2>3, <2>5
  <2> QED
    BY <2>2, <2>4, <2>5
<1> QED
  BY <1>1, <1>2, <1>3, LoadGone

\* Nor does one without positions.
LEMMA NoPositionsLoads ==
    ASSUME LoadsOK, NEW l \in loads, NoPositions(l)
    PROVE  LoadsOK' /\ history' = history
<1>1. loads' = loads \ {l} /\ UNCHANGED <<started, live, controls>>
  BY DEF NoPositions
<1>2. history' = history
  BY DEF NoPositions, Superseded, LoadsOK
<1> QED
  BY <1>1, <1>2, LoadGone DEF LoadsOK

\* The stage of a load goes on; entering the history is for the load that is current.
LEMMA LoadGoesOn ==
    ASSUME LoadsOK, NEW l \in loads, SettingsArrive(l) \/ PositionsArrive(l)
    PROVE  /\ LoadsOK'
           /\ history' = history \/ (l.id = live /\ l.vehicle = history')
<1>1. PICK s \in {"positions", "trips"} : loads' = (loads \ {l}) \cup {[l EXCEPT !.stage = s]}
             /\ history' = (IF s = "trips" THEN l.vehicle ELSE history)
             /\ l.id = live /\ UNCHANGED <<started, live, controls>> /\ (s = "positions" => l.stage # "trips")
  BY DEF SettingsArrive, PositionsArrive, Superseded
<1> DEFINE m == [l EXCEPT !.stage = s]
<1>2. m \in Load /\ m.id = l.id /\ m.previous = l.previous /\ m.stage = s /\ l.vehicle \in Vehicle
  BY LoadIs DEF Load
<1> HIDE DEF m
<1>3. loads' = (loads \ {l}) \cup {m}
  BY <1>1 DEF m
<1>4. \A k \in loads \ {l} : k.id # live
  BY <1>1 DEF LoadsOK
<1>5. history' \in Vehicle \cup {NoVehicle} /\ (controls => history' # NoVehicle)
      /\ (s = "trips" => history' # NoVehicle)
  BY <1>1, <1>2, MapConstants DEF LoadsOK
<1>6. /\ \A k \in loads' : k.id <= started'
      /\ \A k, n \in loads' : k.id = n.id => k = n
      /\ loads' \subseteq Load
  BY <1>1, <1>2, <1>3 DEF LoadsOK
<1>7. /\ \A k \in loads' : k.id = live' /\ k.stage # "trips" => k.previous = history'
      /\ \A k \in loads' : k.id = live' /\ k.stage = "trips" => history' # NoVehicle
  BY <1>1, <1>2, <1>3, <1>4, <1>5 DEF LoadsOK
<1>8. LoadsOK'
  BY <1>1, <1>5, <1>6, <1>7 DEF LoadsOK
<1> QED
  BY <1>1, <1>8

\* Nor does one whose trips arrive after its positions.
LEMMA TripsArriveLoads ==
    ASSUME LoadsOK, NEW l \in loads, TripsArrive(l)
    PROVE  LoadsOK' /\ history' = history
<1>1. loads' = loads \ {l} /\ UNCHANGED <<started, live, history>> /\ l.stage = "trips"
      /\ controls' = IF Superseded(l) THEN controls ELSE TRUE
  BY DEF TripsArrive
<1>2. CASE Superseded(l)
  BY <1>1, <1>2, LoadGone DEF LoadsOK
<1>3. CASE ~Superseded(l)
  BY <1>1, <1>3 DEF LoadsOK, Superseded
<1> QED
  BY <1>2, <1>3, <1>1

\* Stopping a load or leaving the history keeps the loads right.
LEMMA LeavingLoads ==
    ASSUME LoadsOK, StopLoading \/ ExitHistory
    PROVE  LoadsOK' /\ (StopLoading => history' = history)
<1>1. live' = 0 /\ UNCHANGED <<loads, started>>
  BY DEF StopLoading, ExitHistory
<1>2. /\ history' \in Vehicle \cup {NoVehicle} /\ controls' \in BOOLEAN /\ (controls' => history' # NoVehicle)
      /\ (StopLoading => history' = history)
  <2>1. CASE StopLoading
    <3>1. history' = history /\ (controls' = FALSE \/ controls' = controls)
      BY <2>1 DEF StopLoading, RestoreLive
    <3>2. controls \in BOOLEAN /\ history \in Vehicle \cup {NoVehicle} /\ (controls => history # NoVehicle)
      BY DEF LoadsOK
    <3>3. CASE controls' = FALSE
      BY <3>1, <3>2, <3>3
    <3>4. CASE controls' = controls
      BY <3>1, <3>2, <3>4
    <3> QED
      BY <3>1, <3>3, <3>4
  <2>2. CASE ExitHistory
    <3>1. ~controls' /\ controls' \in BOOLEAN /\ history' = NoVehicle
      BY <2>2 DEF ExitHistory
    <3> QED
      BY <3>1, MapConstants DEF ExitHistory, StopLoading, LoadsOK
  <2> QED
    BY <2>1, <2>2
<1>3. live' \in 0..started' /\ \A l \in loads' : l.id # live'
  BY <1>1, LoadIs DEF LoadsOK
<1> QED
  BY <1>1, <1>2, <1>3 DEF LoadsOK
-----------------------------------------------------------------------------
\* What the server answers with is an answer.
LEMMA SnapshotsAreAnswers ==
    ASSUME ServerOK
    PROVE  ListSnapshot \in ListAnswer /\ \A d \in Vehicle : StateSnapshot(d) \in StateAnswer
<1>1. [d \in enabled |-> serverFix[d]] \in Partial(Vehicle, Fix)
  BY DEF ServerOK, Partial
<1> QED
  BY <1>1 DEF ServerOK, ListSnapshot, StateSnapshot, ListAnswer, StateAnswer

\* Steps of the page that ask nothing keep the server part.
LEMMA ServerKept ==
    ASSUME ServerOK, UNCHANGED <<serverFix, enabled, socket, connected>>,
           clusterOn' \in BOOLEAN, grouped' \in BOOLEAN, gets' \subseteq gets
    PROVE  ServerOK'
BY DEF ServerOK

\* A position stored by the server keeps the server part.
LEMMA PositionUpdateServer ==
    ASSUME ServerOK, NEW d \in Vehicle, PositionUpdate(d)
    PROVE  ServerOK'
<1>1. serverFix' \in [Vehicle -> Fix]
  BY MapConstants DEF PositionUpdate, ServerOK, Fix
<1>2. gets' = gets \/ gets' = gets \cup {[kind |-> "state", vehicle |-> d, fix |-> serverFix'[d]]}
  BY DEF PositionUpdate
<1>3. [kind |-> "state", vehicle |-> d, fix |-> serverFix'[d]] \in StateAnswer
  BY <1>1 DEF StateAnswer
<1> QED
  BY <1>1, <1>2, <1>3 DEF PositionUpdate, ServerOK

\* So do the steps that ask the server.
LEMMA AsksServer ==
    ASSUME ServerOK, DrawingOK, Connect \/ Disconnect \/ Poll \/ RefreshList
    PROVE  ServerOK'
<1>1. CASE Connect
  BY <1>1, SnapshotsAreAnswers DEF Connect, ServerOK, serverVars
<1>2. CASE Disconnect
  BY <1>2 DEF Disconnect, ServerOK, serverVars
<1>3. CASE Poll
  <2>1. {StateSnapshot(d) : d \in Listed} \subseteq StateAnswer
    BY SnapshotsAreAnswers DEF DrawingOK, ListOK, Listed
  <2> QED
    BY <1>3, <2>1 DEF Poll, ServerOK, serverVars
<1>4. CASE RefreshList
  BY <1>4, SnapshotsAreAnswers DEF RefreshList, ServerOK, serverVars
<1> QED
  BY <1>1, <1>2, <1>3, <1>4

\* Leaving a history restores the clusters.
LEMMA RestoreLiveServer ==
    ASSUME ServerOK, NEW mode, RestoreLive(mode)
    PROVE  clusterOn' \in BOOLEAN
BY DEF RestoreLive, ServerOK

-----------------------------------------------------------------------------
\* The steps of MapNext one by one.
LEMMA MapStep ==
    ASSUME MapInv, MapNext
    PROVE  /\ MapInv'
           /\ history' \notin {history, NoVehicle} => \E l \in loads : l.id = live /\ l.vehicle = history'
           /\ history # NoVehicle /\ history' = NoVehicle => ExitHistory
<1>0. DrawingOK /\ LoadsOK /\ ServerOK /\ clusterOn \in BOOLEAN /\ grouped \in BOOLEAN
  BY DEF MapInv, ServerOK
<1> DEFINE Goal == /\ MapInv'
                   /\ history' = history \/ ExitHistory
                      \/ \E l \in loads : l.id = live /\ l.vehicle = history'
<1> SUFFICES Goal
  BY <1>0, LoadIs, MapConstants DEF ExitHistory
<1> HIDE DEF Goal
<1>1. ASSUME NEW d \in Vehicle, PositionUpdate(d) PROVE Goal
  <2>1. UNCHANGED historyVars
    BY <1>1 DEF PositionUpdate
  <2> QED
    BY <2>1, <1>0, <1>1, PositionUpdateDraws, PositionUpdateServer, LoadsKept DEF Goal, MapInv, historyVars
<1>2. ASSUME NEW d \in Vehicle, SetEnabled(d) PROVE Goal
  <2>1. UNCHANGED historyVars /\ UNCHANGED <<devices, view, points>>
    BY <1>2 DEF SetEnabled
  <2>2. ServerOK'
    BY <1>0, <1>2 DEF SetEnabled, ServerOK
  <2>3. DrawingOK'
    BY <2>1, <1>0 DEF DrawingOK
  <2> QED
    BY <2>1, <2>2, <2>3, <1>0, LoadsKept DEF Goal, MapInv, historyVars
<1>3. ASSUME NEW d \in Vehicle, AnimationFrame(d) PROVE Goal
  <2>1. UNCHANGED historyVars /\ UNCHANGED <<serverFix, enabled, socket, connected, clusterOn, grouped, gets>>
    BY <1>3 DEF AnimationFrame, serverVars
  <2>2. ServerOK'
    BY <2>1, <1>0, ServerKept
  <2> QED
    BY <2>1, <2>2, <1>0, <1>3, AnimationFrameDraws, LoadsKept DEF Goal, MapInv, historyVars
<1>4. ASSUME NEW d \in Vehicle, LoadHistory(d) PROVE Goal
  <2>1. UNCHANGED <<serverFix, enabled, socket, connected, grouped, gets, history>> /\ clusterOn' = FALSE
    BY <1>4 DEF LoadHistory, serverVars
  <2>2. ServerOK'
    BY <2>1, <1>0, ServerKept
  <2> QED
    BY <2>1, <2>2, <1>0, <1>4, LoadHistoryDraws, LoadHistoryLoads DEF Goal, MapInv
<1>5. CASE Connect \/ Disconnect \/ Poll \/ RefreshList
  <2>1. UNCHANGED historyVars /\ UNCHANGED <<devices, view, points>>
    BY <1>5 DEF Connect, Disconnect, Poll, RefreshList
  <2>2. DrawingOK'
    BY <2>1, <1>0 DEF DrawingOK
  <2> QED
    BY <2>1, <2>2, <1>0, <1>5, AsksServer, LoadsKept DEF Goal, MapInv, historyVars
<1>6. ASSUME NEW a \in gets, ReceiveList(a) \/ ReceiveState(a) \/ ReceiveFails(a) PROVE Goal
  <2>1. /\ UNCHANGED historyVars /\ UNCHANGED <<serverFix, enabled, socket, connected, clusterOn, grouped>>
        /\ gets' \subseteq gets
    BY <1>6 DEF ReceiveList, ReceiveState, ReceiveFails, serverVars
  <2>2. ServerOK'
    BY <2>1, <1>0, ServerKept
  <2>3. DrawingOK'
    <3>1. CASE ReceiveFails(a)
      BY <3>1, <1>0 DEF ReceiveFails, DrawingOK
    <3> QED
      BY <3>1, <1>0, <1>6, ReceiveListDraws, ReceiveStateDraws
  <2> QED
    BY <2>1, <2>2, <2>3, <1>0, LoadsKept DEF Goal, MapInv, historyVars
<1>7. ASSUME NEW matches, Search(matches) PROVE Goal
  <2>1. UNCHANGED historyVars /\ UNCHANGED <<serverFix, enabled, socket, connected, clusterOn, grouped, gets>>
    BY <1>7 DEF Search, serverVars
  <2>2. ServerOK'
    BY <2>1, <1>0, ServerKept
  <2> QED
    BY <2>1, <2>2, <1>0, <1>7, SearchDraws, LoadsKept DEF Goal, MapInv, historyVars
<1>8. CASE Zoom
  <2>1. UNCHANGED historyVars /\ UNCHANGED <<serverFix, enabled, socket, connected, clusterOn, gets>>
        /\ grouped' = ~grouped
    BY <1>8 DEF Zoom, serverVars
  <2>2. ServerOK'
    BY <2>1, <1>0, ServerKept
  <2> QED
    BY <2>1, <2>2, <1>0, <1>8, ZoomDraws, LoadsKept DEF Goal, MapInv, historyVars
<1>9. CASE SetBreadcrumbs
  <2>1. UNCHANGED historyVars /\ UNCHANGED <<serverFix, enabled, socket, connected, clusterOn, grouped, gets>>
    BY <1>9 DEF SetBreadcrumbs, serverVars
  <2>2. ServerOK'
    BY <2>1, <1>0, ServerKept
  <2> QED
    BY <2>1, <2>2, <1>0, <1>9, BreadcrumbsDraw, LoadsKept DEF Goal, MapInv, historyVars
<1>10. ASSUME NEW l \in loads, LoadAborted(l) \/ LoadFails(l) PROVE Goal
  <2>1. UNCHANGED <<serverFix, enabled, socket, connected, grouped, gets, devices, points>>
    BY <1>10 DEF LoadAborted, LoadFails, serverVars
  <2>2. PICK mode : RestoreLive(mode)
    BY <1>10 DEF LoadAborted, LoadFails
  <2>3. ServerOK'
    BY <2>1, <2>2, <1>0, RestoreLiveServer, ServerKept
  <2>4. DrawingOK'
    BY <2>1, <2>2, <1>0, RestoreLiveDraws
  <2> QED
    BY <2>3, <2>4, <1>0, <1>10, LoadAbortedLoads DEF Goal, MapInv
<1>11. ASSUME NEW l \in loads, SettingsArrive(l) \/ PositionsArrive(l) PROVE Goal
  <2>1. UNCHANGED <<serverFix, enabled, socket, connected, clusterOn, grouped, gets, devices, points, view>>
    BY <1>11 DEF SettingsArrive, PositionsArrive, serverVars
  <2>2. ServerOK'
    BY <2>1, <1>0, ServerKept
  <2>3. DrawingOK'
    BY <2>1, <1>0 DEF DrawingOK
  <2> QED
    BY <2>2, <2>3, <1>0, <1>11, LoadGoesOn DEF Goal, MapInv
<1>12. ASSUME NEW l \in loads, NoPositions(l) PROVE Goal
  <2>1. UNCHANGED <<serverFix, enabled, socket, connected, grouped, gets>> /\ clusterOn' = TRUE
    BY <1>12 DEF NoPositions, serverVars
  <2>2. ServerOK'
    BY <2>1, <1>0, ServerKept
  <2> QED
    BY <2>2, <1>0, <1>12, NoPositionsLoads, NoPositionsDraws DEF Goal, MapInv
<1>13. ASSUME NEW l \in loads, TripsArrive(l) PROVE Goal
  <2>1. UNCHANGED <<serverFix, enabled, socket, connected, clusterOn, grouped, gets, devices, points, view>>
    BY <1>13 DEF TripsArrive, serverVars
  <2>2. ServerOK'
    BY <2>1, <1>0, ServerKept
  <2>3. DrawingOK'
    BY <2>1, <1>0 DEF DrawingOK
  <2> QED
    BY <2>2, <2>3, <1>0, <1>13, TripsArriveLoads DEF Goal, MapInv
<1>14. CASE StopLoading
  <2>1. UNCHANGED <<serverFix, enabled, socket, connected, grouped, gets, devices, points>> /\ RestoreLive(history)
    BY <1>14 DEF StopLoading, serverVars
  <2>2. ServerOK'
    BY <2>1, <1>0, RestoreLiveServer, ServerKept
  <2>3. DrawingOK'
    BY <2>1, <1>0, RestoreLiveDraws
  <2> QED
    BY <2>2, <2>3, <1>0, <1>14, LeavingLoads DEF Goal, MapInv
<1>15. CASE ExitHistory
  <2>1. UNCHANGED <<serverFix, enabled, socket, connected, grouped, gets>> /\ clusterOn' = TRUE
    BY <1>15 DEF ExitHistory, serverVars
  <2>2. ServerOK'
    BY <2>1, <1>0, ServerKept
  <2> QED
    BY <2>2, <1>0, <1>15, LeavingLoads, ExitDraws DEF Goal, MapInv
<1> QED
  BY <1>1, <1>2, <1>3, <1>4, <1>5, <1>6, <1>7, <1>8, <1>9, <1>10, <1>11, <1>12, <1>13, <1>14, <1>15 DEF MapNext

\* A step of another part keeps the invariant of the map.
LEMMA MapStutter == ASSUME MapInv, UNCHANGED mapVars PROVE MapInv'
<1>1. DrawingOK'
  BY DEF MapInv, DrawingOK, mapVars
<1>2. LoadsOK'
  BY LoadsKept DEF MapInv, mapVars, historyVars
<1>3. ServerOK'
  BY DEF MapInv, ServerOK, mapVars
<1> QED
  BY <1>1, <1>2, <1>3 DEF MapInv

-----------------------------------------------------------------------------
(* The alerts. *)
\* A list of the alerts of a set, each once.
ListOf(q, S) ==
    /\ q \in Seq(Alert) /\ ToSet(q) = S /\ Len(q) = Cardinality(S)
    /\ \A i, j \in 1..Len(q) : q[i] = q[j] => i = j

\* The empty list lists nothing.
LEMMA EmptyIsListed == ListOf(<<>>, {})
<1>1. <<>> \in Seq(Alert) /\ Len(<<>>) = 0 /\ Cardinality({}) = 0
  BY FS_EmptySet
<1>2. ToSet(<<>>) = {}
  BY DEF ToSet
<1> QED
  BY <1>1, <1>2 DEF ListOf

\* A set in any order is a list of it.
LEMMA SetIsListed ==
    ASSUME NEW S \in SUBSET Alert PROVE ListOf(SetToSeq(S), S)
<1> DEFINE n == Cardinality(S)
           q == SetToSeq(S)
<1>1. IsFiniteSet(S) /\ n \in Nat
  BY FS_Subset, FS_CardinalityType, AlertPanelAssumption
<1>2. q \in [1..n -> S] /\ IsInjective(q)
  <2>1. PICK f : f \in Bijection(1..n, S)
    BY <1>1, FS_CardinalityType DEF ExistsBijection
  <2>2. f \in [1..n -> S] /\ IsInjective(f)
    BY <2>1 DEF Bijection, Injection, IsInjective
  <2> QED
    BY <2>2 DEF SetToSeq
<1>3. q \in Seq(S) /\ Len(q) = n /\ DOMAIN q = 1..n
  <2> HIDE DEF q, n
  <2> QED
    BY <1>1, <1>2, SeqDef, LenProperties
<1>4. q \in Seq(Alert)
  <2> HIDE DEF q, n
  <2> QED
    BY <1>3
<1>5. S \subseteq ToSet(q)
  <2>1. q \in Injection(1..n, S)
    BY <1>2 DEF Injection, IsInjective
  <2>2. IsFiniteSet(1..n) /\ Cardinality(1..n) = n
    BY <1>1, FS_Interval
  <2>3. Cardinality({q[i] : i \in 1..n}) = n /\ IsFiniteSet({q[i] : i \in 1..n}) /\ {q[i] : i \in 1..n} \subseteq S
    <3>1. q \in Bijection(1..n, {q[i] : i \in 1..n})
      <4> HIDE DEF q, n
      <4> QED
        BY <1>2 DEF Bijection, Injection, Surjection, IsInjective
    <3>2. {q[i] : i \in 1..n} \subseteq S
      <4> HIDE DEF q, n
      <4> QED
        BY <1>2
    <3>3. ExistsBijection(1..n, {q[i] : i \in 1..n})
      BY <3>1 DEF ExistsBijection
    <3> QED
      BY <2>2, <3>2, <3>3, FS_Bijection
  <2>4. {q[i] : i \in 1..n} = S
    <3> HIDE DEF q
    <3> QED
      BY <1>1, <2>3, FS_Subset
  <2>5. ToSet(q) = {q[i] : i \in 1..Len(q)}
    BY <1>4, ToSetOfSeq
  <2> QED
    BY <1>3, <2>4, <2>5
<1>6. ToSet(q) \subseteq S
  <2> HIDE DEF q, n
  <2> QED
    BY <1>3, ToSetOfSeq
<1>7. \A i, j \in 1..Len(q) : q[i] = q[j] => i = j
  BY <1>2, <1>3 DEF IsInjective
<1> HIDE DEF q, n
<1>8. ListOf(q, S)
  BY <1>3, <1>4, <1>5, <1>6, <1>7 DEF ListOf, n
<1> QED
  BY <1>8 DEF q

\* A list that takes an alert in front.
LEMMA PrependedIsListed ==
    ASSUME NEW q, NEW S \in SUBSET Alert, ListOf(q, S), NEW a \in Alert, a \notin S
    PROVE  ListOf(<<a>> \o q, S \cup {a})
<1> DEFINE n == Len(q)
           s == <<a>> \o q
<1>1. q \in Seq(Alert) /\ ToSet(q) = S /\ n = Cardinality(S) /\ n \in Nat
  BY LenProperties DEF ListOf
<1>2. <<a>> \in Seq(Alert) /\ Len(<<a>>) = 1 /\ <<a>>[1] = a
  OBVIOUS
<1>3. ToSet(<<a>>) = {a}
  BY <1>2 DEF ToSet
<1>4. s \in Seq(Alert) /\ ToSet(s) = S \cup {a} /\ Len(s) = n + 1
  <2> DEFINE p == <<a>>
  <2>1. p \in Seq(Alert) /\ Len(p) = 1 /\ ToSet(p) = {a}
    BY <1>2, <1>3
  <2> HIDE DEF p
  <2>2. p \o q \in Seq(Alert) /\ ToSet(p \o q) = ToSet(p) \cup ToSet(q) /\ Len(p \o q) = Len(p) + Len(q)
    <3>1. q \in Seq(Alert)
      BY <1>1
    <3> QED
      BY <2>1, <3>1, ToSetOfConcat
  <2>3. ToSet(p \o q) = S \cup {a} /\ Len(p \o q) = n + 1
    BY <1>1, <2>1, <2>2
  <2> QED
    BY <2>2, <2>3 DEF p
<1>5. Cardinality(S \cup {a}) = n + 1
  BY <1>1, FS_Subset, FS_AddElement, AlertPanelAssumption
<1>6. \A i \in 1..(n + 1) : s[i] = IF i <= 1 THEN <<a>>[i] ELSE q[i - 1]
  <2> DEFINE p == <<a>>
  <2> HIDE DEF p, n
  <2>1. p \in Seq(Alert) /\ Len(p) = 1 /\ q \in Seq(Alert)
    BY <1>1, <1>2 DEF p
  <2>2. \A i \in 1..(Len(p) + n) : (p \o q)[i] = IF i <= Len(p) THEN p[i] ELSE q[i - Len(p)]
    BY <2>1, ConcatProperties DEF n
  <2>3. ASSUME NEW i \in 1..(n + 1) PROVE (p \o q)[i] = IF i <= 1 THEN p[i] ELSE q[i - 1]
    <3>1. i \in 1..(Len(p) + n)
      BY <1>1, <2>1
    <3> QED
      BY <2>1, <2>2, <3>1
  <2> QED
    BY <2>3 DEF p
<1>7. ASSUME NEW i \in 1..(n + 1), NEW j \in 1..(n + 1), s[i] = s[j] PROVE i = j
  <2> HIDE DEF s, n
  <2>1. s[1] = a
    BY <1>1, <1>2, <1>6
  <2>2. ASSUME NEW k \in 2..(n + 1) PROVE s[k] = q[k - 1] /\ k - 1 \in 1..n /\ s[k] # a
    <3>1. k \in 1..(n + 1) /\ ~(k <= 1) /\ k - 1 \in 1..n
      BY <1>1
    <3>2. s[k] = q[k - 1]
      BY <1>6, <3>1
    <3>3. q[k - 1] \in S
      BY <1>1, <3>1, ToSetOfSeq DEF n
    <3> QED
      BY <3>1, <3>2, <3>3
  <2>3. \A x, y \in 1..n : q[x] = q[y] => x = y
    BY DEF ListOf, n
  <2>4. CASE i = 1 \/ j = 1
    BY <1>1, <1>7, <2>1, <2>2, <2>4
  <2>5. CASE i \in 2..(n + 1) /\ j \in 2..(n + 1)
    <3>1. i - 1 = j - 1
      BY <1>7, <2>2, <2>3, <2>5
    <3> QED
      BY <1>1, <3>1
  <2> QED
    BY <1>1, <2>4, <2>5
<1> QED
  BY <1>1, <1>4, <1>5, <1>7 DEF ListOf

\* A list without one of its alerts.
LEMMA RemovedIsListed ==
    ASSUME NEW q, NEW S \in SUBSET Alert, ListOf(q, S), NEW a \in Alert
    PROVE  ListOf(RemoveFirst(q, a), S \ {a})
<1> DEFINE n == Len(q)
<1>1. q \in Seq(Alert) /\ ToSet(q) = S /\ n = Cardinality(S) /\ n \in Nat
  BY LenProperties DEF ListOf
<1>2. S = {q[i] : i \in 1..n}
  BY <1>1, ToSetOfSeq
<1>3. CASE a \notin S
  <2>1. RemoveFirst(q, a) = q /\ S \ {a} = S
    BY <1>2, <1>3 DEF RemoveFirst
  <2> QED
    BY <2>1
<1>4. CASE a \in S
  <2>1. PICK k \in 1..n : q[k] = a
    BY <1>2, <1>4
  <2>2. \A i, j \in 1..n : q[i] = q[j] => i = j
    BY DEF ListOf
  <2>3. SelectInSeq(q, LAMBDA v : v = a) = k
    <3> DEFINE I == {i \in 1..n : q[i] = a}
    <3>1. I = {k}
      BY <2>1, <2>2
    <3>2. Min(I) = k
      BY <2>1, <3>1 DEF Min
    <3> QED
      BY <3>1, <3>2 DEF SelectInSeq
  <2> DEFINE u == SubSeq(q, 1, k - 1)
             w == SubSeq(q, k + 1, n)
             s == u \o w
  <2>4. RemoveFirst(q, a) = s
    BY <2>1, <2>3 DEF RemoveFirst, RemoveAt
  <2>5. /\ u \in Seq(Alert) /\ Len(u) = k - 1 /\ \A i \in 1..(k - 1) : u[i] = q[i]
        /\ w \in Seq(Alert) /\ Len(w) = n - k /\ \A i \in 1..(n - k) : w[i] = q[k + i]
    <3>1. u \in Seq(Alert) /\ Len(u) = k - 1 /\ \A i \in 1..(k - 1) : u[i] = q[i]
      <4> HIDE DEF n
      <4>1. \A i \in 1..(k - 1) : q[i] \in Alert
        BY <1>1, ElementOfSeq DEF n
      <4> QED
        BY <1>1, <4>1, SubSeqProperties
    <3>2. w \in Seq(Alert) /\ Len(w) = n - k /\ \A i \in 1..(n - k) : w[i] = q[k + i]
      <4> HIDE DEF n
      <4>1. \A i \in (k + 1)..n : q[i] \in Alert
        BY <1>1, ElementOfSeq DEF n
      <4> QED
        BY <1>1, <4>1, SubSeqProperties
    <3> QED
      BY <3>1, <3>2
  <2>6. /\ s \in Seq(Alert) /\ Len(s) = n - 1
        /\ \A i \in 1..(n - 1) : s[i] = IF i < k THEN q[i] ELSE q[i + 1]
    <3> HIDE DEF u, w, n
    <3>1. /\ s \in Seq(Alert) /\ Len(s) = Len(u) + Len(w)
          /\ \A i \in 1..(Len(u) + Len(w)) : s[i] = IF i <= Len(u) THEN u[i] ELSE w[i - Len(u)]
      BY <2>5, ConcatProperties
    <3>2. Len(s) = n - 1
      BY <1>1, <2>5, <3>1
    <3>3. ASSUME NEW i \in 1..(n - 1) PROVE s[i] = IF i < k THEN q[i] ELSE q[i + 1]
      <4>0. s[i] = IF i <= k - 1 THEN u[i] ELSE w[i - (k - 1)]
        <5>1. Len(u) = k - 1 /\ i \in 1..(Len(u) + Len(w))
          BY <1>1, <2>5
        <5> QED
          BY <3>1, <5>1
      <4>1. CASE i < k
        <5>1. i \in 1..(k - 1) /\ i <= k - 1
          BY <1>1, <4>1
        <5> QED
          BY <2>5, <4>0, <4>1, <5>1
      <4>2. CASE ~(i < k)
        <5>1. i - (k - 1) \in 1..(n - k) /\ ~(i <= k - 1) /\ k + (i - (k - 1)) = i + 1
          BY <1>1, <4>2
        <5> QED
          BY <2>5, <4>0, <4>2, <5>1
      <4> QED
        BY <4>1, <4>2
    <3> QED
      BY <3>1, <3>2, <3>3
  <2>7. \A i, j \in 1..(n - 1) : s[i] = s[j] => i = j
    <3> SUFFICES ASSUME NEW i \in 1..(n - 1), NEW j \in 1..(n - 1), s[i] = s[j] PROVE i = j
      OBVIOUS
    <3> HIDE DEF s, n
    <3>1. ASSUME NEW x \in 1..(n - 1) PROVE \E y \in 1..n : y = (IF x < k THEN x ELSE x + 1) /\ s[x] = q[y]
      BY <1>1, <2>6
    <3>2. PICK y \in 1..n : y = (IF i < k THEN i ELSE i + 1) /\ s[i] = q[y]
      BY <3>1
    <3>3. PICK z \in 1..n : z = (IF j < k THEN j ELSE j + 1) /\ s[j] = q[z]
      BY <3>1
    <3>4. y = z
      BY <2>2, <3>2, <3>3
    <3> QED
      BY <1>1, <3>2, <3>3, <3>4
  <2>8. ToSet(s) = S \ {a}
    <3> HIDE DEF s, n
    <3>1. ToSet(s) = {s[i] : i \in 1..(n - 1)}
      BY <2>6, ToSetOfSeq
    <3>2. ASSUME NEW x \in 1..(n - 1) PROVE s[x] \in S \ {a}
      <4>1. \E y \in 1..n : y # k /\ s[x] = q[y]
        BY <1>1, <2>6
      <4> QED
        BY <1>2, <2>1, <2>2, <4>1
    <3>3. ASSUME NEW b \in S \ {a} PROVE b \in ToSet(s)
      <4>1. PICK y \in 1..n : q[y] = b
        BY <1>2
      <4>2. y # k
        BY <2>1, <4>1
      <4>3. CASE y < k
        <5>1. y \in 1..(n - 1)
          BY <1>1, <4>3
        <5>2. s[y] = b
          BY <2>6, <4>1, <4>3, <5>1
        <5> QED
          BY <3>1, <5>1, <5>2
      <4>4. CASE y > k
        <5>1. y - 1 \in 1..(n - 1) /\ ~(y - 1 < k) /\ y - 1 + 1 = y
          BY <1>1, <4>4
        <5>2. s[y - 1] = b
          BY <2>6, <4>1, <5>1
        <5> QED
          BY <3>1, <5>1, <5>2
      <4> QED
        BY <1>1, <4>2, <4>3, <4>4
    <3> QED
      BY <3>1, <3>2, <3>3
  <2>9. Cardinality(S \ {a}) = n - 1
    BY <1>1, <1>4, FS_Subset, FS_RemoveElement, AlertPanelAssumption
  <2>10. ListOf(s, S \ {a})
    <3> HIDE DEF s, n
    <3> QED
      BY <1>1, <2>6, <2>7, <2>8, <2>9 DEF ListOf
  <2> QED
    BY <2>4, <2>10
<1> QED
  BY <1>3, <1>4

AlertMessage(a) == [kind |-> "alert", alert |-> a]
OnWire(a) == AlertMessage(a) \in ToSet(wire)

\* Of an alert the server has not raised nothing is on its way or on screen, and while a copy of one is
\* on its way either the key of an earlier copy stands or none has been shown.
WireOK ==
    /\ unread \subseteq Alert /\ readOnes \in Seq(Alert)
    /\ wire \in Seq(Message) /\ Len(wire) <= MaxWire
    /\ recentKeys \subseteq Alert /\ toasts \in [Alert -> 0..1]
    /\ \A a \in Alert : a \notin unread /\ a \notin ToSet(readOnes) => ~OnWire(a) /\ toasts[a] = 0
    /\ \A a \in Alert : OnWire(a) /\ a \notin recentKeys => toasts[a] = 0

Loaded == IF windowLoaded = Unloaded THEN {} ELSE windowLoaded

\* What is on screen is in memory, and what is in memory is in the script's own list.
ListsOK ==
    /\ windowLoaded = Unloaded \/ windowLoaded \subseteq Alert
    /\ lexicalLoaded \subseteq Alert /\ Loaded \subseteq lexicalLoaded
    /\ ListOf(alertsList, Loaded)
    /\ bell \in [count : 0..(Cardinality(Alert) + 1), critical : BOOLEAN]
    /\ bell.count >= Cardinality(Loaded)

Call ==
    [kind : {"load"}, found : SUBSET Alert] \cup [kind : {"page"}, items : Seq(Alert)]
    \cup [kind : {"dismiss"}, alert : Alert, from : {"list", "toast"}, done : BOOLEAN]
    \cup [kind : {"clear"}, done : BOOLEAN]

PagesOK ==
    /\ historyVisible \in BOOLEAN /\ historyItems \in Seq(Alert)
    /\ historyOffset \in Nat /\ historyOffset = Len(historyItems)

AlertPanelInv ==
    /\ WireOK /\ ListsOK /\ PagesOK
    /\ alertCalls \subseteq Call /\ Cardinality(alertCalls) <= MaxCalls

\* The invariant of the alert panel gives what is stated of it.
LEMMA AlertPanelInvGives ==
    ASSUME AlertPanelInv
    PROVE  AlertPanelTypeOK /\ ListShowsLoaded /\ BellCountsTheList /\ ClearAllReaches /\ OneToast /\ HistoryContinues
<1> USE DEF AlertPanelInv
<1>1. ListOf(alertsList, Loaded) /\ alertsList \in Seq(Alert)
  BY DEF ListsOK, ListOf
<1>2. ListShowsLoaded
  BY <1>1 DEF ListShowsLoaded, ListOf, Loaded
<1>3. BellCountsTheList
  BY <1>1 DEF ListsOK, BellCountsTheList, ListOf
<1>4. ClearAllReaches
  <2>1. SUFFICES ASSUME alertsList # <<>> PROVE Loaded # {}
    BY DEF ClearAllReaches, ListsOK
  <2>2. Len(alertsList) # 0
    BY <1>1, <2>1, EmptySeq
  <2> QED
    BY <1>1, <2>2, FS_EmptySet DEF ListOf
<1>5. OneToast /\ toasts \in [Alert -> 0..MaxCopies]
  <2>1. MaxCopies \in Nat \ {0}
    BY AlertPanelAssumption
  <2>2. toasts \in [Alert -> 0..1]
    BY DEF WireOK
  <2> QED
    BY <2>1, <2>2 DEF OneToast
<1>6. HistoryContinues
  BY DEF PagesOK, HistoryContinues
<1>7. AlertPanelTypeOK
  <2>1. ToSet(readOnes) \subseteq Alert /\ ToSet(wire) \subseteq Message /\ ToSet(alertsList) \subseteq Alert /\ ToSet(historyItems) \subseteq Alert
    BY <1>1, ToSetOfSeq DEF WireOK, PagesOK
  <2> QED
    BY <1>5, <2>1 DEF WireOK, ListsOK, PagesOK, AlertPanelTypeOK
<1> QED
  BY <1>2, <1>3, <1>4, <1>5, <1>6, <1>7

\* Alerts can be counted.
LEMMA CardinalOfAlerts ==
    ASSUME NEW S \in SUBSET Alert
    PROVE  IsFiniteSet(S) /\ Cardinality(S) \in Nat /\ Cardinality(S) <= Cardinality(Alert) /\ Cardinality(Alert) \in Nat
BY FS_Subset, FS_CardinalityType, AlertPanelAssumption

\* The bell shows how many there are.
LEMMA BellForFits ==
    ASSUME NEW S \in SUBSET Alert
    PROVE  /\ BellFor(S) \in [count : 0..(Cardinality(Alert) + 1), critical : BOOLEAN]
           /\ BellFor(S).count = Cardinality(S)
<1> DEFINE n == Cardinality(S)
           c == (S \cap Critical # {})
<1>1. n \in 0..(Cardinality(Alert) + 1)
  BY CardinalOfAlerts
<1>2. c \in BOOLEAN
  OBVIOUS
<1>3. BellFor(S) = [count |-> n, critical |-> c]
  BY DEF BellFor
<1> HIDE DEF n, c
<1>4. BellFor(S) \in [count : 0..(Cardinality(Alert) + 1), critical : BOOLEAN] /\ BellFor(S).count = n
  BY <1>1, <1>2, <1>3
<1> QED
  BY <1>4 DEF n

\* What the panel asks for are calls.
LEMMA CallsAreCalls ==
    /\ unread \subseteq Alert => LoadCall \in Call
    /\ readOnes \in Seq(Alert) => \A offset \in Nat : PageCall(offset) \in Call
    /\ readOnes \in Seq(Alert) /\ historyOffset \in Nat => HistoryReload \subseteq Call
<1>1. unread \subseteq Alert => LoadCall \in Call
  BY DEF LoadCall, Call
<1>2. ASSUME readOnes \in Seq(Alert), NEW offset \in Nat PROVE PageCall(offset) \in Call
  <2> DEFINE end == IF offset + PageSize < Len(readOnes) THEN offset + PageSize ELSE Len(readOnes)
             items == SubSeq(readOnes, offset + 1, end)
  <2>1. Len(readOnes) \in Nat /\ PageSize \in Nat
    BY <1>2, LenProperties, AlertPanelAssumption
  <2>2. end \in Nat /\ end <= Len(readOnes)
    BY <2>1
  <2>3. items \in Seq(Alert)
    <3> HIDE DEF end
    <3>1. ASSUME NEW i \in (offset + 1)..end PROVE readOnes[i] \in Alert
      <4>1. i \in 1..Len(readOnes)
        BY <2>1, <2>2
      <4> QED
        BY <1>2, <4>1, ElementOfSeq
    <3> QED
      BY <1>2, <2>2, <3>1, SubSeqProperties
  <2>4. PageCall(offset) = [kind |-> "page", items |-> items]
    BY DEF PageCall
  <2> HIDE DEF items
  <2> QED
    BY <2>3, <2>4 DEF Call
<1>3. readOnes \in Seq(Alert) /\ historyOffset \in Nat => HistoryReload \subseteq Call
  BY <1>2 DEF HistoryReload
<1> QED
  BY <1>1, <1>2, <1>3

\* The alert panel starts in the invariant.
LEMMA AlertPanelInvInit == AlertPanelInit => AlertPanelInv
<1> SUFFICES ASSUME AlertPanelInit PROVE AlertPanelInv
  OBVIOUS
<1> USE DEF AlertPanelInit
<1>1. ToSet(<<>>) = {} /\ Len(<<>>) = 0 /\ Cardinality({}) = 0
  BY EmptyIsListed, FS_EmptySet DEF ListOf
<1>2. WireOK
  <2>1. MaxWire \in Nat
    BY AlertPanelAssumption
  <2>2. toasts \in [Alert -> 0..1] /\ \A a \in Alert : toasts[a] = 0
    OBVIOUS
  <2>3. readOnes \in Seq(Alert) /\ wire \in Seq(Message)
    OBVIOUS
  <2> QED
    BY <1>1, <2>1, <2>2, <2>3 DEF WireOK, OnWire
<1>3. ListsOK
  <2>1. Cardinality(Alert) \in Nat
    BY CardinalOfAlerts
  <2> QED
    BY <1>1, <2>1, EmptyIsListed DEF ListsOK, Loaded
<1>4. PagesOK
  <2>1. <<>> \in Seq(Alert)
    OBVIOUS
  <2> QED
    BY <1>1, <2>1 DEF PagesOK
<1>5. alertCalls \subseteq Call /\ Cardinality(alertCalls) <= MaxCalls
  <2>1. Cardinality(alertCalls) = 1
    BY FS_Singleton
  <2>2. MaxCalls \in Nat \ {0}
    BY AlertPanelAssumption
  <2> QED
    BY <2>1, <2>2 DEF Call
<1> QED
  BY <1>2, <1>3, <1>4, <1>5 DEF AlertPanelInv

-----------------------------------------------------------------------------
\* The list, when alerts leave it.
LEMMA Forgotten ==
    ASSUME AlertPanelInv, NEW a \in Alert, NEW calls \in SUBSET Call, Forget(a, calls)
    PROVE  /\ ListsOK' /\ alertCalls' \subseteq Call
           /\ toasts' = [toasts EXCEPT ![a] = 0]
<1> USE DEF AlertPanelInv
<1>1. toasts' = [toasts EXCEPT ![a] = 0] /\ lexicalLoaded' = lexicalLoaded /\ alertsList' = RemoveFirst(alertsList, a)
  BY DEF Forget
<1>2. LoadCall \in Call /\ HistoryReload \subseteq Call
  BY CallsAreCalls DEF WireOK, PagesOK
<1>3. alertCalls' \subseteq Call
  BY <1>2 DEF Forget
<1>4. Loaded \in SUBSET Alert
  BY DEF ListsOK, Loaded
<1>5. ListOf(alertsList', Loaded \ {a})
  BY <1>1, <1>4, RemovedIsListed DEF ListsOK
<1>6. ListsOK'
  <2>1. CASE windowLoaded = Unloaded
    <3>1. /\ windowLoaded' = windowLoaded
          /\ bell' = [count |-> CountDown(bell.count), critical |-> FALSE]
      BY <2>1 DEF Forget
    <3>2. bell.count \in 0..(Cardinality(Alert) + 1) /\ Cardinality(Alert) \in Nat
      BY CardinalOfAlerts DEF ListsOK
    <3>3. CountDown(bell.count) \in 0..(Cardinality(Alert) + 1)
      BY <3>2 DEF CountDown
    <3>4. bell' \in [count : 0..(Cardinality(Alert) + 1), critical : BOOLEAN] /\ bell'.count >= 0
      BY <3>1, <3>2, <3>3
    <3>5. Loaded' = {} /\ Loaded \ {a} = {} /\ Cardinality({}) = 0
      BY <2>1, <3>1, FS_EmptySet DEF Loaded
    <3> QED
      BY <1>1, <1>5, <2>1, <3>1, <3>4, <3>5 DEF ListsOK
  <2>2. CASE windowLoaded # Unloaded
    <3>1. windowLoaded' = windowLoaded \ {a} /\ bell' = BellFor(windowLoaded')
      BY <2>2 DEF Forget
    <3>2. windowLoaded' \subseteq Alert /\ windowLoaded' \subseteq lexicalLoaded
      BY <2>2, <3>1 DEF ListsOK, Loaded
    <3>3. windowLoaded' # Unloaded
      BY <3>2, AlertPanelAssumption
    <3>4. Loaded' = windowLoaded' /\ Loaded \ {a} = windowLoaded'
      BY <2>2, <3>1, <3>3 DEF Loaded
    <3>5. /\ bell' \in [count : 0..(Cardinality(Alert) + 1), critical : BOOLEAN]
          /\ bell'.count = Cardinality(Loaded') /\ Cardinality(Loaded') \in Nat
      BY <3>1, <3>2, <3>4, BellForFits, CardinalOfAlerts
    <3> QED
      BY <1>1, <1>5, <3>2, <3>4, <3>5 DEF ListsOK
  <2> QED
    BY <2>1, <2>2
<1> QED
  BY <1>1, <1>3, <1>6

\* Clearing all leaves lists without alerts.
LEMMA AllForgotten ==
    ASSUME AlertPanelInv, NEW calls \in SUBSET Call, ForgetAll(calls)
    PROVE  /\ ListsOK' /\ alertCalls' \subseteq Call
           /\ toasts' = [a \in Alert |-> 0]
<1> USE DEF AlertPanelInv
<1>1. /\ toasts' = [a \in Alert |-> 0] /\ lexicalLoaded' = lexicalLoaded /\ alertsList' = <<>>
      /\ windowLoaded' = {} /\ bell' = BellFor({}) /\ alertCalls' = calls \cup HistoryReload
  BY DEF ForgetAll
<1>2. HistoryReload \subseteq Call
  BY CallsAreCalls DEF WireOK, PagesOK
<1>3. Loaded' = {}
  BY <1>1 DEF Loaded
<1>4. /\ bell' \in [count : 0..(Cardinality(Alert) + 1), critical : BOOLEAN]
      /\ bell'.count = 0 /\ Cardinality({}) = 0
  BY <1>1, BellForFits, FS_EmptySet
<1>5. ListsOK'
  BY <1>1, <1>3, <1>4, EmptyIsListed DEF ListsOK
<1> QED
  BY <1>1, <1>2, <1>5

\* The lists of an answer.
LEMMA LoadedIsListed ==
    ASSUME NEW S \in SUBSET Alert, windowLoaded' = S, lexicalLoaded' = S, alertsList' = SetToSeq(S), bell' = BellFor(S)
    PROVE  ListsOK'
<1>1. Loaded' = S
  BY AlertPanelAssumption DEF Loaded
<1>2. /\ bell' \in [count : 0..(Cardinality(Alert) + 1), critical : BOOLEAN]
      /\ bell'.count = Cardinality(S) /\ Cardinality(S) \in Nat
  BY BellForFits, CardinalOfAlerts
<1> QED
  BY <1>1, <1>2, SetIsListed DEF ListsOK

\* An alert that arrives and is no copy of a recent one.
LEMMA ArrivedIsListed ==
    ASSUME AlertPanelInv, NEW a \in Alert, ~IsDuplicate(a), AlertArrives(a)
    PROVE  ListsOK' /\ alertCalls' \subseteq Call
<1> USE DEF AlertPanelInv
<1>1. LoadCall \in Call
  BY CallsAreCalls DEF WireOK
<1>2. alertCalls' \subseteq Call
  BY <1>1 DEF AlertArrives
<1> DEFINE known == IF windowLoaded = Unloaded THEN lexicalLoaded ELSE windowLoaded
           c == (a \in Critical)
<1>3. known \in SUBSET Alert
  BY DEF ListsOK
<1>4. /\ bell' \in [count : 0..(Cardinality(Alert) + 1), critical : BOOLEAN]
      /\ bell'.count = 1 + Cardinality(known) /\ Cardinality(known) \in Nat
  <2>1. bell' = [count |-> 1 + Cardinality(known), critical |-> c]
    BY DEF AlertArrives, Rung
  <2>2. 1 + Cardinality(known) \in 0..(Cardinality(Alert) + 1) /\ Cardinality(known) \in Nat
    <3> HIDE DEF known
    <3> QED
      BY <1>3, CardinalOfAlerts
  <2>3. c \in BOOLEAN
    OBVIOUS
  <2> HIDE DEF known, c
  <2> QED
    BY <2>1, <2>2, <2>3
<1>5. CASE windowLoaded = Unloaded
  <2>1. UNCHANGED <<windowLoaded, lexicalLoaded, alertsList>>
    BY <1>5 DEF AlertArrives
  <2>2. Loaded = {} /\ Loaded' = {} /\ Cardinality({}) = 0
    BY <1>5, <2>1, FS_EmptySet DEF Loaded
  <2> HIDE DEF known
  <2> QED
    BY <1>2, <1>4, <1>5, <2>1, <2>2 DEF ListsOK
<1>6. CASE windowLoaded # Unloaded /\ a \in windowLoaded
  <2>1. UNCHANGED <<windowLoaded, lexicalLoaded, alertsList>>
    BY <1>6 DEF AlertArrives
  <2>2. Loaded = known /\ Loaded' = known
    BY <1>6, <2>1 DEF Loaded
  <2> HIDE DEF known
  <2> QED
    BY <1>2, <1>4, <2>1, <2>2 DEF ListsOK
<1>7. CASE windowLoaded # Unloaded /\ a \notin windowLoaded
  <2>1. /\ windowLoaded' = windowLoaded \cup {a} /\ lexicalLoaded' = windowLoaded \cup {a}
        /\ alertsList' = <<a>> \o alertsList
    BY <1>7 DEF AlertArrives, Inserted
  <2>2. windowLoaded = known /\ Loaded = known /\ windowLoaded' \subseteq Alert
    BY <1>3, <1>7, <2>1 DEF Loaded
  <2>3. Loaded' = known \cup {a}
    BY <2>1, <2>2, AlertPanelAssumption DEF Loaded
  <2>4. Cardinality(known \cup {a}) = Cardinality(known) + 1
    <3> HIDE DEF known
    <3> QED
      BY <1>3, <1>7, <2>2, CardinalOfAlerts, FS_AddElement
  <2>5. ListOf(alertsList', known \cup {a})
    <3> HIDE DEF known
    <3> QED
      BY <1>3, <1>7, <2>1, <2>2, PrependedIsListed DEF ListsOK
  <2> HIDE DEF known
  <2> QED
    BY <1>2, <1>4, <2>1, <2>2, <2>3, <2>4, <2>5 DEF ListsOK
<1> QED
  BY <1>2, <1>5, <1>6, <1>7

-----------------------------------------------------------------------------
\* The messages and the toasts.

\* Steps that send nothing and at most take toasts away.
LEMMA WireKept ==
    ASSUME AlertPanelInv, UNCHANGED <<unread, readOnes, wire, recentKeys>>,
           \/ UNCHANGED toasts
           \/ \E a \in Alert : toasts' = [toasts EXCEPT ![a] = 0]
           \/ \E a \in Alert : toasts[a] > 0 /\ toasts' = [toasts EXCEPT ![a] = @ - 1]
           \/ toasts' = [a \in Alert |-> 0]
    PROVE  WireOK'
<1> USE DEF AlertPanelInv
<1>1. toasts \in [Alert -> 0..1]
  BY DEF WireOK
<1>2. toasts' \in [Alert -> 0..1] /\ \A b \in Alert : toasts[b] = 0 => toasts'[b] = 0
  BY <1>1
<1> QED
  BY <1>2 DEF WireOK, OnWire

\* The server marks a set of alerts as read and says so.
OnlyDismissals(messages) == messages \in Seq(Message) /\ \A a \in Alert : AlertMessage(a) \notin ToSet(messages)

\* Alerts that were read keep the messages on their way right, which take them off the list.
LEMMA ReadIsKept ==
    ASSUME AlertPanelInv, NEW S, NEW messages, OnlyDismissals(messages), MarkedRead(S, messages),
           UNCHANGED <<toasts, recentKeys>>
    PROVE  WireOK'
<1> USE DEF AlertPanelInv
<1>1. /\ Len(wire) + Len(messages) <= MaxWire /\ unread' = unread \ S
      /\ readOnes' = SetToSeq(S \cap unread) \o readOnes /\ wire' = wire \o messages
  BY DEF MarkedRead
<1>2. wire' \in Seq(Message) /\ ToSet(wire') = ToSet(wire) \cup ToSet(messages) /\ Len(wire') <= MaxWire
  BY <1>1, ToSetOfConcat DEF WireOK, OnlyDismissals
<1>3. readOnes' \in Seq(Alert) /\ ToSet(readOnes') = (S \cap unread) \cup ToSet(readOnes)
  <2> DEFINE q == SetToSeq(S \cap unread)
  <2>1. S \cap unread \in SUBSET Alert
    BY DEF WireOK
  <2>2. q \in Seq(Alert) /\ ToSet(q) = S \cap unread
    BY <2>1, SetIsListed DEF ListOf
  <2> HIDE DEF q
  <2>3. readOnes' = q \o readOnes
    BY <1>1 DEF q
  <2>4. readOnes \in Seq(Alert)
    BY DEF WireOK
  <2>5. q \o readOnes \in Seq(Alert) /\ ToSet(q \o readOnes) = ToSet(q) \cup ToSet(readOnes)
    BY <2>2, <2>4, ToSetOfConcat
  <2> QED
    BY <2>2, <2>3, <2>5
<1>4. ASSUME NEW a \in Alert, OnWire(a)' PROVE OnWire(a)
  BY <1>2, <1>4 DEF OnWire, OnlyDismissals
<1>5. ASSUME NEW a \in Alert, a \notin unread', a \notin ToSet(readOnes') PROVE a \notin unread /\ a \notin ToSet(readOnes)
  BY <1>1, <1>3, <1>5
<1> QED
  BY <1>1, <1>2, <1>3, <1>4, <1>5 DEF WireOK

\* Messages of dismissals raise no toast.
LEMMA DismissalsAreQuiet ==
    /\ \A a \in Alert : OnlyDismissals(<<Dismissal(a)>>)
    /\ OnlyDismissals(<<[kind |-> "cleared"]>>)
    /\ \A S \in SUBSET Alert : OnlyDismissals([i \in 1..Cardinality(S) |-> Dismissal(SetToSeq(S)[i])])
<1>1. ASSUME NEW m \in Message, m.kind # "alert" PROVE OnlyDismissals(<<m>>)
  <2>1. <<m>> \in Seq(Message) /\ ToSet(<<m>>) = {m}
    BY DEF ToSet
  <2> QED
    BY <1>1, <2>1 DEF OnlyDismissals, AlertMessage
<1>2. ASSUME NEW a \in Alert PROVE Dismissal(a) \in Message /\ Dismissal(a).kind # "alert"
  BY DEF Dismissal, Message
<1>3. [kind |-> "cleared"] \in Message /\ [kind |-> "cleared"].kind # "alert"
  BY DEF Message
<1>4. ASSUME NEW S \in SUBSET Alert PROVE OnlyDismissals([i \in 1..Cardinality(S) |-> Dismissal(SetToSeq(S)[i])])
  <2> DEFINE n == Cardinality(S)
             q == SetToSeq(S)
             ms == [i \in 1..n |-> Dismissal(q[i])]
  <2>1. n \in Nat
    BY CardinalOfAlerts
  <2>2. \A i \in 1..n : q[i] \in Alert
    <3>1. ListOf(q, S)
      BY SetIsListed
    <3> HIDE DEF q
    <3> QED
      BY <3>1, ElementOfSeq DEF ListOf
  <2> HIDE DEF n, q
  <2>3. \A i \in 1..n : ms[i] \in Message /\ ms[i].kind # "alert"
    BY <1>2, <2>2
  <2>4. ms \in Seq(Message) /\ Len(ms) = n
    <3>1. ms \in [1..n -> Message]
      BY <2>3
    <3> HIDE DEF ms
    <3> QED
      BY <2>1, <3>1, SeqDef, LenProperties
  <2>5. ToSet(ms) = {ms[i] : i \in 1..n}
    <3> HIDE DEF ms
    <3> QED
      BY <2>4, ToSetOfSeq
  <2>6. OnlyDismissals(ms)
    <3> HIDE DEF ms
    <3> QED
      BY <2>3, <2>4, <2>5 DEF OnlyDismissals, AlertMessage
  <2> QED
    BY <2>6 DEF n, q
<1> QED
  BY <1>1, <1>2, <1>3, <1>4

\* An alert raised is on its way to the panel, in however many copies.
LEMMA RaisedIsKept ==
    ASSUME AlertPanelInv, NEW a \in Alert, NEW copies \in 1..MaxCopies, Raise(a, copies)
    PROVE  WireOK'
<1> USE DEF AlertPanelInv
<1> DEFINE ms == [i \in 1..copies |-> AlertMessage(a)]
<1>1. /\ a \notin unread /\ a \notin ToSet(readOnes) /\ Len(wire) + copies <= MaxWire
      /\ unread' = unread \cup {a} /\ wire' = wire \o ms
      /\ UNCHANGED <<readOnes, toasts, recentKeys>>
  BY DEF Raise, AlertMessage
<1>2. copies \in Nat /\ copies >= 1
  BY AlertPanelAssumption
<1>3. ms \in Seq(Message) /\ Len(ms) = copies /\ ToSet(ms) \subseteq {AlertMessage(a)}
  <2>1. AlertMessage(a) \in Message
    BY DEF AlertMessage, Message
  <2>2. ms \in [1..copies -> Message] /\ \A i \in 1..copies : ms[i] = AlertMessage(a)
    BY <2>1
  <2> HIDE DEF ms
  <2>3. ms \in Seq(Message) /\ Len(ms) = copies
    BY <1>2, <2>2, SeqDef, LenProperties
  <2> QED
    BY <2>2, <2>3, ToSetOfSeq
<1> HIDE DEF ms
<1>4. wire \in Seq(Message)
  BY DEF WireOK
<1>5. wire \o ms \in Seq(Message) /\ ToSet(wire \o ms) = ToSet(wire) \cup ToSet(ms) /\ Len(wire \o ms) = Len(wire) + Len(ms)
  BY <1>3, <1>4, ToSetOfConcat
<1>6. ASSUME NEW b \in Alert, OnWire(b)' PROVE OnWire(b) \/ b = a
  BY <1>1, <1>3, <1>5, <1>6 DEF OnWire, AlertMessage
<1>7. toasts'[a] = 0
  BY <1>1 DEF WireOK
<1> QED
  BY <1>1, <1>3, <1>5, <1>6, <1>7 DEF WireOK

\* A message is taken off the wire; one of an alert is of one that was on it.
LEMMA TakenIsKept ==
    ASSUME AlertPanelInv, wire # <<>>, wire' = Tail(wire), UNCHANGED <<unread, readOnes>>,
           LET m == Head(wire) IN
           \/ m.kind = "alert" /\ IF IsDuplicate(m.alert) THEN UNCHANGED <<toasts, recentKeys>>
                                  ELSE /\ recentKeys' = recentKeys \cup {m.alert}
                                       /\ toasts' = [toasts EXCEPT ![m.alert] = @ + 1]
           \/ m.kind = "dismissed" /\ recentKeys' = recentKeys /\ toasts' = [toasts EXCEPT ![m.alert] = 0]
           \/ recentKeys' = recentKeys /\ toasts' = [a \in Alert |-> 0]
    PROVE  WireOK'
<1> USE DEF AlertPanelInv
<1> DEFINE m == Head(wire)
<1>1. wire \in Seq(Message) /\ toasts \in [Alert -> 0..1] /\ MaxWire \in Nat
  BY AlertPanelAssumption DEF WireOK
<1>2. wire' \in Seq(Message) /\ ToSet(wire') \subseteq ToSet(wire) /\ m \in ToSet(wire) /\ m \in Message /\ Len(wire') = Len(wire) - 1
  BY <1>1, ToSetOfTail
<1>3. Len(wire') <= MaxWire
  <2>1. Len(wire) \in Nat /\ Len(wire) <= MaxWire
    BY <1>1, LenProperties DEF WireOK
  <2> QED
    BY <1>1, <1>2, <2>1
<1>4. \A a \in Alert : OnWire(a)' => OnWire(a)
  BY <1>2 DEF OnWire
<1>5. m.kind \in {"alert", "dismissed"} => m.alert \in Alert
  BY <1>2 DEF Message
<1>6. m.kind = "alert" => OnWire(m.alert)
  <2>1. m.kind = "alert" => m = AlertMessage(m.alert)
    BY <1>2 DEF Message, AlertMessage
  <2> QED
    BY <1>2, <2>1 DEF OnWire
<1>7. \/ m.kind = "alert" /\ IsDuplicate(m.alert) /\ UNCHANGED <<toasts, recentKeys>>
      \/ /\ m.kind = "alert" /\ ~IsDuplicate(m.alert)
         /\ recentKeys' = recentKeys \cup {m.alert} /\ toasts' = [toasts EXCEPT ![m.alert] = @ + 1]
      \/ m.kind = "dismissed" /\ recentKeys' = recentKeys /\ toasts' = [toasts EXCEPT ![m.alert] = 0]
      \/ recentKeys' = recentKeys /\ toasts' = [a \in Alert |-> 0]
  OBVIOUS
<1> HIDE DEF m
<1>8. CASE m.kind = "alert" /\ IsDuplicate(m.alert) /\ UNCHANGED <<toasts, recentKeys>>
  BY <1>2, <1>3, <1>4, <1>8 DEF WireOK
<1>9. CASE m.kind = "alert" /\ ~IsDuplicate(m.alert)
           /\ recentKeys' = recentKeys \cup {m.alert} /\ toasts' = [toasts EXCEPT ![m.alert] = @ + 1]
  <2>1. toasts[m.alert] = 0 /\ m.alert \in Alert
    BY <1>5, <1>6, <1>9 DEF WireOK, IsDuplicate
  <2>2. toasts' \in [Alert -> 0..1] /\ \A b \in Alert : b # m.alert => toasts'[b] = toasts[b]
    BY <1>1, <1>9, <2>1
  <2>3. recentKeys' \subseteq Alert /\ m.alert \in recentKeys' /\ recentKeys \subseteq recentKeys'
    BY <1>9, <2>1 DEF WireOK
  <2>4. m.alert \in unread \/ m.alert \in ToSet(readOnes)
    BY <1>6, <1>9, <2>1 DEF WireOK
  <2> QED
    BY <1>2, <1>3, <1>4, <2>2, <2>3, <2>4 DEF WireOK
<1>10. CASE m.kind = "dismissed" /\ recentKeys' = recentKeys /\ toasts' = [toasts EXCEPT ![m.alert] = 0]
  <2>1. toasts' \in [Alert -> 0..1] /\ \A b \in Alert : toasts[b] = 0 => toasts'[b] = 0
    BY <1>1, <1>5, <1>10
  <2> QED
    BY <1>2, <1>3, <1>4, <1>10, <2>1 DEF WireOK
<1>11. CASE recentKeys' = recentKeys /\ toasts' = [a \in Alert |-> 0]
  <2>1. toasts' \in [Alert -> 0..1] /\ \A b \in Alert : toasts'[b] = 0
    BY <1>11
  <2> QED
    BY <1>2, <1>3, <1>4, <1>11, <2>1 DEF WireOK
<1> QED
  BY <1>7, <1>8, <1>9, <1>10, <1>11

-----------------------------------------------------------------------------
\* What leaves a part of the state alone keeps what holds of it.
LEMMA ListsKept == ASSUME AlertPanelInv, UNCHANGED panelLists PROVE ListsOK'
<1>1. Loaded' = Loaded
  BY DEF panelLists, Loaded
<1> QED
  BY <1>1 DEF AlertPanelInv, ListsOK, panelLists
\* Steps that do not touch the paged history keep it.
LEMMA PagesKept == ASSUME AlertPanelInv, UNCHANGED panelHistory PROVE PagesOK'
BY DEF AlertPanelInv, PagesOK, panelHistory
\* A paged history that starts again is right.
LEMMA PagesReset ==
    ASSUME AlertPanelInv, historyVisible' \in BOOLEAN, historyOffset' = 0, historyItems' = <<>> PROVE PagesOK'
<1>1. <<>> \in Seq(Alert) /\ Len(<<>>) = 0
  OBVIOUS
<1> QED
  BY <1>1 DEF PagesOK

\* What the server sends, and what expires, keep the invariant.
LEMMA ServerSends ==
    ASSUME AlertPanelInv, CallsBounded, NEW a \in Alert,
           \/ \E copies \in 1..MaxCopies : Raise(a, copies)
           \/ ReadElsewhere(a) \/ OtherTabDismisses(a) \/ KeyExpires(a) \/ ToastExpires(a)
    PROVE  AlertPanelInv'
<1> USE DEF AlertPanelInv
<1>0. Cardinality(alertCalls') <= MaxCalls
  BY DEF CallsBounded
<1>1. ASSUME WireOK', UNCHANGED <<panelLists, panelHistory, alertCalls>> PROVE AlertPanelInv'
  BY <1>0, <1>1, ListsKept, PagesKept
<1>2. ASSUME NEW copies \in 1..MaxCopies, Raise(a, copies) PROVE AlertPanelInv'
  BY <1>1, <1>2, RaisedIsKept DEF Raise
<1>3. CASE ReadElsewhere(a)
  BY <1>1, <1>3, ReadIsKept, DismissalsAreQuiet DEF ReadElsewhere
<1>4. CASE OtherTabDismisses(a)
  <2>1. Forget(a, alertCalls) /\ UNCHANGED <<unread, readOnes, wire, recentKeys, panelHistory>>
    BY <1>4 DEF OtherTabDismisses, panelServer
  <2>2. ListsOK' /\ alertCalls' \subseteq Call /\ toasts' = [toasts EXCEPT ![a] = 0]
    BY <2>1, Forgotten
  <2> QED
    BY <1>0, <2>1, <2>2, WireKept, PagesKept
<1>5. CASE KeyExpires(a)
  <2>1. /\ AlertMessage(a) \notin ToSet(wire) /\ recentKeys' = recentKeys \ {a}
        /\ UNCHANGED <<unread, readOnes, wire, panelLists, toasts, alertCalls, panelHistory>>
    BY <1>5 DEF KeyExpires, panelServer, AlertMessage
  <2>2. WireOK'
    BY <2>1 DEF WireOK, OnWire
  <2> QED
    BY <1>1, <2>1, <2>2
<1>6. CASE ToastExpires(a)
  <2>1. /\ toasts[a] > 0 /\ toasts' = [toasts EXCEPT ![a] = @ - 1]
        /\ UNCHANGED <<unread, readOnes, wire, panelLists, recentKeys, alertCalls, panelHistory>>
    BY <1>6 DEF ToastExpires, panelServer
  <2> QED
    BY <1>1, <2>1, WireKept
<1> QED
  BY <1>2, <1>3, <1>4, <1>5, <1>6

\* A message that arrives keeps it: a copy of an alert raises no second toast.
LEMMA MessageIsTaken ==
    ASSUME AlertPanelInv, CallsBounded, MessageArrives PROVE AlertPanelInv'
<1> USE DEF AlertPanelInv
<1> DEFINE m == Head(wire)
<1>0. Cardinality(alertCalls') <= MaxCalls
  BY DEF CallsBounded
<1>1. /\ wire # <<>> /\ wire' = Tail(wire) /\ UNCHANGED <<unread, readOnes, panelHistory>>
      /\ \/ m.kind = "alert" /\ AlertArrives(m.alert)
         \/ m.kind = "dismissed" /\ Forget(m.alert, alertCalls) /\ UNCHANGED recentKeys
         \/ m.kind = "cleared" /\ ForgetAll(alertCalls) /\ UNCHANGED recentKeys
  BY DEF MessageArrives
<1>2. m.kind \in {"alert", "dismissed"} => m.alert \in Alert
  <2>1. m \in Message
    BY <1>1, ToSetOfTail DEF WireOK
  <2> QED
    BY <2>1 DEF Message
<1>3. ASSUME ListsOK', alertCalls' \subseteq Call, WireOK' PROVE AlertPanelInv'
  BY <1>0, <1>1, <1>3, PagesKept
<1>4. CASE m.kind = "alert" /\ AlertArrives(m.alert)
  <2>1. IF IsDuplicate(m.alert) THEN UNCHANGED <<panelLists, toasts, recentKeys, alertCalls>>
        ELSE /\ recentKeys' = recentKeys \cup {m.alert}
             /\ toasts' = [toasts EXCEPT ![m.alert] = @ + 1]
    BY <1>4 DEF AlertArrives
  <2>2. WireOK'
    BY <1>1, <1>4, <2>1, TakenIsKept
  <2>3. ListsOK' /\ alertCalls' \subseteq Call
    BY <1>2, <1>4, <2>1, ListsKept, ArrivedIsListed
  <2> QED
    BY <1>3, <2>2, <2>3
<1>5. CASE m.kind = "dismissed" /\ Forget(m.alert, alertCalls) /\ UNCHANGED recentKeys
  <2>1. ListsOK' /\ alertCalls' \subseteq Call /\ toasts' = [toasts EXCEPT ![m.alert] = 0]
    BY <1>2, <1>5, Forgotten
  <2>2. WireOK'
    BY <1>1, <1>5, <2>1, TakenIsKept
  <2> QED
    BY <1>3, <2>1, <2>2
<1>6. CASE m.kind = "cleared" /\ ForgetAll(alertCalls) /\ UNCHANGED recentKeys
  <2>1. ListsOK' /\ alertCalls' \subseteq Call /\ toasts' = [a \in Alert |-> 0]
    BY <1>6, AllForgotten
  <2>2. WireOK'
    BY <1>1, <1>6, <2>1, TakenIsKept
  <2> QED
    BY <1>3, <2>1, <2>2
<1> QED
  BY <1>1, <1>4, <1>5, <1>6

\* What the user does keeps it.
LEMMA UserOfAlerts ==
    ASSUME AlertPanelInv, CallsBounded,
           \/ \E a \in Alert, from \in {"list", "toast"} : DismissAlert(a, from)
           \/ LoadAlerts \/ OpenAlertsModal \/ ClearAllAlerts \/ ToggleAlertHistory \/ LoadMoreAlertHistory
    PROVE  AlertPanelInv'
<1> USE DEF AlertPanelInv
<1>0. Cardinality(alertCalls') <= MaxCalls
  BY DEF CallsBounded
<1>1. LoadCall \in Call /\ \A offset \in Nat : PageCall(offset) \in Call
  BY CallsAreCalls DEF WireOK
<1>2. ASSUME UNCHANGED <<panelServer, panelLists, toasts, recentKeys>>, alertCalls' \subseteq Call, PagesOK' PROVE AlertPanelInv'
  BY <1>0, <1>2, WireKept, ListsKept DEF panelServer
<1>3. CASE \E a \in Alert, from \in {"list", "toast"} : DismissAlert(a, from)
  <2>1. PICK a \in Alert, from \in {"list", "toast"} : DismissAlert(a, from)
    BY <1>3
  <2> DEFINE c == [kind |-> "dismiss", alert |-> a, from |-> from, done |-> FALSE]
  <2>2. Forget(a, alertCalls \cup {c}) /\ UNCHANGED <<unread, readOnes, wire, recentKeys, panelHistory>>
    BY <2>1 DEF DismissAlert, panelServer
  <2>3. c \in Call
    BY DEF Call
  <2>4. alertCalls \cup {c} \in SUBSET Call
    BY <2>3
  <2> HIDE DEF c
  <2>5. ListsOK' /\ alertCalls' \subseteq Call /\ toasts' = [toasts EXCEPT ![a] = 0]
    BY <2>2, <2>4, Forgotten
  <2> QED
    BY <1>0, <2>2, <2>5, WireKept, PagesKept
<1>4. CASE LoadAlerts
  BY <1>1, <1>2, <1>4, PagesKept DEF LoadAlerts
<1>5. CASE OpenAlertsModal
  BY <1>1, <1>2, <1>5, PagesReset DEF OpenAlertsModal
<1>6. CASE ClearAllAlerts
  <2> DEFINE c == [kind |-> "clear", done |-> FALSE]
  <2>2. ForgetAll(alertCalls \cup {c}) /\ UNCHANGED <<unread, readOnes, wire, recentKeys, panelHistory>>
    BY <1>6 DEF ClearAllAlerts, panelServer
  <2>3. c \in Call
    BY DEF Call
  <2>4. alertCalls \cup {c} \in SUBSET Call
    BY <2>3
  <2> HIDE DEF c
  <2>5. ListsOK' /\ alertCalls' \subseteq Call /\ toasts' = [a \in Alert |-> 0]
    BY <2>2, <2>4, AllForgotten
  <2> QED
    BY <1>0, <2>2, <2>5, WireKept, PagesKept
<1>7. CASE ToggleAlertHistory
  <2>1. historyVisible' \in BOOLEAN /\ UNCHANGED <<panelServer, panelLists, toasts, recentKeys>>
    BY <1>7 DEF ToggleAlertHistory
  <2>2. CASE historyVisible
    <3>1. UNCHANGED <<historyOffset, historyItems, alertCalls>>
      BY <1>7, <2>2 DEF ToggleAlertHistory
    <3>2. PagesOK'
      BY <2>1, <3>1 DEF PagesOK
    <3> QED
      BY <1>2, <2>1, <3>1, <3>2
  <2>3. CASE ~historyVisible
    <3>1. historyOffset' = 0 /\ historyItems' = <<>> /\ alertCalls' = alertCalls \cup {PageCall(0)}
      BY <1>7, <2>3 DEF ToggleAlertHistory
    <3> QED
      BY <1>1, <1>2, <2>1, <3>1, PagesReset
  <2> QED
    BY <2>2, <2>3
<1>8. CASE LoadMoreAlertHistory
  BY <1>1, <1>2, <1>8, PagesKept DEF LoadMoreAlertHistory, PagesOK
<1> QED
  BY <1>3, <1>4, <1>5, <1>6, <1>7, <1>8

\* The answers.
LEMMA AlertAnswers ==
    ASSUME AlertPanelInv, CallsBounded, NEW c \in alertCalls,
           AlertsLoaded(c) \/ HistoryLoaded(c) \/ ServerReads(c) \/ Dismissed(c) \/ AllCleared(c) \/ CallFails(c)
    PROVE  AlertPanelInv'
<1> USE DEF AlertPanelInv
<1>0. Cardinality(alertCalls') <= MaxCalls
  BY DEF CallsBounded
<1>1. c \in Call /\ \A offset \in Nat : PageCall(offset) \in Call
  BY CallsAreCalls DEF WireOK
<1>2. alertCalls \ {c} \in SUBSET Call /\ (alertCalls \ {c}) \cup {PageCall(0)} \in SUBSET Call
  BY <1>1
<1>3. CASE AlertsLoaded(c)
  <2>1. c.found \in SUBSET Alert
    BY <1>1, <1>3 DEF AlertsLoaded, Call
  <2>2. ListsOK'
    BY <1>3, <2>1, LoadedIsListed DEF AlertsLoaded
  <2>3. alertCalls' \subseteq Call /\ UNCHANGED <<unread, readOnes, wire, toasts, recentKeys, panelHistory>>
    BY <1>2, <1>3 DEF AlertsLoaded, panelServer
  <2> QED
    BY <1>0, <2>2, <2>3, WireKept, PagesKept
<1>4. CASE HistoryLoaded(c)
  <2>1. c.items \in Seq(Alert)
    BY <1>1, <1>4 DEF HistoryLoaded, Call
  <2> DEFINE earlier == IF historyOffset = 0 THEN <<>> ELSE historyItems
             items == c.items
  <2>2. historyItems' = earlier \o items /\ historyOffset' = historyOffset + Len(items) /\ historyVisible' = historyVisible
    BY <1>4 DEF HistoryLoaded
  <2>3. earlier \in Seq(Alert) /\ Len(earlier) = historyOffset
    <3>1. <<>> \in Seq(Alert) /\ Len(<<>>) = 0
      OBVIOUS
    <3> QED
      BY <3>1 DEF PagesOK
  <2>4. PagesOK'
    <3> HIDE DEF earlier, items
    <3>1. earlier \o items \in Seq(Alert) /\ Len(earlier \o items) = Len(earlier) + Len(items)
      BY <2>1, <2>3, ToSetOfConcat DEF items
    <3>2. Len(items) \in Nat
      BY <2>1, LenProperties DEF items
    <3> QED
      BY <2>2, <2>3, <3>1, <3>2 DEF PagesOK
  <2>5. alertCalls' \subseteq Call /\ UNCHANGED <<unread, readOnes, wire, panelLists, toasts, recentKeys>>
    BY <1>2, <1>4 DEF HistoryLoaded, panelServer
  <2> QED
    BY <1>0, <2>4, <2>5, WireKept, ListsKept
<1>5. CASE ServerReads(c)
  <2>1. c.kind \in {"dismiss", "clear"} /\ UNCHANGED <<panelLists, toasts, recentKeys, panelHistory>>
    BY <1>5 DEF ServerReads
  <2>2. [c EXCEPT !.done = TRUE] \in Call
    <3>1. c \in [kind : {"dismiss"}, alert : Alert, from : {"list", "toast"}, done : BOOLEAN] \cup [kind : {"clear"}, done : BOOLEAN]
      BY <1>1, <2>1 DEF Call
    <3>2. [c EXCEPT !.done = TRUE] \in [kind : {"dismiss"}, alert : Alert, from : {"list", "toast"}, done : BOOLEAN] \cup [kind : {"clear"}, done : BOOLEAN]
      BY <3>1
    <3> QED
      BY <3>2 DEF Call
  <2>3. alertCalls' \subseteq Call
    BY <1>2, <1>5, <2>2 DEF ServerReads
  <2>4. WireOK'
    <3>1. CASE c.kind = "dismiss" /\ MarkedRead({c.alert}, <<Dismissal(c.alert)>>)
      <4>1. c.alert \in Alert
        BY <1>1, <3>1 DEF Call
      <4> QED
        BY <2>1, <3>1, <4>1, ReadIsKept, DismissalsAreQuiet
    <3>2. CASE MarkedRead(unread, <<[kind |-> "cleared"]>>)
      BY <2>1, <3>2, ReadIsKept, DismissalsAreQuiet
    <3>3. ASSUME NEW S \in SUBSET lexicalLoaded, MarkedRead(S, [i \in 1..Cardinality(S) |-> Dismissal(SetToSeq(S)[i])])
          PROVE  WireOK'
      <4>1. S \in SUBSET Alert
        BY DEF ListsOK
      <4> QED
        BY <2>1, <3>3, <4>1, ReadIsKept, DismissalsAreQuiet
    <3> QED
      BY <1>5, <3>1, <3>2, <3>3 DEF ServerReads
  <2> QED
    BY <1>0, <2>1, <2>3, <2>4, ListsKept, PagesKept
<1>6. CASE Dismissed(c)
  <2>1. c.alert \in Alert /\ UNCHANGED <<unread, readOnes, wire, recentKeys, historyVisible>>
    BY <1>1, <1>6 DEF Dismissed, Call, panelServer
  <2>2. \/ Forget(c.alert, (alertCalls \ {c}) \cup {PageCall(0)}) /\ historyOffset' = 0 /\ historyItems' = <<>>
        \/ Forget(c.alert, alertCalls \ {c}) /\ UNCHANGED <<historyOffset, historyItems>>
    BY <1>6 DEF Dismissed
  <2>3. ListsOK' /\ alertCalls' \subseteq Call /\ toasts' = [toasts EXCEPT ![c.alert] = 0]
    BY <1>2, <2>1, <2>2, Forgotten
  <2>4. PagesOK'
    BY <2>1, <2>2, PagesReset, PagesKept DEF panelHistory, PagesOK
  <2> QED
    BY <1>0, <2>1, <2>3, <2>4, WireKept
<1>7. CASE AllCleared(c)
  <2>1. UNCHANGED <<unread, readOnes, wire, recentKeys, historyVisible>>
    BY <1>7 DEF AllCleared, panelServer
  <2>2. \/ ForgetAll((alertCalls \ {c}) \cup {PageCall(0)}) /\ historyOffset' = 0 /\ historyItems' = <<>>
        \/ ForgetAll(alertCalls \ {c}) /\ UNCHANGED <<historyOffset, historyItems>>
    BY <1>7 DEF AllCleared
  <2>3. ListsOK' /\ alertCalls' \subseteq Call /\ toasts' = [a \in Alert |-> 0]
    BY <1>2, <2>2, AllForgotten
  <2>4. PagesOK'
    BY <2>1, <2>2, PagesReset, PagesKept DEF panelHistory, PagesOK
  <2> QED
    BY <1>0, <2>1, <2>3, <2>4, WireKept
<1>8. CASE CallFails(c)
  <2>1. alertCalls' \subseteq Call /\ UNCHANGED <<unread, readOnes, wire, panelLists, toasts, recentKeys, panelHistory>>
    BY <1>2, <1>8 DEF CallFails, panelServer
  <2> QED
    BY <1>0, <2>1, WireKept, ListsKept, PagesKept
<1> QED
  BY <1>3, <1>4, <1>5, <1>6, <1>7, <1>8

\* Every step of the alert panel keeps its invariant.
LEMMA AlertPanelKept == AlertPanelInv /\ AlertPanelNext => AlertPanelInv'
BY ServerSends, MessageIsTaken, UserOfAlerts, AlertAnswers DEF AlertPanelNext, AlertPanelStep

\* A step of another part keeps it.
LEMMA AlertPanelStutter == AlertPanelInv /\ UNCHANGED alertPanelVars => AlertPanelInv'
<1> SUFFICES ASSUME AlertPanelInv, UNCHANGED alertPanelVars PROVE AlertPanelInv'
  OBVIOUS
<1>1. /\ UNCHANGED <<unread, readOnes, wire, toasts, recentKeys, alertCalls>>
      /\ UNCHANGED panelLists /\ UNCHANGED panelHistory
  BY DEF alertPanelVars, panelLists, panelHistory
<1> QED
  BY <1>1, WireKept, ListsKept, PagesKept DEF AlertPanelInv

-----------------------------------------------------------------------------
(* The own position. *)
LocationInv ==
    /\ mustAsk \in BOOLEAN /\ locating \in BOOLEAN /\ compassOn \in BOOLEAN /\ compassKnown \in BOOLEAN
    /\ watches \in Nat /\ asked \in 0..MaxAsked
    /\ dotAt \in 0..Places /\ circleAt \in 0..Places /\ coneAt \in 0..Places
    /\ OffDrawsNothing /\ OneWatch

\* The invariant of the own position gives what is stated of it.
LEMMA LocationInvGives == ASSUME LocationInv PROVE UserLocationTypeOK /\ OffDrawsNothing /\ OneWatch
BY DEF LocationInv, UserLocationTypeOK

\* The own position starts in the invariant.
LEMMA LocationInvInit == ASSUME UserLocationInit PROVE LocationInv
<1>1. /\ mustAsk \in BOOLEAN /\ locating = FALSE /\ watches = 0 /\ asked = 0
      /\ compassOn = FALSE /\ compassKnown = FALSE /\ dotAt = 0 /\ circleAt = 0 /\ coneAt = 0
  BY DEF UserLocationInit
<1>2. locating \in BOOLEAN /\ compassOn \in BOOLEAN /\ compassKnown \in BOOLEAN /\ ~locating
  BY <1>1
<1> QED
  BY <1>1, <1>2, UserLocationAssumption DEF LocationInv, OffDrawsNothing, OneWatch

\* Every step of the own position keeps it.
LEMMA LocationStep == ASSUME LocationInv, UserLocationNext PROVE LocationInv'
<1>0. /\ mustAsk \in BOOLEAN /\ locating \in BOOLEAN /\ compassOn \in BOOLEAN /\ compassKnown \in BOOLEAN
      /\ watches \in Nat /\ asked \in 0..MaxAsked
      /\ dotAt \in 0..Places /\ circleAt \in 0..Places /\ coneAt \in 0..Places
      /\ MaxAsked \in Nat /\ Places \in Nat /\ 0 \in 0..Places
  BY UserLocationAssumption DEF LocationInv
<1>1. CASE StartUserLocation
  <2>1. locating' = TRUE /\ watches' = 1 /\ UNCHANGED <<mustAsk, compassKnown, dotAt, circleAt, coneAt>>
    BY <1>1, <1>0 DEF StartUserLocation, LocationInv, OffDrawsNothing
  <2>2. asked' \in 0..MaxAsked /\ compassOn' \in BOOLEAN
    <3>1. CASE mustAsk
      <4>1. asked < MaxAsked /\ asked' = asked + 1 /\ compassOn' = compassOn
        BY <1>1, <3>1 DEF StartUserLocation
      <4> QED
        BY <4>1, <1>0
    <3>2. CASE ~mustAsk
      <4>1. asked' = asked /\ compassOn' = TRUE
        BY <1>1, <3>2 DEF StartUserLocation
      <4> QED
        BY <4>1, <1>0
    <3> QED
      BY <3>1, <3>2
  <2>3. locating' \in BOOLEAN
    BY <2>1
  <2> QED
    BY <2>1, <2>2, <2>3, <1>0 DEF LocationInv, OffDrawsNothing, OneWatch
<1>2. CASE StopUserLocation
  <2>1. /\ locating' = FALSE /\ watches' = 0 /\ compassOn' = FALSE /\ compassKnown' = FALSE
        /\ dotAt' = 0 /\ circleAt' = 0 /\ coneAt' = 0 /\ UNCHANGED <<mustAsk, asked>>
    BY <1>2 DEF StopUserLocation
  <2>2. locating' \in BOOLEAN /\ compassOn' \in BOOLEAN /\ compassKnown' \in BOOLEAN /\ ~locating'
    BY <2>1
  <2> QED
    BY <2>1, <2>2, <1>0 DEF LocationInv, OffDrawsNothing, OneWatch
<1>3. CASE PermissionAnswered
  <2>1. asked' \in 0..MaxAsked /\ UNCHANGED <<mustAsk, locating, watches, compassKnown, dotAt, circleAt, coneAt>>
    BY <1>3, <1>0 DEF PermissionAnswered
  <2>2. compassOn' \in BOOLEAN
    BY <1>3 DEF PermissionAnswered
  <2> QED
    BY <2>1, <2>2 DEF LocationInv, OffDrawsNothing, OneWatch
<1>4. ASSUME NEW place \in 1..Places, LocationSuccess(place) PROVE LocationInv'
  <2>1. /\ watches > 0 /\ dotAt' = place /\ circleAt' = place /\ coneAt' \in {coneAt, place}
        /\ UNCHANGED <<mustAsk, locating, watches, asked, compassOn, compassKnown>>
    BY <1>4 DEF LocationSuccess
  <2>2. locating
    BY <2>1, <1>0 DEF LocationInv, OffDrawsNothing
  <2>3. place \in 0..Places /\ place # 0
    BY <1>0
  <2> QED
    BY <2>1, <2>2, <2>3, <1>0 DEF LocationInv, OffDrawsNothing, OneWatch
<1>5. CASE Compass
  <2>1. /\ compassKnown' = TRUE /\ coneAt' = (IF dotAt = 0 THEN coneAt ELSE dotAt)
        /\ UNCHANGED <<mustAsk, locating, watches, asked, compassOn, dotAt, circleAt>>
    BY <1>5 DEF Compass, Turned
  <2>2. compassKnown' \in BOOLEAN
    BY <2>1
  <2> QED
    BY <2>1, <2>2, <1>0 DEF LocationInv, OffDrawsNothing, OneWatch
<1> QED
  BY <1>1, <1>2, <1>3, <1>4, <1>5 DEF UserLocationNext

\* A step of another part keeps it.
LEMMA LocationStutter == ASSUME LocationInv, UNCHANGED userLocationVars PROVE LocationInv'
BY DEF LocationInv, userLocationVars, OffDrawsNothing, OneWatch

-----------------------------------------------------------------------------
(* The routes beside the map. *)
\* What the tab holds are routes of the server.
RoutesListed(L) == DOMAIN L \subseteq RouteId /\ \A r \in DOMAIN L : L[r] \in RouteStates

\* A state of a route has a rank.
LEMMA RankIsNumber ==
    ASSUME NEW s \in RouteStates PROVE Rank(s) \in 1..4
<1>1. s.status \in {"active", "paused", "planned", "completed"}
  BY RoutePanelAssumption
<1>2. DOMAIN RouteStatus = 1..4
  BY DEF RouteStatus
<1>3. \E i \in 1..4 : RouteStatus[i] = s.status
  <2>1. RouteStatus[1] = "active" /\ RouteStatus[2] = "paused" /\ RouteStatus[3] = "planned" /\ RouteStatus[4] = "completed"
    BY DEF RouteStatus
  <2> QED
    BY <1>1, <2>1
<1> QED
  BY <1>2, <1>3 DEF Rank

\* The order of the list is a strict total one.
LEMMA BeforeIsOrder ==
    ASSUME NEW L, RoutesListed(L), NEW a \in DOMAIN L, NEW b \in DOMAIN L, NEW c \in DOMAIN L
    PROVE  /\ a # b => Before(L, a, b) \/ Before(L, b, a)
           /\ Before(L, a, b) /\ Before(L, b, c) => Before(L, a, c)
<1>1. Rank(L[a]) \in Int /\ Rank(L[b]) \in Int /\ Rank(L[c]) \in Int
  <2>1. L[a] \in RouteStates /\ L[b] \in RouteStates /\ L[c] \in RouteStates
    BY DEF RoutesListed
  <2> QED
    BY <2>1, RankIsNumber
<1>2. a \in Int /\ b \in Int /\ c \in Int
  BY DEF RoutesListed, RouteId
<1> QED
  BY <1>1, <1>2 DEF Before

\* A vehicle's routes stand in a sequence of them all.
LEMMA RoutesInOrder ==
    ASSUME NEW L, RoutesListed(L), NEW v
    PROVE  LET rs == RoutesForDevice(L, v) IN
           /\ rs \in Seq(OpenRoutes(L, v)) /\ Len(rs) <= MaxRoute
           /\ v = NoneSelected => rs = <<>>
<1> DEFINE S == OpenRoutes(L, v)
           rs == RoutesForDevice(L, v)
<1>1. S \in SUBSET (DOMAIN L)
  BY DEF OpenRoutes
<1> DEFINE R == {x \in S \X S : Before(L, x[1], x[2])}
<1>2. rs \in [1..Cardinality(S) -> S]
  <2>1. \A a, b \in S : <<a, b>> \in R <=> Before(L, a, b)
    <3> HIDE DEF S
    <3> QED
      OBVIOUS
  <2>2. Orders(R, S)
    <3>1. ASSUME NEW a \in S, NEW b \in S, NEW c \in S
          PROVE  /\ a # b => <<a, b>> \in R \/ <<b, a>> \in R
                 /\ <<a, b>> \in R /\ <<b, c>> \in R => <<a, c>> \in R
      <4>1. a \in DOMAIN L /\ b \in DOMAIN L /\ c \in DOMAIN L
        BY <1>1
      <4>2. a # b => Before(L, a, b) \/ Before(L, b, a)
        BY <4>1, BeforeIsOrder
      <4>3. Before(L, a, b) /\ Before(L, b, c) => Before(L, a, c)
        BY <4>1, BeforeIsOrder
      <4> HIDE DEF R
      <4> QED
        BY <2>1, <4>2, <4>3
    <3> HIDE DEF R, S
    <3> QED
      BY <3>1 DEF Orders
  <2>3. IsFiniteSet(S)
    <3>1. IsFiniteSet(RouteId) /\ S \subseteq RouteId
      BY <1>1, FS_Interval, RoutePanelAssumption DEF RoutesListed, RouteId
    <3> QED
      BY <3>1, FS_Subset
  <2>4. PICK s : InOrder(R, S, s)
    <3> HIDE DEF R, S
    <3> QED
      BY <2>2, <2>3, OrderExists
  <2>5. s \in [1..Cardinality(S) -> S] /\ \A i, j \in DOMAIN s : i < j => Before(L, s[i], s[j])
    <3> HIDE DEF S
    <3>1. s \in [1..Cardinality(S) -> S] /\ \A i, j \in 1..Cardinality(S) : i < j => <<s[i], s[j]>> \in R
      BY <2>4 DEF InOrder
    <3> HIDE DEF R
    <3> QED
      BY <2>1, <3>1
  <2> HIDE DEF R
  <2> QED
    BY <2>5 DEF RoutesForDevice
<1>3. IsFiniteSet(S) /\ Cardinality(S) \in Nat /\ Cardinality(S) <= MaxRoute
  <2>1. IsFiniteSet(RouteId) /\ S \subseteq RouteId /\ Cardinality(RouteId) = MaxRoute
    BY <1>1, FS_Interval, RoutePanelAssumption DEF RoutesListed, RouteId
  <2> QED
    BY <2>1, FS_Subset, FS_CardinalityType
<1>4. rs \in Seq(S) /\ Len(rs) = Cardinality(S)
  <2> HIDE DEF rs, S
  <2> QED
    BY <1>2, <1>3, SeqDef, LenProperties
<1>5. v = NoneSelected => rs = <<>>
  <2>1. v = NoneSelected => S = {}
    BY DEF OpenRoutes
  <2>2. v = NoneSelected => Cardinality(S) = 0
    BY <2>1, FS_EmptySet
  <2> HIDE DEF rs, S
  <2> QED
    BY <1>4, <2>2, EmptySeq
<1> QED
  BY <1>3, <1>4, <1>5

RouteKind == {"refresh", "list", "show", "stop", "afterStop", "active", "paused", "planned", "completed"}
\* A request to show a route knows it as one of a vehicle; one that changes a route names it.
RouteCallOK(c) ==
    /\ c.kind \in RouteKind
    /\ c.kind \notin {"refresh", "list"} => c.route \in RouteId
    /\ c.kind = "show" => c.was \in RouteOnMap /\ c.was.id = c.route /\ c.was.is.device # NoneSelected

\* The panel is of a vehicle: before one is selected there is none, and none is asked for.
RouteCallsOK ==
    /\ IsFiniteSet(routeCalls) /\ Cardinality(routeCalls) <= MaxRouteCalls
    /\ \A c \in routeCalls : RouteCallOK(c)
    /\ stopsUpdating \subseteq RouteId
    /\ chosenVehicle = NoneSelected => ~Showing
RouteViewOK ==
    /\ chosenRoute = NoRoute \/ chosenRoute \in RouteOnMap
    /\ routeLayer = NoRoute \/ routeLayer \in RouteOnMap
    /\ routePanel = NoRoute \/ routePanel \in [id : RouteId, of : 1..MaxRoute]
    /\ routeIndex \in 0..MaxRoute
    /\ chosenVehicle = NoneSelected => routePanel = NoRoute
RouteInv ==
    /\ RoutesListed(routeList) /\ chosenVehicle \in RoutedVehicle \cup {NoneSelected} /\ suppressed \in BOOLEAN
    /\ RouteCallsOK /\ RouteViewOK
    /\ HistoryHidesRoutes /\ OneRouteShown /\ PagerInRange

\* The invariant of the route panel gives what is stated of it.
LEMMA RouteInvGives ==
    ASSUME RouteInv PROVE RoutePanelTypeOK /\ HistoryHidesRoutes /\ OneRouteShown /\ PagerInRange
BY DEF RouteInv, RouteCallsOK, RouteViewOK, RoutesListed, RoutePanelTypeOK, Range

\* The route panel starts in the invariant.
LEMMA RouteInvInit == RoutePanelInit => RouteInv
<1> SUFFICES ASSUME RoutePanelInit PROVE RouteInv
  OBVIOUS
<1>1. RoutesListed(routeList)
  BY DEF RoutePanelInit, RoutesListed
<1>2. MaxRouteCalls \in Nat /\ MaxRoute \in Nat
  BY RoutePanelAssumption
<1>3. IsFiniteSet({}) /\ Cardinality({}) = 0
  BY FS_EmptySet
<1>4. RouteCallsOK
  BY <1>2, <1>3 DEF RoutePanelInit, RouteCallsOK, Showing
<1>5. RouteViewOK
  BY <1>2 DEF RoutePanelInit, RouteViewOK
<1>6. HistoryHidesRoutes /\ OneRouteShown /\ PagerInRange
  BY DEF RoutePanelInit, HistoryHidesRoutes, OneRouteShown, PagerInRange
<1>7. chosenVehicle \in RoutedVehicle \cup {NoneSelected} /\ suppressed \in BOOLEAN
  BY DEF RoutePanelInit
<1> QED
  BY <1>1, <1>4, <1>5, <1>6, <1>7 DEF RouteInv

\* What is drawn for vehicle v is fit to be drawn whether or not a route is being shown.
\* hiding: whether the layer gives way to one.
RoutesDrawn(v, hiding) ==
    /\ (chosenRoute = NoRoute \/ chosenRoute \in RouteOnMap)'
    /\ (routeLayer = NoRoute \/ routeLayer \in RouteOnMap)'
    /\ (routePanel = NoRoute \/ routePanel \in [id : RouteId, of : 1..MaxRoute])'
    /\ (routeIndex \in 0..MaxRoute)'
    /\ v = NoneSelected => routePanel' = NoRoute
    /\ hiding => routeLayer' = NoRoute
    /\ routePanel' # NoRoute => chosenRoute' # NoRoute /\ routeLayer' \in {NoRoute, chosenRoute'}
    /\ routePanel' # NoRoute => routeIndex' < routePanel'.of

\* Nothing selected is drawn right, whatever else is shown.
LEMMA NothingIsDrawn ==
    ASSUME NothingSelected, NEW v, NEW hiding, routeIndex' \in 0..MaxRoute PROVE RoutesDrawn(v, hiding)
BY DEF NothingSelected, RoutesDrawn

\* A listed route is one the map can show.
LEMMA OnMapIsRoute ==
    ASSUME NEW L, RoutesListed(L), NEW r \in DOMAIN L
    PROVE  OnMap(L, r) \in RouteOnMap /\ OnMap(L, r) # NoRoute /\ r \in RouteId
<1>1. r \in RouteId /\ L[r] \in RouteStates
  BY DEF RoutesListed
<1>2. OnMap(L, r) \in RouteOnMap
  BY <1>1 DEF OnMap, RouteOnMap
<1> QED
  BY <1>1, <1>2, RoutePanelAssumption DEF RouteOnMap, RouteId

\* The i-th route of a vehicle, its panel and its layer.
LEMMA RenderedIsDrawn ==
    ASSUME NEW L, RoutesListed(L), NEW v, NEW rs, rs = RoutesForDevice(L, v), NEW i \in Nat, i < Len(rs),
           routeIndex' = i, chosenRoute' = OnMap(L, rs[i + 1]),
           routePanel' = [id |-> rs[i + 1], of |-> Len(rs)],
           NEW hiding \in BOOLEAN, routeLayer' = IF hiding THEN NoRoute ELSE chosenRoute'
    PROVE  RoutesDrawn(v, hiding)
<1>1. rs \in Seq(OpenRoutes(L, v)) /\ Len(rs) <= MaxRoute /\ (v = NoneSelected => rs = <<>>)
  BY RoutesInOrder
<1>2. Len(rs) \in Nat /\ MaxRoute \in Nat
  BY <1>1, RoutePanelAssumption
<1>3. rs[i + 1] \in DOMAIN L
  <2>1. i + 1 \in 1..Len(rs)
    BY <1>2
  <2>2. rs[i + 1] \in OpenRoutes(L, v)
    BY <1>1, <2>1, ElementOfSeq
  <2> QED
    BY <2>2 DEF OpenRoutes
<1>4. chosenRoute' \in RouteOnMap /\ chosenRoute' # NoRoute /\ rs[i + 1] \in RouteId
  BY <1>3, OnMapIsRoute
<1>5. routePanel' \in [id : RouteId, of : 1..MaxRoute] /\ routePanel'.of = Len(rs) /\ routeIndex' \in 0..MaxRoute
  BY <1>1, <1>2, <1>4
<1>6. v # NoneSelected
  <2>1. Len(<<>>) = 0
    OBVIOUS
  <2> QED
    BY <1>1, <1>2, <2>1
<1> QED
  BY <1>4, <1>5, <1>6 DEF RoutesDrawn

\* The route selected for a vehicle is drawn right.
LEMMA SelectedIsDrawn ==
    ASSUME NEW L, RoutesListed(L), NEW v, SelectedForDevice(L, v), routeIndex \in 0..MaxRoute, suppressed \in BOOLEAN
    PROVE  RoutesDrawn(v, suppressed)
<1> DEFINE rs == RoutesForDevice(L, v)
           mine == {i \in DOMAIN rs : chosenRoute # NoRoute /\ rs[i] = chosenRoute.id}
           at == IF mine # {} THEN (CHOOSE i \in mine : TRUE) - 1 ELSE AtMost(routeIndex, Len(rs) - 1)
<1>1. rs \in Seq(OpenRoutes(L, v)) /\ Len(rs) <= MaxRoute
  BY RoutesInOrder
<1>2. Len(rs) \in Nat /\ MaxRoute \in Nat /\ DOMAIN rs = 1..Len(rs) /\ (rs # <<>> => Len(rs) >= 1)
  <2>1. Len(rs) \in Nat /\ DOMAIN rs = 1..Len(rs) /\ (Len(rs) = 0 => rs = <<>>)
    BY <1>1, LenProperties, EmptySeq
  <2> QED
    BY <2>1, RoutePanelAssumption
<1>3. CASE rs = <<>>
  <2>1. routeIndex' = 0 /\ NothingSelected
    BY <1>3 DEF SelectedForDevice
  <2> QED
    BY <1>2, <2>1, NothingIsDrawn
<1>4. CASE rs # <<>>
  <2>1. Rendered(L, rs, at)
    BY <1>4 DEF SelectedForDevice
  <2>2. at \in Nat /\ at < Len(rs)
    <3>1. CASE mine # {}
      <4>1. (CHOOSE i \in mine : TRUE) \in 1..Len(rs)
        BY <1>2, <3>1
      <4> HIDE DEF mine, rs
      <4> QED
        BY <1>2, <3>1, <4>1
    <3>2. CASE mine = {}
      BY <1>2, <1>4, <3>2 DEF AtMost
    <3> QED
      BY <3>1, <3>2
  <2>3. /\ routeIndex' = at /\ chosenRoute' = OnMap(L, rs[at + 1])
        /\ routePanel' = [id |-> rs[at + 1], of |-> Len(rs)]
        /\ routeLayer' = IF suppressed THEN NoRoute ELSE chosenRoute'
    BY <2>1 DEF Rendered, LayerDrawn
  <2> HIDE DEF at
  <2> QED
    BY <2>2, <2>3, RenderedIsDrawn
<1> QED
  BY <1>3, <1>4

\* A selection that is drawn keeps what holds of it, whatever becomes of the requests.
LEMMA DrawnKeeps ==
    ASSUME RoutesDrawn(chosenVehicle', suppressed'), chosenVehicle' = chosenVehicle
    PROVE  RouteViewOK' /\ HistoryHidesRoutes' /\ OneRouteShown' /\ PagerInRange'
BY DEF RoutesDrawn, RouteViewOK, HistoryHidesRoutes, OneRouteShown, PagerInRange

\* One that is left alone keeps it, when no request to show a route ends.
LEMMA ViewKept ==
    ASSUME RouteInv, UNCHANGED routeView, suppressed' = suppressed, chosenVehicle' = chosenVehicle, Showing => Showing'
    PROVE  RouteViewOK' /\ HistoryHidesRoutes' /\ OneRouteShown' /\ PagerInRange'
BY DEF RouteInv, routeView, RouteViewOK, HistoryHidesRoutes, OneRouteShown, PagerInRange

\* A route that changes, for whatever reason, leaves list and map right.
LEMMA MutatedKeeps ==
    ASSUME RouteInv, NEW r \in RouteId, NEW s \in RouteStates, Mutated(r, s), suppressed' = suppressed,
           chosenVehicle' = chosenVehicle, Showing => Showing'
    PROVE  RoutesListed(routeList') /\ RouteViewOK' /\ HistoryHidesRoutes' /\ OneRouteShown' /\ PagerInRange'
<1> DEFINE L == [q \in DOMAIN routeList \cup {r} |-> IF q = r THEN s ELSE routeList[q]]
<1>1. RoutesListed(L) /\ routeList' = L
  BY DEF Mutated, RouteInv, RoutesListed
<1>2. SelectedForDevice(L, chosenVehicle) \/ UNCHANGED routeView
  BY DEF Mutated
<1>3. CASE SelectedForDevice(L, chosenVehicle)
  <2>1. routeIndex \in 0..MaxRoute /\ suppressed \in BOOLEAN
    BY DEF RouteInv, RouteViewOK
  <2>2. RoutesDrawn(chosenVehicle, suppressed)
    <3> HIDE DEF L
    <3> QED
      BY <1>1, <1>3, <2>1, SelectedIsDrawn
  <2> QED
    BY <1>1, <2>2, DrawnKeeps
<1>4. CASE UNCHANGED routeView
  BY <1>1, <1>4, ViewKept
<1> QED
  BY <1>2, <1>3, <1>4

-----------------------------------------------------------------------------
\* The requests.
LEMMA CallsAsked ==
    ASSUME RouteInv, NEW c, RouteCallOK(c), RoutesAsked(routeCalls \cup {c}), stopsUpdating' \subseteq RouteId,
           chosenVehicle' = chosenVehicle \/ chosenVehicle' # NoneSelected,
           c.kind = "show" => chosenVehicle' # NoneSelected
    PROVE  RouteCallsOK' /\ (Showing => Showing')
<1>1. routeCalls' = routeCalls \cup {c} /\ Cardinality(routeCalls') <= MaxRouteCalls
  BY DEF RoutesAsked
<1>2. IsFiniteSet(routeCalls')
  BY <1>1, FS_AddElement DEF RouteInv, RouteCallsOK
<1>3. Showing => Showing'
  BY <1>1 DEF Showing
<1>4. chosenVehicle' = NoneSelected => ~Showing'
  BY <1>1 DEF RouteInv, RouteCallsOK, Showing
<1> QED
  BY <1>1, <1>2, <1>3, <1>4 DEF RouteInv, RouteCallsOK

\* An answer takes its request away and may put one of another kind in its place.
LEMMA CallsAnswered ==
    ASSUME RouteInv, NEW c \in routeCalls, stopsUpdating' \subseteq RouteId, chosenVehicle' = chosenVehicle,
           \/ routeCalls' = routeCalls \ {c}
           \/ \E d : routeCalls' = (routeCalls \ {c}) \cup {d} /\ RouteCallOK(d) /\ d.kind # "show"
    PROVE  RouteCallsOK' /\ (c.kind # "show" => (Showing => Showing'))
<1>1. IsFiniteSet(routeCalls \ {c}) /\ Cardinality(routeCalls \ {c}) = Cardinality(routeCalls) - 1
  BY FS_RemoveElement DEF RouteInv, RouteCallsOK
<1>2. Cardinality(routeCalls) \in Nat /\ Cardinality(routeCalls) <= MaxRouteCalls /\ MaxRouteCalls \in Nat
  BY FS_CardinalityType, RoutePanelAssumption DEF RouteInv, RouteCallsOK
<1>3. IsFiniteSet(routeCalls') /\ Cardinality(routeCalls') <= MaxRouteCalls
  <2>1. CASE routeCalls' = routeCalls \ {c}
    BY <1>1, <1>2, <2>1
  <2>2. ASSUME NEW d, routeCalls' = (routeCalls \ {c}) \cup {d} PROVE IsFiniteSet(routeCalls') /\ Cardinality(routeCalls') <= MaxRouteCalls
    <3>1. /\ IsFiniteSet((routeCalls \ {c}) \cup {d})
          /\ Cardinality((routeCalls \ {c}) \cup {d}) = Cardinality(routeCalls \ {c})
             \/ Cardinality((routeCalls \ {c}) \cup {d}) = Cardinality(routeCalls \ {c}) + 1
      BY <1>1, FS_AddElement
    <3> QED
      BY <1>1, <1>2, <2>2, <3>1
  <2> QED
    BY <2>1, <2>2
<1>4. \A d \in routeCalls' : RouteCallOK(d) /\ (d \in routeCalls \/ d.kind # "show")
  BY DEF RouteInv, RouteCallsOK
<1>5. chosenVehicle' = NoneSelected => ~Showing'
  BY <1>4 DEF RouteInv, RouteCallsOK, Showing
<1>6. c.kind # "show" => (Showing => Showing')
  BY DEF Showing
<1> QED
  BY <1>3, <1>4, <1>5, <1>6 DEF RouteCallsOK

\* Steps that ask nothing keep the calls in progress.
LEMMA CallsKept ==
    ASSUME RouteInv, UNCHANGED <<routeCalls, stopsUpdating, chosenVehicle>>
    PROVE  RouteCallsOK' /\ (Showing <=> Showing')
BY DEF RouteInv, RouteCallsOK, Showing

\* What the user does that asks the server keeps the invariant.
LEMMA UserAsks ==
    ASSUME RouteInv,
           \/ \E v \in RoutedVehicle : SelectVehicle(v)
           \/ PositionRefreshesRoute \/ OpenRoutesModal \/ CompleteStop
           \/ \E r \in RouteId, status \in ToSet(RouteStatus) : SetRouteStatus(r, status)
    PROVE  RouteInv'
<1> USE DEF RouteInv
<1>1. RouteCallOK(RoutesLoad("refresh")) /\ RouteCallOK(RoutesLoad("list"))
  BY DEF RouteCallOK, RoutesLoad, RouteCall, RouteKind
<1>2. RoutesLoad("refresh").kind # "show" /\ RoutesLoad("list").kind # "show"
  BY DEF RoutesLoad, RouteCall
<1>3. ASSUME NEW r \in RouteId, NEW k \in {"stop", "active", "paused", "planned", "completed"}
      PROVE  RouteCallOK(RouteCall(k, r, NoRoute)) /\ RouteCall(k, r, NoRoute).kind # "show"
  BY DEF RouteCallOK, RouteCall, RouteKind
<1>4. stopsUpdating \subseteq RouteId
  BY DEF RouteCallsOK
<1>5. CASE \E v \in RoutedVehicle : SelectVehicle(v)
  <2>1. PICK v \in RoutedVehicle : SelectVehicle(v)
    BY <1>5
  <2>2. v # NoneSelected
    BY RoutePanelAssumption
  <2>3. RouteCallsOK' /\ (Showing => Showing')
    <3>1. /\ RoutesAsked(routeCalls \cup {RoutesLoad("refresh")})
          /\ stopsUpdating' = stopsUpdating /\ chosenVehicle' = v
      BY <2>1 DEF SelectVehicle
    <3> QED
      BY <1>1, <1>2, <1>4, <2>2, <3>1, CallsAsked
  <2>4. RoutesListed(routeList)' /\ chosenVehicle' \in RoutedVehicle /\ suppressed' \in BOOLEAN
    BY <2>1 DEF SelectVehicle, RoutesListed
  <2>5. HistoryHidesRoutes' /\ OneRouteShown'
    BY <2>1, <2>3 DEF SelectVehicle, HistoryHidesRoutes, OneRouteShown
  <2>6. RouteViewOK' /\ PagerInRange'
    <3>1. MaxRoute \in Nat
      BY RoutePanelAssumption
    <3>2. RouteViewOK'
      BY <2>1, <2>2, <3>1 DEF SelectVehicle, RouteViewOK
    <3>3. routePanel' # NoRoute => routePanel'.of \in 1..MaxRoute
      BY <3>2 DEF RouteViewOK
    <3> QED
      BY <2>1, <3>1, <3>2, <3>3 DEF SelectVehicle, PagerInRange
  <2> QED
    BY <2>3, <2>4, <2>5, <2>6
<1>6. ASSUME UNCHANGED <<routeList, chosenVehicle, routeView, suppressed>>, RouteCallsOK', Showing => Showing'
      PROVE  RouteInv'
  BY <1>6, ViewKept DEF RoutesListed
<1>7. CASE PositionRefreshesRoute \/ OpenRoutesModal
  <2>1. RouteCallsOK' /\ (Showing => Showing')
    BY <1>1, <1>2, <1>4, <1>7, CallsAsked DEF PositionRefreshesRoute, OpenRoutesModal
  <2> QED
    BY <1>6, <1>7, <2>1 DEF PositionRefreshesRoute, OpenRoutesModal
<1>8. CASE CompleteStop
  <2>1. chosenRoute.id \in RouteId
    BY <1>8 DEF CompleteStop, RouteViewOK, RouteOnMap
  <2>2. RouteCallsOK' /\ (Showing => Showing')
    <3>1. stopsUpdating' \subseteq RouteId /\ chosenVehicle' = chosenVehicle
      BY <1>4, <1>8, <2>1 DEF CompleteStop
    <3>2. PICK k \in {"stop", "completed"} : RoutesAsked(routeCalls \cup {RouteCall(k, chosenRoute.id, NoRoute)})
      BY <1>8 DEF CompleteStop
    <3> QED
      BY <1>3, <2>1, <3>1, <3>2, CallsAsked
  <2> QED
    BY <1>6, <1>8, <2>2 DEF CompleteStop
<1>9. CASE \E r \in RouteId, status \in ToSet(RouteStatus) : SetRouteStatus(r, status)
  <2>1. PICK r \in RouteId, status \in ToSet(RouteStatus) : SetRouteStatus(r, status)
    BY <1>9
  <2>2. status \in {"active", "paused", "planned", "completed"}
    BY <2>1 DEF ToSet, RouteStatus
  <2>3. RouteCallsOK' /\ (Showing => Showing')
    <3>1. /\ RoutesAsked(routeCalls \cup {RouteCall(status, r, NoRoute)})
          /\ stopsUpdating' = stopsUpdating /\ chosenVehicle' = chosenVehicle
      BY <2>1 DEF SetRouteStatus
    <3> QED
      BY <1>3, <1>4, <2>2, <3>1, CallsAsked
  <2> QED
    BY <1>6, <2>1, <2>3 DEF SetRouteStatus
<1> QED
  BY <1>5, <1>7, <1>8, <1>9

\* What the user does to the panel, and the messages of the socket, keep it.
LEMMA UserSees ==
    ASSUME RouteInv,
           \/ \E offset \in {-1, 1} : SelectRouteOffset(offset)
           \/ CloseRoutePanel \/ HideForHistory \/ RestoreAfterHistory
           \/ \E r \in RouteId : RouteRemoved(r)
           \/ \E r \in RouteId, s \in RouteStates : RouteMessage(r, s)
    PROVE  RouteInv'
<1> USE DEF RouteInv
<1>1. UNCHANGED <<routeCalls, stopsUpdating, chosenVehicle>>
  BY DEF SelectRouteOffset, CloseRoutePanel, HideForHistory, RestoreAfterHistory, RouteRemoved, RouteMessage
<1>2. RouteCallsOK' /\ (Showing <=> Showing') /\ chosenVehicle' = chosenVehicle
  BY <1>1, CallsKept
<1>3. MaxRoute \in Nat /\ routeIndex \in 0..MaxRoute /\ suppressed \in BOOLEAN /\ RoutesListed(routeList)
  BY RoutePanelAssumption DEF RouteViewOK
<1>4. ASSUME RoutesListed(routeList'), suppressed' \in BOOLEAN, RoutesDrawn(chosenVehicle, suppressed') PROVE RouteInv'
  BY <1>2, <1>4, DrawnKeeps DEF RoutesListed
<1> DEFINE rs == RoutesForDevice(routeList, chosenVehicle)
<1>5. /\ Len(rs) \in Nat /\ (rs # <<>> => Len(rs) >= 1)
  <2>1. rs \in Seq(OpenRoutes(routeList, chosenVehicle))
    BY <1>3, RoutesInOrder
  <2> QED
    BY <2>1, LenProperties, EmptySeq
<1>6. CASE \E offset \in {-1, 1} : SelectRouteOffset(offset)
  <2>1. PICK offset \in {-1, 1} : SelectRouteOffset(offset)
    BY <1>6
  <2>2. routeList' = routeList /\ suppressed' = suppressed
    BY <2>1 DEF SelectRouteOffset
  <2>3. CASE rs = <<>>
    BY <1>3, <1>4, <2>1, <2>2, <2>3, NothingIsDrawn DEF SelectRouteOffset
  <2>4. CASE rs # <<>>
    <3> DEFINE i == (routeIndex + offset + Len(rs)) % Len(rs)
    <3>1. i \in Nat /\ i < Len(rs)
      <4> HIDE DEF rs
      <4> QED
        BY <1>3, <1>5, <2>4
    <3>2. Rendered(routeList, rs, i)
      BY <2>1, <2>4 DEF SelectRouteOffset
    <3>3. RoutesDrawn(chosenVehicle, suppressed)
      <4>1. /\ routeIndex' = i /\ chosenRoute' = OnMap(routeList, rs[i + 1])
            /\ routePanel' = [id |-> rs[i + 1], of |-> Len(rs)]
            /\ routeLayer' = IF suppressed THEN NoRoute ELSE chosenRoute'
        BY <3>2 DEF Rendered, LayerDrawn
      <4> HIDE DEF i
      <4> QED
        BY <1>3, <3>1, <4>1, RenderedIsDrawn
    <3> QED
      BY <1>3, <1>4, <2>2, <3>3
  <2> QED
    BY <2>3, <2>4
<1>7. CASE CloseRoutePanel
  BY <1>3, <1>4, <1>7, NothingIsDrawn DEF CloseRoutePanel
<1>8. CASE HideForHistory
  BY <1>2, <1>3, <1>8 DEF HideForHistory, RoutesListed, RouteViewOK, HistoryHidesRoutes, OneRouteShown, PagerInRange
<1>9. CASE RestoreAfterHistory
  <2>1. suppressed' = FALSE /\ routeList' = routeList
    BY <1>9 DEF RestoreAfterHistory
  <2>2. CASE chosenRoute # NoRoute
    <3>1. routeLayer' = chosenRoute /\ UNCHANGED <<chosenRoute, routeIndex, routePanel>>
      BY <1>9, <2>2 DEF RestoreAfterHistory
    <3>2. RouteViewOK' /\ PagerInRange'
      BY <1>2, <3>1 DEF RouteViewOK, PagerInRange
    <3>3. HistoryHidesRoutes' /\ OneRouteShown'
      BY <1>2, <2>1, <2>2, <3>1 DEF HistoryHidesRoutes, OneRouteShown
    <3>4. RoutesListed(routeList)' /\ chosenVehicle' \in RoutedVehicle \cup {NoneSelected}
      BY <1>2, <1>3, <2>1 DEF RoutesListed
    <3> QED
      BY <1>2, <2>1, <3>2, <3>3, <3>4
  <2>3. CASE chosenRoute = NoRoute /\ (chosenVehicle = NoneSelected \/ rs = <<>>)
    <3>1. NothingSelected /\ routeIndex' \in 0..MaxRoute
      BY <1>3, <1>9, <2>3 DEF RestoreAfterHistory
    <3> QED
      BY <1>3, <1>4, <2>1, <3>1, NothingIsDrawn
  <2>4. CASE chosenRoute = NoRoute /\ chosenVehicle # NoneSelected /\ rs # <<>>
    <3> DEFINE i == AtMost(routeIndex, Len(rs) - 1)
    <3>1. i \in Nat /\ i < Len(rs)
      <4> HIDE DEF rs
      <4> QED
        BY <1>3, <1>5, <2>4 DEF AtMost
    <3>2. /\ routeIndex' = i /\ chosenRoute' = OnMap(routeList, rs[i + 1])
          /\ routePanel' = [id |-> rs[i + 1], of |-> Len(rs)]
          /\ routeLayer' = IF FALSE THEN NoRoute ELSE chosenRoute'
      BY <1>9, <2>4 DEF RestoreAfterHistory
    <3>3. RoutesDrawn(chosenVehicle, FALSE)
      <4> HIDE DEF i
      <4> QED
        BY <1>3, <3>1, <3>2, RenderedIsDrawn
    <3> QED
      BY <1>3, <1>4, <2>1, <3>3
  <2> QED
    BY <2>2, <2>3, <2>4
<1>10. CASE \E r \in RouteId : RouteRemoved(r)
  <2>1. PICK r \in RouteId : RouteRemoved(r)
    BY <1>10
  <2>2. RoutesListed(routeList') /\ suppressed' = suppressed
    BY <1>3, <2>1 DEF RouteRemoved, RoutesListed, Restrict
  <2>3. CASE chosenRoute # NoRoute /\ chosenRoute.id = r
    BY <1>3, <1>4, <2>1, <2>2, <2>3, NothingIsDrawn DEF RouteRemoved
  <2>4. CASE ~(chosenRoute # NoRoute /\ chosenRoute.id = r)
    <3>1. UNCHANGED routeView
      BY <2>1, <2>4 DEF RouteRemoved
    <3> QED
      BY <1>2, <2>2, <3>1, ViewKept DEF RoutesListed
  <2> QED
    BY <2>3, <2>4
<1>11. CASE \E r \in RouteId, s \in RouteStates : RouteMessage(r, s)
  <2>1. PICK r \in RouteId, s \in RouteStates : Mutated(r, s) /\ suppressed' = suppressed
    BY <1>11 DEF RouteMessage
  <2> QED
    BY <1>2, <2>1, MutatedKeeps DEF RoutesListed
<1> QED
  BY <1>6, <1>7, <1>8, <1>9, <1>10, <1>11

\* Showing a route on the map keeps it.
LEMMA UserShows ==
    ASSUME RouteInv, NEW r \in RouteId, ShowRouteOnMap(r) PROVE RouteInv'
<1> USE DEF RouteInv
<1>1. r \in DOMAIN routeList /\ routeList' = routeList /\ routePanel' = routePanel /\ suppressed' = suppressed
      /\ stopsUpdating' = stopsUpdating /\ chosenRoute' = OnMap(routeList, r)
  BY DEF ShowRouteOnMap
<1>2. chosenRoute' \in RouteOnMap /\ chosenRoute' # NoRoute /\ chosenRoute'.id = r /\ chosenRoute'.is = routeList[r]
  <2>1. OnMap(routeList, r).id = r /\ OnMap(routeList, r).is = routeList[r]
    BY DEF OnMap
  <2> QED
    BY <1>1, <2>1, OnMapIsRoute
<1>3. MaxRoute \in Nat
  BY RoutePanelAssumption
<1>4. CASE routeList[r].device # NoneSelected
  <2> DEFINE c == RouteCall("show", r, OnMap(routeList, r))
  <2>1. chosenVehicle' = routeList[r].device /\ routeIndex' = 0 /\ RoutesAsked(routeCalls \cup {c}) /\ routeLayer' = routeLayer
    BY <1>4 DEF ShowRouteOnMap
  <2>2. RouteCallOK(c) /\ c.kind = "show"
    BY <1>1, <1>2, <1>4 DEF RouteCallOK, RouteKind, RouteCall
  <2>3. RouteCallsOK'
    <3> HIDE DEF c
    <3>1. stopsUpdating' \subseteq RouteId
      BY <1>1 DEF RouteCallsOK
    <3> QED
      BY <1>4, <2>1, <2>2, <3>1, CallsAsked
  <2>4. Showing'
    <3>1. c \in routeCalls'
      BY <2>1 DEF RoutesAsked
    <3> HIDE DEF c
    <3> QED
      BY <2>2, <3>1 DEF Showing
  <2>5. chosenVehicle' \in RoutedVehicle
    <3>1. routeList[r] \in RouteStates
      BY <1>1 DEF RoutesListed
    <3>2. routeList[r].device \in RoutedVehicle \cup {NoneSelected}
      BY <3>1, RoutePanelAssumption
    <3> QED
      BY <1>4, <2>1, <3>2
  <2>6. RouteViewOK'
    BY <1>1, <1>2, <1>3, <1>4, <2>1 DEF RouteViewOK
  <2>7. PagerInRange'
    <3>1. routePanel' # NoRoute => routePanel'.of \in 1..MaxRoute
      BY <2>6 DEF RouteViewOK
    <3> QED
      BY <1>3, <2>1, <3>1 DEF PagerInRange
  <2>8. HistoryHidesRoutes' /\ OneRouteShown'
    BY <1>1, <2>1, <2>4 DEF HistoryHidesRoutes, OneRouteShown
  <2>9. RoutesListed(routeList)' /\ suppressed' \in BOOLEAN
    BY <1>1 DEF RoutesListed
  <2> QED
    BY <2>3, <2>5, <2>6, <2>7, <2>8, <2>9
<1>5. CASE routeList[r].device = NoneSelected
  <2>1. /\ UNCHANGED <<chosenVehicle, routeIndex, routeCalls>>
        /\ routeLayer' = IF suppressed THEN NoRoute ELSE chosenRoute'
    BY <1>5 DEF ShowRouteOnMap, LayerDrawn
  <2>2. RouteCallsOK' /\ (Showing <=> Showing')
    BY <1>1, <2>1, CallsKept
  <2>3. RouteViewOK'
    BY <1>1, <1>2, <2>1 DEF RouteViewOK
  <2>4. PagerInRange'
    <3>1. chosenRoute'.is.device = chosenVehicle' => routePanel' = NoRoute
      BY <1>2, <1>5, <2>1, <2>3 DEF RouteViewOK
    <3> QED
      BY <3>1 DEF PagerInRange
  <2>5. HistoryHidesRoutes' /\ OneRouteShown'
    BY <1>1, <1>2, <2>1 DEF HistoryHidesRoutes, OneRouteShown
  <2>6. RoutesListed(routeList)' /\ suppressed' \in BOOLEAN
    BY <1>1 DEF RoutesListed
  <2> QED
    BY <2>1, <2>2, <2>3, <2>4, <2>5, <2>6
<1> QED
  BY <1>4, <1>5

\* Routes with their states are a list of the panel.
LEMMA ListIsListed ==
    ASSUME NEW S \in SUBSET RouteId, NEW L \in [S -> RouteStates] PROVE RoutesListed(L)
BY DEF RoutesListed

\* The answers of the server keep the invariant, however late.
LEMMA RouteAnswered ==
    ASSUME RouteInv, NEW c \in routeCalls, RouteAnswerArrives(c) PROVE RouteInv'
<1> USE DEF RouteInv
<1>1. chosenVehicle' = chosenVehicle /\ suppressed' = suppressed
  BY DEF RouteAnswerArrives
<1>2. MaxRoute \in Nat /\ routeIndex \in 0..MaxRoute /\ RouteCallOK(c) /\ stopsUpdating \subseteq RouteId
  BY RoutePanelAssumption DEF RouteViewOK, RouteCallsOK
<1>3. ASSUME RoutesListed(routeList'), RouteCallsOK', RoutesDrawn(chosenVehicle, suppressed) PROVE RouteInv'
  BY <1>1, <1>3, DrawnKeeps DEF RoutesListed
<1>4. ASSUME RoutesListed(routeList'), RouteCallsOK', UNCHANGED routeView, Showing => Showing' PROVE RouteInv'
  BY <1>1, <1>4, ViewKept DEF RoutesListed
<1>5. ASSUME NEW k \in {"stop", "afterStop", "completed"}, NEW r \in RouteId
      PROVE  RouteCallOK(RouteCall(k, r, NoRoute)) /\ RouteCall(k, r, NoRoute).kind # "show"
  BY <1>5 DEF RouteCallOK, RouteCall, RouteKind
<1>6. ASSUME NEW S \in SUBSET RouteId, NEW L \in [S -> RouteStates], RoutesLoaded(c, L) PROVE RouteInv'
  <2>1. RoutesListed(L) /\ routeList' = L /\ c.kind # "show"
    BY <1>6, ListIsListed DEF RoutesLoaded
  <2>2. RouteCallsOK' /\ (Showing => Showing')
    BY <1>1, <1>2, <1>6, <2>1, CallsAnswered DEF RoutesLoaded
  <2>3. CASE c.kind = "refresh"
    <3>1. SelectedForDevice(L, chosenVehicle)
      BY <1>6, <2>3 DEF RoutesLoaded
    <3>2. RoutesDrawn(chosenVehicle, suppressed)
      BY <1>2, <2>1, <3>1, SelectedIsDrawn
    <3> QED
      BY <1>3, <2>1, <2>2, <3>2
  <2>4. CASE c.kind # "refresh"
    BY <1>4, <1>6, <2>1, <2>2, <2>4 DEF RoutesLoaded
  <2> QED
    BY <2>3, <2>4
<1>7. ASSUME NEW S \in SUBSET RouteId, NEW L \in [S -> RouteStates], AfterStop(c, L) PROVE RouteInv'
  <2>1. RoutesListed(L) /\ routeList' = L /\ c.kind = "afterStop" /\ SelectedForDevice(L, chosenVehicle)
    BY <1>7, ListIsListed DEF AfterStop
  <2>2. RouteCallsOK'
    <3>1. c.route \in RouteId
      BY <1>2, <2>1 DEF RouteCallOK
    <3>2. RouteCallOK(RouteCall("completed", c.route, NoRoute)) /\ RouteCall("completed", c.route, NoRoute).kind # "show"
      BY <1>5, <3>1
    <3>3. routeCalls' = (routeCalls \ {c}) \cup {RouteCall("completed", c.route, NoRoute)} /\ stopsUpdating' \subseteq RouteId
      BY <1>2, <1>7 DEF AfterStop
    <3> QED
      BY <1>1, <3>2, <3>3, CallsAnswered
  <2>3. RoutesDrawn(chosenVehicle, suppressed)
    BY <1>2, <2>1, SelectedIsDrawn
  <2> QED
    BY <1>3, <2>1, <2>2, <2>3
<1>8. ASSUME NEW s \in RouteStates, StatusArrives(c, s) PROVE RouteInv'
  <2>1. c.kind \in {"active", "paused", "planned", "completed"}
    BY <1>8, RoutePanelAssumption DEF StatusArrives
  <2>2. c.route \in RouteId
    BY <1>2, <2>1 DEF RouteCallOK
  <2>3. RouteCallsOK' /\ (Showing => Showing')
    BY <1>1, <1>2, <1>8, <2>1, CallsAnswered DEF StatusArrives
  <2>4. RoutesListed(routeList') /\ RouteViewOK' /\ HistoryHidesRoutes' /\ OneRouteShown' /\ PagerInRange'
    BY <1>1, <1>8, <2>2, <2>3, MutatedKeeps DEF StatusArrives
  <2> QED
    BY <1>1, <2>3, <2>4 DEF RoutesListed
<1>9. CASE StopArrives(c)
  <2>1. c.kind = "stop" /\ c.route \in RouteId
    BY <1>2, <1>9 DEF StopArrives, RouteCallOK
  <2>2. RouteCallsOK' /\ (Showing => Showing')
    <3>1. RouteCallOK(RouteCall("afterStop", c.route, NoRoute)) /\ RouteCall("afterStop", c.route, NoRoute).kind # "show"
      BY <1>5, <2>1
    <3>2. routeCalls' = (routeCalls \ {c}) \cup {RouteCall("afterStop", c.route, NoRoute)} /\ stopsUpdating' \subseteq RouteId
      BY <1>2, <1>9 DEF StopArrives
    <3> QED
      BY <1>1, <2>1, <3>1, <3>2, CallsAnswered
  <2> QED
    BY <1>4, <1>9, <2>2 DEF StopArrives
<1>10. CASE RouteCallRefused(c)
  <2>1. c.kind # "show"
    BY <1>10 DEF RouteCallRefused, ToSet, RouteStatus
  <2>2. RouteCallsOK' /\ (Showing => Showing')
    <3>1. routeCalls' = routeCalls \ {c} /\ stopsUpdating' \subseteq RouteId
      BY <1>2, <1>10 DEF RouteCallRefused
    <3> QED
      BY <1>1, <2>1, <3>1, CallsAnswered
  <2> QED
    BY <1>4, <1>10, <2>2 DEF RouteCallRefused
<1>11. ASSUME NEW S \in SUBSET RouteId, NEW L \in [S -> RouteStates], RouteShown(c, L) PROVE RouteInv'
  <2> DEFINE rs == RoutesForDevice(L, c.was.is.device)
             mine == RoutesForDevice(L, chosenVehicle)
             here == {i \in DOMAIN rs : rs[i] = c.route}
  <2>1. RoutesListed(L) /\ routeList' = L /\ c.kind = "show" /\ chosenRoute' = c.was
    BY <1>11, ListIsListed DEF RouteShown
  <2>2. RouteCallsOK'
    BY <1>1, <1>2, <1>11, CallsAnswered DEF RouteShown
  <2>3. c.was \in RouteOnMap /\ c.route \in RouteId /\ c.was # NoRoute /\ 1 \in 1..MaxRoute
    <3>1. c.was \in RouteOnMap /\ c.route \in RouteId
      BY <1>2, <2>1 DEF RouteCallOK
    <3>2. c.was # NoRoute
      BY <3>1, RoutePanelAssumption DEF RouteOnMap, RouteId
    <3> QED
      BY <1>2, <3>1, <3>2 DEF RouteId
  <2>4. ASSUME NEW v PROVE /\ Len(RoutesForDevice(L, v)) \in 0..MaxRoute
                           /\ DOMAIN RoutesForDevice(L, v) = 1..Len(RoutesForDevice(L, v))
                           /\ RoutesForDevice(L, v) # <<>> => Len(RoutesForDevice(L, v)) >= 1
    <3> DEFINE q == RoutesForDevice(L, v)
    <3>1. q \in Seq(OpenRoutes(L, v)) /\ Len(q) <= MaxRoute
      BY <2>1, RoutesInOrder
    <3> HIDE DEF q
    <3>2. Len(q) \in 0..MaxRoute /\ DOMAIN q = 1..Len(q) /\ (q # <<>> => Len(q) >= 1)
      BY <1>2, <3>1, LenProperties, EmptySeq
    <3> QED
      BY <3>2 DEF q
  <2> DEFINE n == IF rs = <<>> THEN 1 ELSE Len(rs)
  <2>5. n \in 1..MaxRoute
    <3>1. Len(rs) \in 0..MaxRoute /\ (rs # <<>> => Len(rs) >= 1)
      BY <2>4
    <3> HIDE DEF rs
    <3> QED
      BY <1>2, <2>3, <3>1
  <2>6. /\ routeIndex' = IF here # {} THEN (CHOOSE i \in here : TRUE) - 1
                         ELSE IF mine = <<>> THEN 0 ELSE AtMost(routeIndex, Len(mine) - 1)
        /\ routePanel' = [id |-> c.route, of |-> n]
        /\ routeLayer' = IF suppressed THEN NoRoute ELSE c.was
    BY <1>11 DEF RouteShown, LayerDrawn
  <2>7. /\ routePanel' \in [id : RouteId, of : 1..MaxRoute] /\ routePanel'.of = n
    <3> HIDE DEF n
    <3> QED
      BY <2>3, <2>5, <2>6
  <2>8. routeIndex' \in 0..MaxRoute /\ (c.was.is.device = chosenVehicle => routeIndex' < n)
    <3>0. /\ DOMAIN rs = 1..Len(rs) /\ Len(rs) \in 0..MaxRoute
          /\ Len(mine) \in 0..MaxRoute /\ (mine # <<>> => Len(mine) >= 1)
      BY <2>4
    <3>1. CASE here # {}
      <4>1. (CHOOSE i \in here : TRUE) \in DOMAIN rs
        BY <3>1
      <4> DEFINE at == CHOOSE i \in here : TRUE
      <4>2. at \in 1..Len(rs) /\ routeIndex' = at - 1
        BY <2>6, <3>0, <3>1, <4>1
      <4>3. n = Len(rs)
        <5>1. Len(rs) # 0
          <6> HIDE DEF rs, at
          <6> QED
            BY <3>0, <4>2
        <5>2. Len(<<>>) = 0
          OBVIOUS
        <5> QED
          BY <5>1, <5>2
      <4> HIDE DEF at, rs, n
      <4> QED
        BY <1>2, <3>0, <4>2, <4>3
    <3>2. CASE here = {} /\ mine = <<>>
      <4>1. routeIndex' = 0
        BY <2>6, <3>2
      <4> HIDE DEF n
      <4> QED
        BY <1>2, <2>5, <4>1
    <3>3. CASE here = {} /\ mine # <<>>
      <4>1. routeIndex' = AtMost(routeIndex, Len(mine) - 1)
        BY <2>6, <3>3
      <4>2. c.was.is.device = chosenVehicle => rs = mine /\ n = Len(mine)
        BY <3>3
      <4> HIDE DEF mine, rs, n
      <4> QED
        BY <1>2, <3>0, <3>3, <4>1, <4>2 DEF AtMost
    <3> QED
      BY <3>1, <3>2, <3>3
  <2>9. RouteViewOK'
    <3>1. chosenVehicle' # NoneSelected
      BY <1>1, <2>1 DEF RouteCallsOK, Showing
    <3> HIDE DEF n
    <3> QED
      BY <2>1, <2>3, <2>6, <2>7, <2>8, <3>1 DEF RouteViewOK
  <2>10. HistoryHidesRoutes' /\ OneRouteShown'
    BY <1>1, <2>1, <2>3, <2>6 DEF HistoryHidesRoutes, OneRouteShown
  <2>11. PagerInRange'
    <3> HIDE DEF n
    <3> QED
      BY <1>1, <2>1, <2>7, <2>8 DEF PagerInRange
  <2> QED
    BY <1>1, <2>1, <2>2, <2>9, <2>10, <2>11 DEF RoutesListed
<1> QED
  BY <1>6, <1>7, <1>8, <1>9, <1>10, <1>11 DEF RouteAnswerArrives

\* Every step of the route panel keeps it.
LEMMA RouteStep == RouteInv /\ RoutePanelNext => RouteInv'
BY UserAsks, UserSees, UserShows, RouteAnswered DEF RoutePanelNext

\* A step of another part keeps it.
LEMMA RouteStutter == RouteInv /\ UNCHANGED routePanelVars => RouteInv'
<1> SUFFICES ASSUME RouteInv, UNCHANGED routePanelVars PROVE RouteInv'
  OBVIOUS
<1> QED
  BY CallsKept, ViewKept DEF RouteInv, routePanelVars, routeView, RoutesListed

-----------------------------------------------------------------------------
(* The editor of a route. *)
Listing == [stops : StopLists, viewOnly : BOOLEAN]

\* A geometry is drawn for the stops of its signature; what is listed, edited and saved are stops.
EditorInv ==
    /\ DOMAIN stored \subseteq EditedRoutes
    /\ \A r \in DOMAIN stored : stored[r] \in Listing
    /\ editorOpen \in BOOLEAN /\ editorReadonly \in BOOLEAN /\ editorMap \in BOOLEAN /\ fitDue \in BOOLEAN
    /\ editorRoute \in EditedRoutes \cup {NoneOpen} /\ editorRows \in StopLists
    /\ editorDrawn.stops \in StopLists /\ PreviewFitsStops
    /\ editorGeometry # NoneOpen => editorGeometry.of = editorGeometry.signature
    /\ IsFiniteSet(previewCalls) /\ Cardinality(previewCalls) <= MaxPreviews
    /\ \A c \in editorCalls : c.kind \in {"save", "delete"}
    /\ \A c \in editorCalls : c.kind = "save" => c.stops \in StopLists /\ c.route \in EditedRoutes \cup {NoneOpen}

\* The invariant of the route editor gives what is stated of it.
LEMMA EditorInvGives == ASSUME EditorInv PROVE RouteEditorTypeOK /\ PreviewFitsStops
BY DEF EditorInv, RouteEditorTypeOK

\* Lists of stops.
LEMMA StopListIs == ASSUME NEW s PROVE s \in StopLists <=> s \in Seq(StopPlaces) /\ Len(s) <= MaxStops
<1>0. MaxStops \in Nat
  BY RouteEditorAssumption
<1>1. ASSUME s \in StopLists PROVE s \in Seq(StopPlaces) /\ Len(s) <= MaxStops
  <2>1. PICK n \in 0..MaxStops : s \in [1..n -> StopPlaces]
    BY <1>1 DEF StopLists
  <2> QED
    BY <2>1, <1>0, SeqDef, LenProperties
<1>2. ASSUME s \in Seq(StopPlaces), Len(s) <= MaxStops PROVE s \in StopLists
  BY <1>2, <1>0, LenProperties DEF StopLists
<1> QED
  BY <1>1, <1>2

\* No stops are a list of stops.
LEMMA NoStops == <<>> \in StopLists
<1>1. <<>> \in Seq(StopPlaces) /\ Len(<<>>) = 0 /\ MaxStops \in Nat
  BY EmptySeq, RouteEditorAssumption
<1>2. <<>> \in StopLists <=> <<>> \in Seq(StopPlaces) /\ Len(<<>>) <= MaxStops
  BY StopListIs
<1> QED
  BY <1>1, <1>2

\* The route editor starts in the invariant.
LEMMA EditorInvInit == ASSUME RouteEditorInit PROVE EditorInv
<1>1. /\ editorOpen = FALSE /\ editorRoute = NoneOpen /\ editorRows = <<>> /\ editorReadonly = FALSE
      /\ editorMap = FALSE /\ editorDrawn = [stops |-> <<>>, line |-> <<>>]
      /\ editorGeometry = NoneOpen /\ previewCalls = {} /\ fitDue = FALSE /\ editorCalls = {}
  BY DEF RouteEditorInit
<1>2. <<>> \in StopLists
  BY NoStops
<1>3. DOMAIN stored \subseteq EditedRoutes
      /\ \A r \in DOMAIN stored : stored[r] \in Listing
  BY DEF RouteEditorInit, Listing
<1>4. editorOpen \in BOOLEAN /\ editorReadonly \in BOOLEAN /\ editorMap \in BOOLEAN /\ fitDue \in BOOLEAN
  BY <1>1
<1>5. IsFiniteSet(previewCalls) /\ Cardinality(previewCalls) <= MaxPreviews
  BY <1>1, FS_EmptySet, RouteEditorAssumption
<1> QED
  BY <1>1, <1>2, <1>3, <1>4, <1>5 DEF EditorInv, PreviewFitsStops

\* refreshDashboardRouteEditorMap draws one list of stops twice.
LEMMA RefreshFits ==
    ASSUME NEW rows \in StopLists, NEW geometry, geometry # NoneOpen => geometry.of = geometry.signature
    PROVE  LineOf(rows, geometry) = rows
BY DEF LineOf

\* A map drawn anew draws a line only when the line was computed for these stops.
LEMMA MapRefreshedFits ==
    ASSUME NEW rows \in StopLists, NEW geometry, geometry # NoneOpen => geometry.of = geometry.signature,
           NEW readonly, MapRefreshed(rows, geometry, readonly)
    PROVE  PreviewFitsStops' /\ editorDrawn'.stops \in StopLists
BY RefreshFits DEF MapRefreshed, PreviewFitsStops

\* Taking one element out of a sequence.
LEMMA SeqDrop ==
    ASSUME NEW S, NEW s \in Seq(S), NEW i \in 1..Len(s)
    PROVE  RemoveAt(s, i) \in Seq(S) /\ Len(RemoveAt(s, i)) = Len(s) - 1
<1>1. Len(s) \in Nat /\ \A k \in 1..Len(s) : s[k] \in S
  BY LenProperties, ElementOfSeq
<1>2. SubSeq(s, 1, i - 1) \in Seq(S) /\ Len(SubSeq(s, 1, i - 1)) = i - 1
  BY <1>1, SubSeqProperties
<1>3. SubSeq(s, i + 1, Len(s)) \in Seq(S) /\ Len(SubSeq(s, i + 1, Len(s))) = Len(s) - i
  BY <1>1, SubSeqProperties
<1> DEFINE a == SubSeq(s, 1, i - 1)
           b == SubSeq(s, i + 1, Len(s))
<1>4. a \in Seq(S) /\ b \in Seq(S) /\ Len(a) = i - 1 /\ Len(b) = Len(s) - i /\ RemoveAt(s, i) = a \o b
  BY <1>2, <1>3 DEF RemoveAt
<1> HIDE DEF a, b
<1>5. a \o b \in Seq(S) /\ Len(a \o b) = Len(a) + Len(b)
  BY <1>4, ConcatProperties
<1> QED
  BY <1>1, <1>4, <1>5

\* Putting one element into a sequence.
LEMMA SeqPut ==
    ASSUME NEW S, NEW s \in Seq(S), NEW i \in 1..(Len(s) + 1), NEW e \in S
    PROVE  InsertAt(s, i, e) \in Seq(S) /\ Len(InsertAt(s, i, e)) = Len(s) + 1
<1>1. Len(s) \in Nat /\ \A k \in 1..Len(s) : s[k] \in S
  BY LenProperties, ElementOfSeq
<1>2. SubSeq(s, 1, i - 1) \in Seq(S) /\ Len(SubSeq(s, 1, i - 1)) = i - 1
  BY <1>1, SubSeqProperties
<1>3. SubSeq(s, i, Len(s)) \in Seq(S) /\ Len(SubSeq(s, i, Len(s))) = Len(s) - i + 1
  BY <1>1, SubSeqProperties
<1>4. <<e>> \in Seq(S) /\ Len(<<e>>) = 1
  OBVIOUS
<1>5. SubSeq(s, 1, i - 1) \o <<e>> \in Seq(S) /\ Len(SubSeq(s, 1, i - 1) \o <<e>>) = i
  BY <1>1, <1>2, <1>4, ConcatProperties
<1> DEFINE a == SubSeq(s, 1, i - 1) \o <<e>>
           b == SubSeq(s, i, Len(s))
<1>6. a \in Seq(S) /\ b \in Seq(S) /\ Len(a) = i /\ Len(b) = Len(s) - i + 1 /\ InsertAt(s, i, e) = a \o b
  BY <1>3, <1>5 DEF InsertAt
<1> HIDE DEF a, b
<1>7. a \o b \in Seq(S) /\ Len(a \o b) = Len(a) + Len(b)
  BY <1>6, ConcatProperties
<1> QED
  BY <1>1, <1>6, <1>7

\* Adding, moving, removing and dragging a stop edit the rows to a list of stops.
LEMMA EditedRows ==
    ASSUME EditorInv, AddRouteStop \/ MoveRouteStop \/ RemoveRouteStop \/ DragRouteStop
    PROVE  \E rows \in StopLists : RowsEdited(rows)
<1>0. editorRows \in Seq(StopPlaces) /\ Len(editorRows) <= MaxStops /\ MaxStops \in Nat
      /\ DOMAIN editorRows = 1..Len(editorRows) /\ Len(editorRows) \in Nat
  BY StopListIs, LenProperties, RouteEditorAssumption DEF EditorInv
<1>1. CASE AddRouteStop
  <2>1. PICK p \in StopPlaces : Len(editorRows) < MaxStops /\ RowsEdited(Append(editorRows, p))
    BY <1>1 DEF AddRouteStop
  <2>2. Append(editorRows, p) \in Seq(StopPlaces) /\ Len(Append(editorRows, p)) = Len(editorRows) + 1
    BY <1>0, AppendProperties
  <2>4. Len(Append(editorRows, p)) <= MaxStops
    BY <1>0, <2>1, <2>2
  <2>3. Append(editorRows, p) \in StopLists
    BY <2>2, <2>4, StopListIs
  <2> QED
    BY <2>1, <2>3
<1>2. CASE MoveRouteStop
  <2>1. PICK i \in DOMAIN editorRows, p \in StopPlaces : RowsEdited([editorRows EXCEPT ![i] = p])
    BY <1>2 DEF MoveRouteStop
  <2>2. [editorRows EXCEPT ![i] = p] \in StopLists
    BY <1>0, ExceptSeq, StopListIs
  <2> QED
    BY <2>1, <2>2
<1>3. CASE RemoveRouteStop
  <2>1. PICK i \in DOMAIN editorRows : RowsEdited(RemoveAt(editorRows, i))
    BY <1>3 DEF RemoveRouteStop
  <2>2. RemoveAt(editorRows, i) \in StopLists
    BY <1>0, SeqDrop, StopListIs
  <2> QED
    BY <2>1, <2>2
<1>4. CASE DragRouteStop
  <2>1. PICK i \in DOMAIN editorRows, j \in DOMAIN editorRows :
            RowsEdited(InsertAt(RemoveAt(editorRows, i), j, editorRows[i]))
    BY <1>4 DEF DragRouteStop
  <2>2. RemoveAt(editorRows, i) \in Seq(StopPlaces) /\ Len(RemoveAt(editorRows, i)) = Len(editorRows) - 1
    BY <1>0, SeqDrop
  <2>3. editorRows[i] \in StopPlaces
    BY <1>0, ElementOfSeq
  <2>4. j \in 1..(Len(RemoveAt(editorRows, i)) + 1)
    BY <1>0, <2>2
  <2>5. InsertAt(RemoveAt(editorRows, i), j, editorRows[i]) \in StopLists
    BY <1>0, <2>2, <2>3, <2>4, SeqPut, StopListIs
  <2> QED
    BY <2>1, <2>5
<1> QED
  BY <1>1, <1>2, <1>3, <1>4

\* Opening the editor keeps the invariant.
LEMMA OpenEditorStep ==
    ASSUME EditorInv, NEW r \in EditedRoutes \cup {NoneOpen}, OpenRouteEditor(r)
    PROVE  EditorInv'
<1> DEFINE rows == IF r = NoneOpen THEN <<>> ELSE stored[r].stops
<1>1. rows \in StopLists
  <2>1. CASE r = NoneOpen
    BY <2>1, NoStops
  <2>2. CASE r # NoneOpen
    BY <2>2 DEF OpenRouteEditor, EditorInv, Listing
  <2> QED
    BY <2>1, <2>2
<1>2. /\ editorOpen' = TRUE /\ editorRoute' = r /\ editorRows' = rows
      /\ editorReadonly' = (r # NoneOpen /\ stored[r].viewOnly)
      /\ editorMap' = TRUE /\ fitDue' = (fitDue \/ ~editorMap)
      /\ UNCHANGED <<stored, previewCalls, editorCalls>>
  BY DEF OpenRouteEditor
<1>3. editorGeometry' \in {NoneOpen, [of |-> rows, signature |-> rows]}
  BY DEF OpenRouteEditor
<1>4. MapRefreshed(rows, editorGeometry, editorReadonly) \/ UNCHANGED editorDrawn
  BY DEF OpenRouteEditor
<1> HIDE DEF rows
<1>5. editorGeometry' # NoneOpen => editorGeometry'.of = editorGeometry'.signature
  BY <1>3
<1>6. PreviewFitsStops' /\ editorDrawn'.stops \in StopLists
  <2>1. CASE MapRefreshed(rows, editorGeometry, editorReadonly)
    BY <2>1, <1>1, MapRefreshedFits DEF EditorInv
  <2>2. CASE UNCHANGED editorDrawn
    BY <2>2 DEF EditorInv, PreviewFitsStops
  <2> QED
    BY <1>4, <2>1, <2>2
<1>7. editorOpen' \in BOOLEAN /\ editorReadonly' \in BOOLEAN /\ editorMap' \in BOOLEAN /\ fitDue' \in BOOLEAN
  BY <1>2
<1> QED
  BY <1>1, <1>2, <1>5, <1>6, <1>7 DEF EditorInv

\* An answer to a save leaves stored routes.
LEMMA SaveAnsweredStep ==
    ASSUME EditorInv, NEW c \in editorCalls, SaveAnswered(c)
    PROVE  /\ DOMAIN stored' \subseteq EditedRoutes
           /\ \A r \in DOMAIN stored' : stored'[r] \in Listing
<1>1. PICK r \in EditedRoutes :
         stored' = [q \in DOMAIN stored \cup {r} |->
                      IF q = r THEN [stops |-> c.stops, viewOnly |-> FALSE] ELSE stored[q]]
  BY DEF SaveAnswered, EditorInv
<1>2. c.stops \in StopLists
  BY DEF SaveAnswered, EditorInv
<1> QED
  BY <1>1, <1>2 DEF EditorInv, Listing

\* Every step of the route editor keeps its invariant.
LEMMA EditorStep == ASSUME EditorInv, RouteEditorNext PROVE EditorInv'
<1>1. ASSUME NEW r \in EditedRoutes \cup {NoneOpen}, ~editorOpen /\ OpenRouteEditor(r) PROVE EditorInv'
  BY <1>1, OpenEditorStep
<1>2. ASSUME NEW r \in EditedRoutes, RouteLocked(r) PROVE EditorInv'
  <2>1. /\ stored' = [stored EXCEPT ![r].viewOnly = ~@] /\ r \in DOMAIN stored
        /\ UNCHANGED <<editorOpen, editorRoute, editorRows, editorReadonly, editorMap, editorDrawn,
                       editorGeometry, previewCalls, fitDue, editorCalls>>
    BY <1>2 DEF RouteLocked
  <2>2. DOMAIN stored' = DOMAIN stored
    BY <2>1
  <2>3. ASSUME NEW q \in DOMAIN stored PROVE stored'[q] \in Listing
    <3>1. stored[q] \in Listing
      BY DEF EditorInv
    <3>2. CASE q = r
      <4>1. stored'[q] = [stored[q] EXCEPT !.viewOnly = ~stored[q].viewOnly]
        BY <2>1, <3>2
      <4> QED
        BY <4>1, <3>1 DEF Listing
    <3>3. CASE q # r
      BY <2>1, <3>1, <3>3
    <3> QED
      BY <3>2, <3>3
  <2> QED
    BY <2>1, <2>2, <2>3 DEF EditorInv, PreviewFitsStops
<1>3. CASE FitRefresh
  <2>1. fitDue' = FALSE /\ MapRefreshed(editorRows, editorGeometry, editorReadonly)
        /\ UNCHANGED <<stored, editorOpen, editorRoute, editorRows, editorReadonly, editorMap,
                   editorGeometry, previewCalls, editorCalls>>
    BY <1>3 DEF FitRefresh
  <2>2. PreviewFitsStops' /\ editorDrawn'.stops \in StopLists
    BY <2>1, MapRefreshedFits DEF EditorInv
  <2>3. fitDue' \in BOOLEAN
    BY <2>1
  <2> QED
    BY <2>1, <2>2, <2>3 DEF EditorInv
<1>4. CASE CloseRouteEditor
  <2>1. editorOpen' \in BOOLEAN
    BY <1>4 DEF CloseRouteEditor
  <2> QED
    BY <1>4, <2>1 DEF CloseRouteEditor, EditorInv, PreviewFitsStops
<1>5. CASE AddRouteStop \/ MoveRouteStop \/ RemoveRouteStop \/ DragRouteStop
  <2>1. PICK rows \in StopLists : RowsEdited(rows)
    BY <1>5, EditedRows
  <2>2. editorRows' = rows /\ MapRefreshed(rows, editorGeometry, editorReadonly)
        /\ UNCHANGED <<stored, editorOpen, editorRoute, editorReadonly, editorMap, editorGeometry,
                   previewCalls, fitDue, editorCalls>>
    BY <2>1 DEF RowsEdited
  <2>3. PreviewFitsStops' /\ editorDrawn'.stops \in StopLists
    BY <2>2, MapRefreshedFits DEF EditorInv
  <2> QED
    BY <2>2, <2>3 DEF EditorInv
<1>6. CASE PreviewAsked
  <2>1. previewCalls' = previewCalls \cup {previewTimer} /\ Cardinality(previewCalls') <= MaxPreviews
        /\ UNCHANGED <<stored, editorOpen, editorRoute, editorRows, editorReadonly, editorMap,
                   editorDrawn, editorGeometry, fitDue, editorCalls>>
    BY <1>6 DEF PreviewAsked
  <2>2. IsFiniteSet(previewCalls')
    BY <2>1, FS_AddElement DEF EditorInv
  <2> QED
    BY <2>1, <2>2 DEF EditorInv, PreviewFitsStops
<1>7. ASSUME NEW rows \in previewCalls, PreviewArrives(rows) PROVE EditorInv'
  <2>1. previewCalls' = previewCalls \ {rows}
        /\ UNCHANGED <<stored, editorOpen, editorRoute, editorRows, editorReadonly, editorMap, fitDue, editorCalls>>
    BY <1>7 DEF PreviewArrives
  <2>2. IsFiniteSet(previewCalls') /\ Cardinality(previewCalls') <= MaxPreviews
    <3>1. /\ IsFiniteSet(previewCalls \ {rows})
          /\ Cardinality(previewCalls \ {rows}) = Cardinality(previewCalls) - 1
      BY FS_RemoveElement DEF EditorInv
    <3>2. Cardinality(previewCalls) \in Nat /\ Cardinality(previewCalls) <= MaxPreviews /\ MaxPreviews \in Nat
      BY FS_CardinalityType, RouteEditorAssumption DEF EditorInv
    <3> QED
      BY <2>1, <3>1, <3>2
  <2>3. CASE UNCHANGED <<editorGeometry, editorDrawn>>
    BY <2>1, <2>2, <2>3 DEF EditorInv, PreviewFitsStops
  <2>4. CASE /\ editorGeometry' = [of |-> rows, signature |-> rows]
             /\ editorDrawn' = [stops |-> editorRows, line |-> LineOf(editorRows, editorGeometry')]
    <3>1. editorGeometry'.of = editorGeometry'.signature
      BY <2>4
    <3>2. editorRows \in StopLists
      BY DEF EditorInv
    <3>3. LineOf(editorRows, editorGeometry') = editorRows
      BY <3>1, <3>2, RefreshFits
    <3>4. PreviewFitsStops' /\ editorDrawn'.stops \in StopLists
      BY <2>4, <3>2, <3>3 DEF PreviewFitsStops
    <3> QED
      BY <2>1, <2>2, <3>1, <3>4 DEF EditorInv
  <2> QED
    BY <2>3, <2>4, <1>7 DEF PreviewArrives
<1>8. CASE SaveRoute \/ DeleteRoute
  <2>1. UNCHANGED <<stored, editorOpen, editorRoute, editorRows, editorReadonly, editorMap,
                   editorDrawn, editorGeometry, previewCalls, fitDue>>
    BY <1>8 DEF SaveRoute, DeleteRoute
  <2>2. \/ editorCalls' = {[kind |-> "save", route |-> editorRoute, stops |-> editorRows]}
        \/ editorCalls' = {[kind |-> "delete", route |-> editorRoute, stops |-> <<>>]}
    BY <1>8 DEF SaveRoute, DeleteRoute
  <2>3. /\ \A c \in editorCalls' : c.kind \in {"save", "delete"}
        /\ \A c \in editorCalls' : c.kind = "save" => c.stops \in StopLists /\ c.route \in EditedRoutes \cup {NoneOpen}
    BY <2>2 DEF EditorInv
  <2> QED
    BY <2>1, <2>3 DEF EditorInv, PreviewFitsStops
<1>9. ASSUME NEW c \in editorCalls, EditorAnswer(c) PROVE EditorInv'
  <2>1. editorCalls' = editorCalls \ {c}
        /\ UNCHANGED <<editorRoute, editorRows, editorReadonly, editorMap, editorDrawn,
                   editorGeometry, previewCalls, fitDue>>
    BY <1>9 DEF EditorAnswer
  <2>2. /\ DOMAIN stored' \subseteq EditedRoutes
        /\ \A r \in DOMAIN stored' : stored'[r] \in Listing
    <3>1. CASE SaveAnswered(c)
      BY <3>1, SaveAnsweredStep
    <3>2. CASE DeleteAnswered(c)
      BY <3>2 DEF DeleteAnswered, EditorInv
    <3>3. CASE UNCHANGED stored
      BY <3>3 DEF EditorInv
    <3> QED
      BY <1>9, <3>1, <3>2, <3>3 DEF EditorAnswer
  <2>3. editorOpen' \in BOOLEAN
    <3>1. editorOpen' = FALSE \/ editorOpen' = editorOpen
      BY <1>9 DEF EditorAnswer
    <3> QED
      BY <3>1 DEF EditorInv
  <2> QED
    BY <2>1, <2>2, <2>3 DEF EditorInv, PreviewFitsStops
<1> QED
  BY <1>1, <1>2, <1>3, <1>4, <1>5, <1>6, <1>7, <1>8, <1>9 DEF RouteEditorNext

\* A step of another part keeps it.
LEMMA EditorStutter == ASSUME EditorInv, UNCHANGED routeEditorVars PROVE EditorInv'
BY DEF EditorInv, routeEditorVars, PreviewFitsStops

\* In an editor opened to view only, no step changes the stops.
LEMMA ReadonlyStep ==
    ASSUME EditorInv, RouteEditorNext, editorOpen, editorReadonly
    PROVE  editorRows' = editorRows
BY DEF RouteEditorNext, RouteLocked, FitRefresh, CloseRouteEditor, AddRouteStop, MoveRouteStop,
       RemoveRouteStop, DragRouteStop, RowsEdited, PreviewAsked, PreviewArrives, SaveRoute, DeleteRoute,
       EditorAnswer

-----------------------------------------------------------------------------
(* The editor of geofences. *)
Kinds == {"none", "polygon", "polyline", "navigation"}
Windows == [of : Geofence \cup {NoGeofence, New}, type : Kinds, open : BOOLEAN]
EditingIs ==
    \/ editing = NotEditing
    \/ editing \in [id : Geofence, shape : Shape, onMap : BOOLEAN]
PendingIs ==
    \/ pending = NoPending
    \/ pending \in [of : Geofence \cup {New}, type : Kinds, shape : Shape, quiet : BOOLEAN]

\* The shapes of the server, the list, the map, the answers and the requests are shapes.
ShapesInv ==
    /\ IsShapes(gfStored) /\ IsShapes(geofences) /\ IsShapes(layers)
    /\ \A list \in gfReloads : IsShapes(list)
    /\ IsFiniteSet(gfReloads) /\ Cardinality(gfReloads) <= MaxReloads
    /\ drawing \in Kinds /\ navigating \in BOOLEAN
    /\ historyShown \in BOOLEAN
    /\ EditingIs /\ PendingIs
    /\ gfModal \in Windows
    /\ gfSaving.what = "save" => gfSaving.shape \in Shape

\* What waits is for the window from the moment the window has a name, before it is on the page.
NamedWindowHasItsShape ==
    /\ gfModal.open => gfModal.of # NoGeofence
    /\ gfModal.of # NoGeofence /\ pending # NoPending /\ ~pending.quiet =>
          pending.of = gfModal.of /\ pending.type = gfModal.type

GeofenceInv == ShapesInv /\ NamedWindowHasItsShape /\ NoEditLeftBehind

\* The invariant of the geofence editor gives what is stated of it.
LEMMA GeofenceInvGives == ASSUME GeofenceInv PROVE GeofenceEditorTypeOK /\ GeofenceEditorSound
<1>1. GeofenceEditorTypeOK
  BY DEF GeofenceInv, ShapesInv, GeofenceEditorTypeOK, EditingIs, PendingIs, NotEditing, NoPending, Kinds, Windows
<1>2. GeofenceEditorSound
  BY DEF GeofenceInv, GeofenceEditorSound, NamedWindowHasItsShape, WindowHasItsShape
<1> QED
  BY <1>1, <1>2

\* What the assumption on its constants says.
LEMMA GeofenceConstants ==
    /\ Mine \subseteq Geofence /\ NoShape \notin Shape /\ NoGeofence \notin Geofence
    /\ New \notin Geofence /\ New # NoGeofence /\ MaxReloads \in Nat
BY GeofenceAssumption

\* Shapes of some geofences.
LEMMA ShapesAre ==
    ASSUME NEW f
    PROVE  IsShapes(f) <=> DOMAIN f \subseteq Geofence /\ \A g \in DOMAIN f : f[g] \in Shape
BY DEF IsShapes, Range

\* A closed window edits nothing.
LEMMA ClosedWindow ==
    ModalClosed \in Windows /\ ModalClosed.of = NoGeofence /\ ModalClosed.open = FALSE
BY DEF ModalClosed, Windows, Kinds

\* The geofence editor starts in the invariant.
LEMMA GeofenceInvInit == ASSUME GeofenceEditorInit PROVE GeofenceInv
<1>1. PICK s \in Shape : gfStored = [g \in Geofence |-> s] /\ geofences = gfStored
  BY DEF GeofenceEditorInit
<1>2. /\ layers = [g \in Mine |-> geofences[g]] /\ drawing = "none" /\ navigating = FALSE
      /\ editing = NotEditing /\ pending = NoPending /\ gfModal = ModalClosed /\ gfSaving = NotSaving
      /\ gfReloads = {} /\ historyShown = FALSE
  BY DEF GeofenceEditorInit
<1>3. IsShapes(gfStored) /\ IsShapes(geofences)
  BY <1>1, ShapesAre
<1>4. IsShapes(layers) /\ \A g \in DOMAIN layers : layers[g] = geofences[g]
  BY <1>1, <1>2, <1>3, ShapesAre, GeofenceConstants
<1>5. navigating \in BOOLEAN /\ historyShown \in BOOLEAN
  BY <1>2
<1>6. IsFiniteSet(gfReloads) /\ Cardinality(gfReloads) <= MaxReloads
  BY <1>2, FS_EmptySet, GeofenceConstants
<1>7. gfModal \in Windows
      /\ gfModal.of = NoGeofence /\ ~gfModal.open
  BY <1>2, ClosedWindow
<1>8. gfSaving.what # "save"
  BY <1>2 DEF NotSaving
<1>9. ShapesInv
  BY <1>2, <1>3, <1>4, <1>5, <1>6, <1>7, <1>8 DEF ShapesInv, EditingIs, PendingIs, Kinds
<1> QED
  BY <1>4, <1>7, <1>9 DEF GeofenceInv, NamedWindowHasItsShape, NoEditLeftBehind

\* Setting a field to what it is changes nothing.
LEMMA OnMapAgain ==
    ASSUME NEW a, NEW b, NEW c
    PROVE  [[id |-> a, shape |-> b, onMap |-> c] EXCEPT !.onMap = c] = [id |-> a, shape |-> b, onMap |-> c]
OBVIOUS

\* A list that is asked for is of the shapes the server has, and is on its way.
LEMMA ReloadingStep ==
    ASSUME GeofenceInv, NEW list, IsShapes(list), Reloading(list)
    PROVE  /\ \A other \in gfReloads' : IsShapes(other)
           /\ IsFiniteSet(gfReloads') /\ Cardinality(gfReloads') <= MaxReloads
           /\ gfReloads' # {}
BY FS_AddElement DEF Reloading, GeofenceInv, ShapesInv

\* Lists on their way stay lists of geofences.
LEMMA ReloadsKept ==
    ASSUME GeofenceInv, UNCHANGED gfReloads
    PROVE  /\ \A other \in gfReloads' : IsShapes(other)
           /\ IsFiniteSet(gfReloads') /\ Cardinality(gfReloads') <= MaxReloads
BY DEF GeofenceInv, ShapesInv

\* Drawing all geofences keeps the one that is edited, or ends its editing.
LEMMA RenderAllStep ==
    ASSUME GeofenceInv, NEW cache, IsShapes(cache), NEW all, RenderAll(cache, all)
    PROVE  /\ IsShapes(geofences') /\ IsShapes(layers') /\ EditingIs'
           /\ NoEditLeftBehind'
<1>1. geofences' = cache /\ layers' = VisibleOf(cache, all) /\ editing' = [editing EXCEPT !.onMap = FALSE]
  BY DEF RenderAll
<1>2. DOMAIN layers' \subseteq DOMAIN cache /\ \A g \in DOMAIN layers' : layers'[g] = cache[g]
  BY <1>1 DEF VisibleOf, Restrict
<1>3. IsShapes(layers')
  BY <1>2, ShapesAre
<1>4. EditingIs'
  <2>1. CASE editing = NotEditing
    <3>1. [NotEditing EXCEPT !.onMap = FALSE] = NotEditing
      BY OnMapAgain DEF NotEditing
    <3> QED
      BY <1>1, <2>1, <3>1 DEF EditingIs
  <2>2. CASE editing \in [id : Geofence, shape : Shape, onMap : BOOLEAN]
    BY <1>1, <2>2 DEF EditingIs
  <2> QED
    BY <2>1, <2>2 DEF GeofenceInv, ShapesInv, EditingIs
<1>5. NoEditLeftBehind'
  BY <1>1, <1>2 DEF NoEditLeftBehind
<1> QED
  BY <1>1, <1>3, <1>4, <1>5

\* A list that arrives keeps the invariant.
LEMMA ReloadArrivesStep ==
    ASSUME GeofenceInv, NEW list \in gfReloads, ReloadArrives(list)
    PROVE  GeofenceInv'
<1>1. PICK cache \in {list, <<>>} : RenderAll(cache, showAllUsers)
  BY DEF ReloadArrives
<1>2. IsShapes(cache)
  <2>1. IsShapes(list)
    BY DEF GeofenceInv, ShapesInv
  <2>2. IsShapes(<<>>)
    BY ShapesAre
  <2> QED
    BY <1>1, <2>1, <2>2
<1>3. /\ gfReloads' = gfReloads \ {list}
      /\ UNCHANGED <<gfStored, drawing, navigating, pending, gfModal, gfSaving, historyShown>>
  BY DEF ReloadArrives
<1>4. IsFiniteSet(gfReloads') /\ Cardinality(gfReloads') <= MaxReloads
  <2>1. IsFiniteSet(gfReloads) /\ Cardinality(gfReloads) <= MaxReloads
    BY DEF GeofenceInv, ShapesInv
  <2>2. IsFiniteSet(gfReloads \ {list}) /\ Cardinality(gfReloads \ {list}) = Cardinality(gfReloads) - 1
        /\ Cardinality(gfReloads) \in Nat
    BY <2>1, FS_RemoveElement, FS_CardinalityType
  <2> QED
    BY <1>3, <2>1, <2>2, GeofenceConstants
<1>5. IsShapes(geofences') /\ IsShapes(layers') /\ EditingIs' /\ NoEditLeftBehind'
  BY <1>1, <1>2, RenderAllStep
<1>6. ShapesInv'
  BY <1>3, <1>4, <1>5 DEF GeofenceInv, ShapesInv, PendingIs
<1>7. NamedWindowHasItsShape'
  BY <1>3 DEF GeofenceInv, NamedWindowHasItsShape
<1> QED
  BY <1>5, <1>6, <1>7 DEF GeofenceInv

\* A step of the window and the toolbar: the list and the map stay.
LEMMA MapStays ==
    ASSUME GeofenceInv, UNCHANGED gfMap,
           \/ gfReloads' # {}
           \/ gfReloads' = gfReloads /\ (editing' = editing \/ editing = NotEditing)
    PROVE  NoEditLeftBehind'
<1>1. UNCHANGED <<geofences, layers>>
  BY DEF gfMap
<1>2. CASE gfReloads' # {}
  BY <1>2 DEF NoEditLeftBehind
<1>3. CASE gfReloads' = gfReloads /\ editing' = editing
  BY <1>1, <1>3 DEF GeofenceInv, NoEditLeftBehind
<1>4. CASE gfReloads' = gfReloads /\ editing = NotEditing
  <2>1. \A g \in DOMAIN layers : g # NoGeofence
    BY ShapesAre, GeofenceConstants DEF GeofenceInv, ShapesInv
  <2>2. editing.id = NoGeofence
    BY <1>4 DEF NotEditing
  <2> QED
    BY <1>1, <1>4, <2>1, <2>2 DEF GeofenceInv, NoEditLeftBehind
<1> QED
  BY <1>2, <1>3, <1>4

\* What the server has stored can be asked for again.
LEMMA StoredReload ==
    ASSUME GeofenceInv, Reloading(gfStored)
    PROVE  /\ \A other \in gfReloads' : IsShapes(other)
           /\ IsFiniteSet(gfReloads') /\ Cardinality(gfReloads') <= MaxReloads
           /\ gfReloads' # {}
BY ReloadingStep DEF GeofenceInv, ShapesInv

\* Starting to draw keeps the invariant.
LEMMA StartDrawStep ==
    ASSUME GeofenceInv, NEW type \in {"polygon", "polyline", "navigation"}, StartDrawGeofence(type)
    PROVE  GeofenceInv'
<1>1. /\ drawing' = type /\ pending' = NoPending /\ EditLeft
      /\ UNCHANGED gfMap /\ UNCHANGED <<gfStored, navigating, gfModal, gfSaving, historyShown>>
  BY DEF StartDrawGeofence
<1>2. /\ \A other \in gfReloads' : IsShapes(other)
      /\ IsFiniteSet(gfReloads') /\ Cardinality(gfReloads') <= MaxReloads
      /\ EditingIs'
      /\ \/ gfReloads' # {}
         \/ gfReloads' = gfReloads /\ (editing' = editing \/ editing = NotEditing)
  <2>1. CASE editing = NotEditing
    BY <1>1, <2>1, ReloadsKept DEF EditLeft, EditingIs
  <2>2. CASE editing # NotEditing
    BY <1>1, <2>2, StoredReload DEF EditLeft, EditCancelled, EditingIs
  <2> QED
    BY <2>1, <2>2
<1>3. NoEditLeftBehind'
  BY <1>1, <1>2, MapStays
<1>4. ShapesInv'
  BY <1>1, <1>2 DEF GeofenceInv, ShapesInv, PendingIs, gfMap, Kinds
<1>5. NamedWindowHasItsShape'
  BY <1>1 DEF GeofenceInv, NamedWindowHasItsShape
<1> QED
  BY <1>3, <1>4, <1>5 DEF GeofenceInv

\* Starting to edit keeps it.
LEMMA EnterEditStep ==
    ASSUME GeofenceInv, NEW id \in Geofence, EnterEditMode(id)
    PROVE  GeofenceInv'
<1>1. /\ editing' = [id |-> id, shape |-> layers[id], onMap |-> TRUE] /\ id \in DOMAIN layers
      /\ IF editing = NotEditing THEN UNCHANGED gfReloads ELSE Reloading(gfStored)
      /\ UNCHANGED gfMap /\ UNCHANGED <<gfStored, drawing, navigating, pending, gfModal, gfSaving, historyShown>>
  BY DEF EnterEditMode
<1>2. layers[id] \in Shape
  BY <1>1, ShapesAre DEF GeofenceInv, ShapesInv
<1>3. EditingIs'
  BY <1>1, <1>2 DEF EditingIs
<1>4. /\ \A other \in gfReloads' : IsShapes(other)
      /\ IsFiniteSet(gfReloads') /\ Cardinality(gfReloads') <= MaxReloads
      /\ \/ gfReloads' # {}
         \/ gfReloads' = gfReloads /\ editing = NotEditing
  <2>1. CASE editing = NotEditing
    BY <1>1, <2>1, ReloadsKept
  <2>2. CASE editing # NotEditing
    BY <1>1, <2>2, StoredReload
  <2> QED
    BY <2>1, <2>2
<1>5. NoEditLeftBehind'
  BY <1>1, <1>4, MapStays
<1>6. ShapesInv'
  BY <1>1, <1>3, <1>4 DEF GeofenceInv, ShapesInv, PendingIs, gfMap
<1>7. NamedWindowHasItsShape'
  BY <1>1 DEF GeofenceInv, NamedWindowHasItsShape
<1> QED
  BY <1>5, <1>6, <1>7 DEF GeofenceInv

\* Dragging a vertex keeps it.
LEMMA DragVertexStep ==
    ASSUME GeofenceInv, NEW shape \in Shape, DragVertex(shape)
    PROVE  GeofenceInv'
<1>1. /\ editing # NotEditing /\ editing' = [editing EXCEPT !.shape = shape]
      /\ layers' = [layers EXCEPT ![editing.id] = shape]
      /\ UNCHANGED <<gfStored, geofences, showAllUsers, drawing, navigating, pending, gfModal, gfSaving,
                     gfReloads, historyShown>>
  BY DEF DragVertex
<1>2. EditingIs' /\ editing'.id = editing.id
  BY <1>1 DEF GeofenceInv, ShapesInv, EditingIs
<1>3. IsShapes(layers')
  BY <1>1, ShapesAre DEF GeofenceInv, ShapesInv
<1>4. NoEditLeftBehind'
  BY <1>1, <1>2 DEF GeofenceInv, NoEditLeftBehind
<1>5. ShapesInv'
  BY <1>1, <1>2, <1>3 DEF GeofenceInv, ShapesInv, PendingIs
<1>6. NamedWindowHasItsShape'
  BY <1>1 DEF GeofenceInv, NamedWindowHasItsShape
<1> QED
  BY <1>4, <1>5, <1>6 DEF GeofenceInv

\* Coordinates and the name of the window are set together, or the window is not for them.
LEMMA WindowNamed ==
    ASSUME GeofenceInv, NEW of \in Geofence \cup {New}, NEW type \in Kinds, NEW shape \in Shape,
           pending' = [of |-> of, type |-> type, shape |-> shape, quiet |-> historyShown],
           ModalFor(of, type)
    PROVE  /\ PendingIs' /\ NamedWindowHasItsShape'
           /\ gfModal' \in Windows
<1>0. historyShown \in BOOLEAN /\ gfModal \in Windows
  BY DEF GeofenceInv, ShapesInv
<1>1. PendingIs'
  BY <1>0 DEF PendingIs
<1>2. CASE historyShown
  <2>1. gfModal' = gfModal
    BY <1>2 DEF ModalFor
  <2>2. pending'.quiet
    BY <1>2
  <2> QED
    BY <1>0, <1>1, <2>1, <2>2 DEF GeofenceInv, NamedWindowHasItsShape
<1>3. CASE ~historyShown
  <2>1. gfModal' = [of |-> of, type |-> type, open |-> gfModal.open]
    BY <1>3 DEF ModalFor
  <2>2. gfModal'.of = pending'.of /\ gfModal'.type = pending'.type /\ gfModal'.of # NoGeofence
    BY <2>1, GeofenceConstants
  <2>3. gfModal' \in Windows
    BY <2>1, <1>0 DEF Windows
  <2> QED
    BY <1>1, <2>2, <2>3 DEF NamedWindowHasItsShape
<1> QED
  BY <1>2, <1>3

\* The steps that open the window with a shape keep it.
LEMMA WindowSteps ==
    ASSUME GeofenceInv,
           \/ \E shape \in Shape : DrawCreated(shape) \/ PreviewOfPath(shape)
           \/ SaveEditedGeofence
    PROVE  GeofenceInv'
<1>1. PICK of \in Geofence \cup {New}, type \in Kinds, shape \in Shape :
          /\ pending' = [of |-> of, type |-> type, shape |-> shape, quiet |-> historyShown]
          /\ ModalFor(of, type)
  <2>1. ASSUME NEW shape \in Shape, DrawCreated(shape)
        PROVE  /\ pending' = [of |-> New, type |-> drawing, shape |-> shape, quiet |-> historyShown]
               /\ ModalFor(New, drawing) /\ drawing \in Kinds
    BY <2>1 DEF DrawCreated, GeofenceInv, ShapesInv
  <2>2. ASSUME NEW shape \in Shape, PreviewOfPath(shape)
        PROVE  /\ pending' = [of |-> New, type |-> "polyline", shape |-> shape, quiet |-> historyShown]
               /\ ModalFor(New, "polyline")
    BY <2>2 DEF PreviewOfPath
  <2>3. CASE SaveEditedGeofence
    <3>1. /\ pending' = [of |-> editing.id, type |-> ListedType(editing.id), shape |-> editing.shape,
                         quiet |-> historyShown]
          /\ ModalFor(editing.id, ListedType(editing.id)) /\ editing # NotEditing
      BY <2>3 DEF SaveEditedGeofence, ModalWithShape
    <3>2. editing.id \in Geofence /\ editing.shape \in Shape
      BY <3>1 DEF GeofenceInv, ShapesInv, EditingIs
    <3>3. ListedType(editing.id) \in Kinds
      BY DEF ListedType, TypeOf, Kinds
    <3> QED
      BY <3>1, <3>2, <3>3
  <2>4. CASE \E shape \in Shape : DrawCreated(shape)
    BY <2>1, <2>4
  <2>5. CASE \E shape \in Shape : PreviewOfPath(shape)
    <3>1. "polyline" \in Kinds
      BY DEF Kinds
    <3> QED
      BY <2>2, <2>5, <3>1
  <2> QED
    BY <2>3, <2>4, <2>5
<1>2. /\ UNCHANGED gfMap /\ UNCHANGED <<gfStored, editing, gfSaving, gfReloads, historyShown>>
      /\ drawing' \in {"none", drawing} /\ navigating' \in BOOLEAN
  BY DEF DrawCreated, PreviewOfPath, SaveEditedGeofence, GeofenceInv, ShapesInv
<1>3. /\ PendingIs' /\ NamedWindowHasItsShape'
      /\ gfModal' \in Windows
  BY <1>1, WindowNamed
<1>4. NoEditLeftBehind'
  BY <1>2, MapStays
<1>5. ShapesInv'
  BY <1>2, <1>3 DEF GeofenceInv, ShapesInv, EditingIs, gfMap, Kinds
<1> QED
  BY <1>3, <1>4, <1>5 DEF GeofenceInv

\* Steps that give up what waits, close the window or only send a request.
LEMMA QuietSteps ==
    ASSUME GeofenceInv,
           \/ ToggleHistory \/ CancelDraw \/ NavigationDrawn \/ PathFails \/ OwnersKnown
           \/ SubmitGeofenceModal \/ DeleteGeofence \/ RequestFails
    PROVE  GeofenceInv'
<1>0. /\ gfModal \in Windows
      /\ historyShown \in BOOLEAN /\ drawing \in Kinds
      /\ navigating \in BOOLEAN
  BY DEF GeofenceInv, ShapesInv
<1>1. UNCHANGED gfMap /\ UNCHANGED <<gfStored, editing, gfReloads>>
  BY DEF ToggleHistory, CancelDraw, NavigationDrawn, PathFails, OwnersKnown, SubmitGeofenceModal,
         DeleteGeofence, RequestFails
<1>2. NoEditLeftBehind'
  BY <1>1, MapStays
<1>3. drawing' \in {"none", drawing} /\ navigating' \in BOOLEAN /\ historyShown' \in BOOLEAN
  BY <1>0 DEF ToggleHistory, CancelDraw, NavigationDrawn, PathFails, OwnersKnown, SubmitGeofenceModal,
         DeleteGeofence, RequestFails
<1>4. pending' = NoPending \/ pending' = pending
  BY DEF ToggleHistory, CancelDraw, NavigationDrawn, PathFails, OwnersKnown, SubmitGeofenceModal,
         DeleteGeofence, RequestFails
<1>5. gfModal' = gfModal \/ (gfModal' = [gfModal EXCEPT !.open = TRUE] /\ gfModal.of # NoGeofence)
  BY DEF ToggleHistory, CancelDraw, NavigationDrawn, PathFails, OwnersKnown, SubmitGeofenceModal,
         DeleteGeofence, RequestFails
<1>6. gfSaving'.what = "save" => gfSaving'.shape \in Shape
  <2>1. CASE SubmitGeofenceModal
    BY <2>1 DEF SubmitGeofenceModal, GeofenceInv, ShapesInv, PendingIs
  <2>2. CASE DeleteGeofence \/ RequestFails
    BY <2>2 DEF DeleteGeofence, RequestFails, NotSaving
  <2>3. CASE ~SubmitGeofenceModal /\ ~DeleteGeofence /\ ~RequestFails
    <3>1. gfSaving' = gfSaving
      BY <2>3 DEF ToggleHistory, CancelDraw, NavigationDrawn, PathFails, OwnersKnown
    <3> QED
      BY <3>1 DEF GeofenceInv, ShapesInv
  <2> QED
    BY <2>1, <2>2, <2>3
<1>7. /\ gfModal' \in Windows
      /\ gfModal'.of = gfModal.of /\ gfModal'.type = gfModal.type
      /\ gfModal'.open => gfModal.open \/ gfModal.of # NoGeofence
  BY <1>0, <1>5 DEF Windows
<1>8. NamedWindowHasItsShape'
  BY <1>4, <1>7 DEF GeofenceInv, NamedWindowHasItsShape
<1>9. ShapesInv'
  BY <1>1, <1>3, <1>4, <1>6, <1>7 DEF GeofenceInv, ShapesInv, EditingIs, PendingIs, gfMap, Kinds
<1> QED
  BY <1>2, <1>8, <1>9 DEF GeofenceInv

\* The steps that give a shape up keep it.
LEMMA ClosingSteps ==
    ASSUME GeofenceInv, CancelGeofenceEdit \/ CloseGeofenceModal
    PROVE  GeofenceInv'
<1>1. CASE CancelGeofenceEdit
  <2>1. /\ editing' = NotEditing /\ drawing' = "none" /\ pending' = NoPending /\ Reloading(gfStored)
        /\ UNCHANGED gfMap /\ UNCHANGED <<gfStored, navigating, gfModal, gfSaving, historyShown>>
    BY <1>1 DEF CancelGeofenceEdit, EditCancelled
  <2>2. /\ \A other \in gfReloads' : IsShapes(other)
        /\ IsFiniteSet(gfReloads') /\ Cardinality(gfReloads') <= MaxReloads /\ gfReloads' # {}
    BY <2>1, StoredReload
  <2>3. ShapesInv'
    BY <2>1, <2>2 DEF GeofenceInv, ShapesInv, EditingIs, PendingIs, gfMap, Kinds
  <2>4. NamedWindowHasItsShape' /\ NoEditLeftBehind'
    BY <2>1, <2>2 DEF GeofenceInv, NamedWindowHasItsShape, NoEditLeftBehind
  <2> QED
    BY <2>3, <2>4 DEF GeofenceInv
<1>2. CASE CloseGeofenceModal
  <2>1. /\ gfModal' = ModalClosed /\ ModalGone
        /\ UNCHANGED gfMap /\ UNCHANGED <<gfStored, drawing, navigating, editing, gfSaving, historyShown>>
    BY <1>2 DEF CloseGeofenceModal
  <2>2. gfModal' \in Windows
        /\ gfModal'.of = NoGeofence /\ ~gfModal'.open
    BY <2>1, ClosedWindow
  <2>3. /\ pending' = NoPending \/ pending' = pending
        /\ \A other \in gfReloads' : IsShapes(other)
        /\ IsFiniteSet(gfReloads') /\ Cardinality(gfReloads') <= MaxReloads
        /\ gfReloads' # {} \/ gfReloads' = gfReloads
    <3>1. CASE gfModal.of = New
      BY <2>1, <3>1, StoredReload DEF ModalGone
    <3>2. CASE gfModal.of # New
      BY <2>1, <3>2, ReloadsKept DEF ModalGone
    <3> QED
      BY <3>1, <3>2
  <2>4. NoEditLeftBehind'
    BY <2>1, <2>3, MapStays
  <2>5. ShapesInv'
    BY <2>1, <2>2, <2>3 DEF GeofenceInv, ShapesInv, EditingIs, PendingIs, gfMap
  <2>6. NamedWindowHasItsShape'
    BY <2>2 DEF NamedWindowHasItsShape
  <2> QED
    BY <2>4, <2>5, <2>6 DEF GeofenceInv
<1> QED
  BY <1>1, <1>2

\* The answers to a save and a deletion keep it.
LEMMA AnsweredSteps ==
    ASSUME GeofenceInv, GeofenceSaved \/ GeofenceDeleted
    PROVE  GeofenceInv'
<1>1. IsShapes(gfStored')
  <2>1. CASE GeofenceSaved
    <3>1. PICK id \in IF gfSaving.of = New THEN Geofence \ DOMAIN gfStored ELSE {gfSaving.of} \cap DOMAIN gfStored :
            gfStored' = [g \in DOMAIN gfStored \cup {id} |-> IF g = id THEN gfSaving.shape ELSE gfStored[g]]
      BY <2>1 DEF GeofenceSaved
    <3>2. IsShapes(gfStored) /\ gfSaving.shape \in Shape
      BY <2>1 DEF GeofenceInv, ShapesInv, GeofenceSaved
    <3>3. id \in Geofence
      BY <3>1, <3>2, ShapesAre
    <3> QED
      BY <3>1, <3>2, <3>3, ShapesAre
  <2>2. CASE GeofenceDeleted
    <3>1. gfStored' = Restrict(gfStored, DOMAIN gfStored \ {gfSaving.of}) /\ IsShapes(gfStored)
      BY <2>2 DEF GeofenceDeleted, GeofenceInv, ShapesInv
    <3>2. DOMAIN gfStored' \subseteq DOMAIN gfStored /\ \A g \in DOMAIN gfStored' : gfStored'[g] = gfStored[g]
      BY <3>1 DEF Restrict
    <3> QED
      BY <3>1, <3>2, ShapesAre
  <2> QED
    BY <2>1, <2>2
<1>2. /\ editing' = NotEditing /\ Reloading(gfStored') /\ gfSaving' = NotSaving
      /\ UNCHANGED gfMap /\ UNCHANGED <<drawing, navigating, historyShown>>
      /\ pending' = NoPending \/ pending' = pending
      /\ gfModal' = ModalClosed \/ (gfModal' = gfModal /\ pending' = pending)
  BY DEF GeofenceSaved, GeofenceDeleted, EditCancelled
<1>3. /\ \A other \in gfReloads' : IsShapes(other)
      /\ IsFiniteSet(gfReloads') /\ Cardinality(gfReloads') <= MaxReloads /\ gfReloads' # {}
  BY <1>1, <1>2, ReloadingStep
<1>4. gfModal' \in Windows
  BY <1>2, ClosedWindow DEF GeofenceInv, ShapesInv
<1>5. ShapesInv'
  BY <1>1, <1>2, <1>3, <1>4 DEF GeofenceInv, ShapesInv, EditingIs, PendingIs, gfMap, NotSaving
<1>6. NamedWindowHasItsShape'
  <2>1. CASE gfModal' = ModalClosed
    BY <2>1, ClosedWindow DEF NamedWindowHasItsShape
  <2>2. CASE gfModal' = gfModal /\ pending' = pending
    BY <2>2 DEF GeofenceInv, NamedWindowHasItsShape
  <2> QED
    BY <1>2, <2>1, <2>2
<1>7. NoEditLeftBehind'
  BY <1>3 DEF NoEditLeftBehind
<1> QED
  BY <1>5, <1>6, <1>7 DEF GeofenceInv

\* Showing the geofences of all users keeps it.
LEMMA ToggleUsersStep ==
    ASSUME GeofenceInv, ToggleAllUsersGeofences
    PROVE  GeofenceInv'
<1>1. RenderAll(geofences, ~showAllUsers)
      /\ UNCHANGED <<gfStored, drawing, navigating, pending, gfModal, gfSaving, gfReloads, historyShown>>
  BY DEF ToggleAllUsersGeofences
<1>2. IsShapes(geofences)
  BY DEF GeofenceInv, ShapesInv
<1>3. IsShapes(geofences') /\ IsShapes(layers') /\ EditingIs' /\ NoEditLeftBehind'
  BY <1>1, <1>2, RenderAllStep
<1>4. ShapesInv' /\ NamedWindowHasItsShape'
  BY <1>1, <1>3 DEF GeofenceInv, ShapesInv, PendingIs, NamedWindowHasItsShape
<1> QED
  BY <1>3, <1>4 DEF GeofenceInv

\* Every step of the geofence editor keeps its invariant.
LEMMA GeofenceStep == ASSUME GeofenceInv, GeofenceEditorNext PROVE GeofenceInv'
BY ReloadArrivesStep, StartDrawStep, EnterEditStep, DragVertexStep, WindowSteps, QuietSteps, ClosingSteps,
   AnsweredSteps, ToggleUsersStep DEF GeofenceEditorNext

\* A step of another part keeps it.
LEMMA GeofenceStutter == ASSUME GeofenceInv, UNCHANGED gfEditorVars PROVE GeofenceInv'
<1>1. ShapesInv'
  BY DEF GeofenceInv, ShapesInv, EditingIs, PendingIs, gfEditorVars
<1>2. NamedWindowHasItsShape' /\ NoEditLeftBehind'
  BY DEF GeofenceInv, NamedWindowHasItsShape, NoEditLeftBehind, gfEditorVars
<1> QED
  BY <1>1, <1>2 DEF GeofenceInv

-----------------------------------------------------------------------------
(* The dashboard. *)
\* The invariant of all parts: each keeps its own while another is in use.
DashboardInv ==
    /\ MapInv /\ AlertPanelInv /\ HistoryInv /\ InTime(driven) /\ EcoInv
    /\ SensorInv /\ LocationInv /\ RouteInv /\ EditorInv /\ GeofenceInv

Pages == {"map", "alerts", "history", "events", "scorecard", "sensors", "location", "routes", "editor", "geofences"}

\* The dashboard starts in it, on one of its parts.
LEMMA DashboardInitially == DashboardInit => DashboardInv /\ page \in Pages
<1> SUFFICES ASSUME DashboardInit PROVE DashboardInv /\ page \in Pages
  OBVIOUS
<1>1. MapInv /\ AlertPanelInv
  BY MapInvInit, AlertPanelInvInit DEF DashboardInit
<1>2. HistoryInv /\ InTime(driven) /\ EcoInv /\ SensorInv
  BY HistoryInvInit, DrivenInit, EcoInvInit, SensorInvInit DEF DashboardInit
<1>3. LocationInv
  BY LocationInvInit DEF DashboardInit
<1>4. RouteInv /\ EditorInv /\ GeofenceInv
  BY RouteInvInit, EditorInvInit, GeofenceInvInit DEF DashboardInit
<1>5. page \in Pages
  BY DEF DashboardInit, Pages
<1> QED
  BY <1>1, <1>2, <1>3, <1>4, <1>5 DEF DashboardInv

\* A step is one of the part in use, and every other part keeps its state.
LEMMA StepsOfParts ==
    ASSUME [DashboardNext]_DashboardVars
    PROVE  /\ page' = page
           /\ MapNext \/ UNCHANGED mapVars
           /\ AlertPanelNext \/ UNCHANGED alertPanelVars
           /\ HistoryPlaybackNext \/ UNCHANGED playbackVars
           /\ EcoEventsNext \/ UNCHANGED driven
           /\ TripEcoNext \/ UNCHANGED tripEcoVars
           /\ SensorHistoryNext \/ UNCHANGED sensorHistoryVars
           /\ UserLocationNext \/ UNCHANGED userLocationVars
           /\ RoutePanelNext \/ UNCHANGED routePanelVars
           /\ RouteEditorNext \/ UNCHANGED routeEditorVars
           /\ GeofenceEditorNext \/ UNCHANGED gfEditorVars
<1>1. CASE UNCHANGED DashboardVars
  BY <1>1 DEF DashboardVars
<1>2. CASE DashboardNext
  <2>1. CASE MapPage
    BY <2>1 DEF MapPage, pastVars, drawingVars
  <2>2. CASE AlertsPage
    BY <2>2 DEF AlertsPage, pastVars, drawingVars
  <2>3. CASE HistoryPage
    BY <2>3 DEF HistoryPage, pastVars, drawingVars
  <2>4. CASE EventsPage
    BY <2>4 DEF EventsPage, pastVars, drawingVars
  <2>5. CASE ScorecardPage
    BY <2>5 DEF ScorecardPage, pastVars, drawingVars
  <2>6. CASE SensorsPage
    BY <2>6 DEF SensorsPage, pastVars, drawingVars
  <2>7. CASE LocationPage
    BY <2>7 DEF LocationPage, pastVars, drawingVars
  <2>8. CASE RoutesPage
    BY <2>8 DEF RoutesPage, pastVars, drawingVars
  <2>9. CASE EditorPage
    BY <2>9 DEF EditorPage, pastVars, drawingVars
  <2>10. CASE GeofencesPage
    BY <2>10 DEF GeofencesPage, pastVars, drawingVars
  <2> QED
    BY <1>2, <2>1, <2>2, <2>3, <2>4, <2>5, <2>6, <2>7, <2>8, <2>9, <2>10 DEF DashboardNext
<1> QED
  BY <1>1, <1>2

\* Every step of the dashboard keeps the invariant of every part.
LEMMA DashboardStep ==
    ASSUME DashboardInv, page \in Pages, [DashboardNext]_DashboardVars
    PROVE  DashboardInv' /\ page' \in Pages
<1>1. MapInv'
  BY StepsOfParts, MapStep, MapStutter DEF DashboardInv
<1>2. AlertPanelInv'
  BY StepsOfParts, AlertPanelKept, AlertPanelStutter DEF DashboardInv
<1>3. HistoryInv'
  BY StepsOfParts, HistoryStep, HistoryStutter DEF DashboardInv
<1>4. InTime(driven)'
  <2>1. CASE EcoEventsNext
    BY <2>1, DriveOnKept DEF DashboardInv
  <2>2. CASE driven' = driven
    BY <2>2 DEF DashboardInv
  <2> QED
    BY <2>1, <2>2, StepsOfParts
<1>5. EcoInv'
  BY StepsOfParts, EcoStep, EcoStutter DEF DashboardInv
<1>6. SensorInv'
  BY StepsOfParts, SensorStep, SensorStutter DEF DashboardInv
<1>7. LocationInv'
  BY StepsOfParts, LocationStep, LocationStutter DEF DashboardInv
<1>8. RouteInv'
  BY StepsOfParts, RouteStep, RouteStutter DEF DashboardInv
<1>9. EditorInv'
  BY StepsOfParts, EditorStep, EditorStutter DEF DashboardInv
<1>10. GeofenceInv'
  BY StepsOfParts, GeofenceStep, GeofenceStutter DEF DashboardInv
<1>11. page' \in Pages
  BY StepsOfParts
<1> QED
  BY <1>1, <1>2, <1>3, <1>4, <1>5, <1>6, <1>7, <1>8, <1>9, <1>10, <1>11 DEF DashboardInv

\* DashboardInv holds in every state the dashboard reaches.
LEMMA DashboardAlways == DashboardSpec => [](DashboardInv /\ page \in Pages)
<1>1. DashboardInit => DashboardInv /\ page \in Pages
  BY DashboardInitially
<1>2. DashboardInv /\ page \in Pages /\ [DashboardNext]_DashboardVars => (DashboardInv /\ page \in Pages)'
  BY DashboardStep
<1> QED
  BY <1>1, <1>2, PTL DEF DashboardSpec

\* DashboardTypeOK: whatever the user does on a page of the dashboard, and whenever answers,
\* messages and timers come, its state keeps its type (dashboard-*.js).
THEOREM DashboardTypeCorrect == DashboardSpec => []DashboardTypeOK
<1>1. DashboardInv => DashboardTypeOK
  <2> SUFFICES ASSUME DashboardInv PROVE DashboardTypeOK
    OBVIOUS
  <2>1. MapTypeOK /\ AlertPanelTypeOK /\ HistoryPlaybackTypeOK /\ TripEcoTypeOK /\ SensorHistoryTypeOK
    BY MapInvGives, AlertPanelInvGives, HistoryInvGives DEF DashboardInv, EcoInv, SensorInv
  <2>2. UserLocationTypeOK /\ RoutePanelTypeOK /\ RouteEditorTypeOK /\ GeofenceEditorTypeOK
    BY LocationInvGives, RouteInvGives, EditorInvGives, GeofenceInvGives DEF DashboardInv
  <2> QED
    BY <2>1, <2>2 DEF DashboardTypeOK
<1> QED
  BY <1>1, DashboardAlways, PTL

\* MapSound: for any number of vehicles, loads and late answers the map draws listed vehicles
\* only, shows controls for a history only, and trails repeat nothing (dashboard-map.js).
THEOREM MapIsSound == DashboardSpec => []MapSound
<1>1. DashboardInv => MapSound
  BY MapInvGives DEF DashboardInv, MapSound
<1> QED
  BY <1>1, DashboardAlways, PTL

\* AlertPanelSound: for any number of alerts list, badge, toasts and paged history agree
\* whatever arrives, is dismissed elsewhere or is loaded late (dashboard-alerts.js, config.js).
THEOREM AlertsAreSound == DashboardSpec => []AlertPanelSound
<1>1. DashboardInv => AlertPanelSound
  BY AlertPanelInvGives DEF DashboardInv, AlertPanelSound
<1> QED
  BY <1>1, DashboardAlways, PTL

\* PlaybackSound: for any tracks, sizes of a batch and readings of a sensor the history is one
\* unbroken track with the newest reading at the cursor and nothing left after leaving, and
\* the events of any points are neither lost nor doubled (dashboard-history.js,
\* dashboard-sensor-history.js).
THEOREM PlaybackIsSound == DashboardSpec => []PlaybackSound
<1>1. DashboardInv => PlaybackSound
  <2> SUFFICES ASSUME DashboardInv PROVE PlaybackSound
    OBVIOUS
  <2>1. TrackIsUnbroken /\ LatestReading /\ NothingAfterExit
    BY HistoryInvGives DEF DashboardInv
  <2>2. EcoEventsSound
    BY EventsAreSound DEF DashboardInv
  <2>3. TripEcoSound /\ SensorHistorySound
    BY DEF DashboardInv, EcoInv, SensorInv
  <2> QED
    BY <2>1, <2>2, <2>3 DEF PlaybackSound
<1> QED
  BY <1>1, DashboardAlways, PTL

\* DrawingSound: for any vehicles, routes, stops and geofences the own position is drawn only
\* while it is watched, routes hide in the history, a line fits the stops, and a window has
\* the shape it is to save (dashboard-map.js, dashboard-routes.js, dashboard-geofences.js).
THEOREM DrawingIsSound == DashboardSpec => []DrawingSound
<1>1. DashboardInv => DrawingSound
  <2> SUFFICES ASSUME DashboardInv PROVE DrawingSound
    OBVIOUS
  <2>1. OffDrawsNothing /\ OneWatch
    BY LocationInvGives DEF DashboardInv
  <2>2. HistoryHidesRoutes /\ OneRouteShown /\ PagerInRange
    BY RouteInvGives DEF DashboardInv
  <2>3. PreviewFitsStops /\ GeofenceEditorSound
    BY EditorInvGives, GeofenceInvGives DEF DashboardInv
  <2> QED
    BY <2>1, <2>2, <2>3 DEF DrawingSound
<1> QED
  BY <1>1, DashboardAlways, PTL

\* DashboardSteps: however late its answer is, no load but the newest enters the history,
\* leaving shows the newest positions, colours stay, the playback leaves its data only by an
\* old clip, and who can only view a route changes no stop (dashboard-history.js,
\* dashboard-routes.js).
THEOREM StepsAreSound == DashboardSpec => DashboardSteps
<1> DEFINE Good == DashboardInv /\ page \in Pages
<1>1. Good /\ [DashboardNext]_DashboardVars =>
        [history' \notin {history, NoVehicle} => \E l \in loads : l.id = live /\ l.vehicle = history']_mapVars
  <2> SUFFICES ASSUME Good, [DashboardNext]_DashboardVars, ~UNCHANGED mapVars
               PROVE  history' \notin {history, NoVehicle} => \E l \in loads : l.id = live /\ l.vehicle = history'
    OBVIOUS
  <2>1. MapNext
    BY StepsOfParts
  <2> QED
    BY <2>1, MapStep DEF DashboardInv
<1>2. Good /\ [DashboardNext]_DashboardVars =>
        [history # NoVehicle /\ history' = NoVehicle =>
           \A d \in DOMAIN devices' : devices'[d].fix # 0 =>
               /\ view'[d].marker
               /\ devices'[d].fix = IF view'[d].frame # 0 THEN view'[d].frame ELSE view'[d].goal]_mapVars
  <2> SUFFICES ASSUME Good, [DashboardNext]_DashboardVars, ~UNCHANGED mapVars, history # NoVehicle, history' = NoVehicle
               PROVE  \A d \in DOMAIN devices' : devices'[d].fix # 0 =>
                         /\ view'[d].marker
                         /\ devices'[d].fix = IF view'[d].frame # 0 THEN view'[d].frame ELSE view'[d].goal
    OBVIOUS
  <2>1. MapNext
    BY StepsOfParts
  <2>2. ExitHistory /\ DrawingOK
    BY <2>1, MapStep DEF DashboardInv, MapInv
  <2> QED
    BY <2>2, ExitDraws
<1>3. Good /\ [DashboardNext]_DashboardVars =>
        [playOpen /\ playOpen' /\ track' = track =>
           \A t \in DOMAIN colours : t \in DOMAIN colours' /\ colours'[t] = colours[t]]_playbackVars
  BY StepsOfParts, HistoryStep DEF DashboardInv, ColoursKept
<1>4. Good /\ [DashboardNext]_DashboardVars =>
        [(shown # <<>> => playIndex \in DOMAIN shown) /\ shown' # <<>> /\ playIndex' \notin DOMAIN shown' => ~clipFresh]_playbackVars
  BY StepsOfParts, HistoryStep DEF DashboardInv, InData
<1>5. Good /\ [DashboardNext]_DashboardVars =>
        [editorOpen /\ editorReadonly /\ editorOpen' => editorRows' = editorRows]_routeEditorVars
  BY StepsOfParts, ReadonlyStep DEF DashboardInv
<1>6. DashboardSpec => []Good
  BY DashboardAlways
<1> HIDE DEF Good
<1> QED
  BY <1>1, <1>2, <1>3, <1>4, <1>5, <1>6, PTL
  DEF DashboardSpec, DashboardSteps, OnlyTheLatestLoadEnters, LeavingShowsTheNewest, ColoursStay,
      OnlyOldClipsLeaveTheData, ViewOnlyKeepsStops
=============================================================================
