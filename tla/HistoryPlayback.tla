--------------------------- MODULE HistoryPlayback ---------------------------
(***************************************************************************)
(* What the dashboard does with the positions of a history session: the    *)
(* lines of the track and their colours, the readings of a sensor at a     *)
(* point, the batches, the playback, and the clips and eco events whose    *)
(* answers nothing aborts.  Indices count from 1, those of the code from 0.*)
(***************************************************************************)
EXTENDS Integers, Sequences, FiniteSets, SequencesExt

CONSTANTS
    Tracks,     \* what the server may hold: sequences of [trip, sensed]; trip 0 is none
    BatchSize,  \* HISTORY_BATCH_SIZE
    Palette,    \* length of tripColors
    MaxOffset,  \* bound: offset a batch is asked for
    NoLoad      \* no loadHistory awaits

ASSUME HistoryPlaybackAssumption ==
    /\ \A track \in Tracks : track \in Seq([trip : Nat, sensed : BOOLEAN]) /\ track # <<>>
    /\ {BatchSize, Palette} \subseteq Nat \ {0} /\ MaxOffset \in Nat
    /\ NoLoad \notin [points : Tracks, same : BOOLEAN, reuse : BOOLEAN, stage : {"positions", "trips"}]

VARIABLES
    track,       \* the positions of the vehicle and range of the session
    playOpen,    \* historyDeviceId is set
    batchOffset, hasNext,
    shown,       \* historyData
    playIndex,   \* historyIndex
    playing, posMarker,
    timeline,    \* _historyAttrTimeline of one sensor
    tripList,    \* historyTrips
    colours,     \* tripColorMap
    lines,       \* polylines.history, each line the indices it joins
    batchLoad,   \* the loadHistory that awaits
    clipAt, clipFresh,                     \* clip marker, and whether it was put for shown
    ecoEvents, ecoLayer, ecoOnMap, showEco,
    lateAnswers  \* requests for clips and eco events under way

playbackVars == <<track, playOpen, batchOffset, hasNext, shown, playIndex, playing, posMarker, timeline,
                  tripList, colours, lines, batchLoad, clipAt, clipFresh,
                  ecoEvents, ecoLayer, ecoOnMap, showEco, lateAnswers>>
dataVars == <<track, playOpen, batchOffset, hasNext, shown, timeline>>
colourVars == <<tripList, colours, lines>>
extraVars == <<clipAt, clipFresh, ecoEvents, ecoLayer, ecoOnMap, showEco, lateAnswers>>

-----------------------------------------------------------------------------
\* _buildHistoryLayers: a run of points of one trip is a line, and a bridge leads from its
\* last point to the first of the next run.
NoLayers == [trip |-> -1, run |-> <<>>, out |-> <<>>]
Flushed(acc) == IF Len(acc.run) < 2 THEN acc.out ELSE Append(acc.out, acc.run)
BridgedOnlyAfterLines(acc, points, i) ==
    IF points[i].trip = acc.trip THEN [acc EXCEPT !.run = Append(@, i)]
    ELSE [trip |-> points[i].trip, run |-> <<i>>,
          out |-> IF Len(acc.run) < 2 THEN acc.out ELSE Append(Flushed(acc), <<Last(acc.run), i>>)]
PointDrawn(acc, points, i) ==
    IF points[i].trip = acc.trip THEN [acc EXCEPT !.run = Append(@, i)]
    ELSE [trip |-> points[i].trip, run |-> <<i>>,
          out |-> IF acc.run = <<>> THEN acc.out ELSE Append(Flushed(acc), <<Last(acc.run), i>>)]
LayersOf(points) ==
    LET drawn[i \in 0..Len(points)] == IF i = 0 THEN NoLayers ELSE PointDrawn(drawn[i - 1], points, i)
    IN Flushed(drawn[Len(points)])

\* _buildHistoryAttrIndex: the points that carry the sensor.
TimelineOf(points) ==
    LET found[i \in 0..Len(points)] ==
          IF i = 0 THEN <<>> ELSE IF points[i].sensed THEN Append(found[i - 1], i) ELSE found[i - 1]
    IN found[Len(points)]

\* _resolveHistoryAttrAt: the binary search for the last point of the timeline that is not
\* after the current one; 0 when there is none.  Each round leaves less to search, so the
\* loop has ended after as many rounds as the timeline has points.
Narrowed(search, at) ==
    LET mid == (search.low + search.high) \div 2 IN
    IF search.low > search.high THEN search
    ELSE IF timeline[mid] <= at THEN [low |-> mid + 1, high |-> search.high, best |-> timeline[mid]]
    ELSE [low |-> search.low, high |-> mid - 1, best |-> search.best]
ResolvedAt(at) ==
    LET round[k \in 0..Len(timeline)] ==
          IF k = 0 THEN [low |-> 1, high |-> Len(timeline), best |-> 0] ELSE Narrowed(round[k - 1], at)
    IN round[Len(timeline)].best

\* The trips of the range as the server lists them, the newest first.
TripsOf(points) ==
    LET trips == {points[i].trip : i \in DOMAIN points} \ {0}
    IN CHOOSE order \in [1..Cardinality(trips) -> trips] : \A i, j \in DOMAIN order : i < j => order[i] > order[j]

\* loadTripsForHistory colours the trips it lists by their age, and keeps colours it has.
ListColours(trips) ==
    [t \in DOMAIN colours \cup ToSet(trips) |->
       IF t \in DOMAIN colours THEN colours[t]
       ELSE (Len(trips) - CHOOSE i \in DOMAIN trips : trips[i] = t) % Palette]

\* A line of a trip that has no colour yet takes one by the trip's number.
LineColours(known, points) ==
    LET drawn == {points[l[1]].trip : l \in {k \in ToSet(LayersOf(points)) : points[k[1]].trip = points[k[2]].trip}}
    IN [t \in DOMAIN known \cup (drawn \ {0}) |-> IF t \in DOMAIN known THEN known[t] ELSE t % Palette]

-----------------------------------------------------------------------------
HistoryPlaybackTypeOK ==
    /\ track \in Tracks \cup {<<>>} /\ {playOpen, hasNext, playing, posMarker} \subseteq BOOLEAN
    /\ batchOffset \in Nat /\ Len(shown) <= BatchSize
    /\ playIndex \in 1..BatchSize
    /\ ToSet(timeline) \subseteq 1..BatchSize
    /\ \A t \in DOMAIN colours : colours[t] \in 0..(Palette - 1)
    /\ clipAt \in 0..BatchSize
    /\ {clipFresh, ecoEvents, ecoLayer, ecoOnMap, showEco} \subseteq BOOLEAN
    /\ lateAnswers \subseteq {"clips", "eco"}

HistoryPlaybackInit ==
    /\ track = <<>> /\ playOpen = FALSE /\ batchOffset = 0 /\ hasNext = FALSE
    /\ shown = <<>> /\ playIndex = 1 /\ playing = FALSE /\ posMarker = FALSE
    /\ timeline = <<>> /\ tripList = <<>> /\ colours = <<>> /\ lines = <<>>
    /\ batchLoad = NoLoad
    /\ clipAt = 0 /\ clipFresh = TRUE
    /\ ecoEvents = FALSE /\ ecoLayer = FALSE /\ ecoOnMap = FALSE /\ showEco = FALSE
    /\ lateAnswers = {}

\* loadHistory up to its first await: same tells a load for the vehicle of the session,
\* reuse one that may take the trips it has.
BeginLoad(points, offset, same, reuse) ==
    /\ batchLoad = NoLoad
    /\ batchLoad' = [points |-> points, same |-> same, reuse |-> reuse, stage |-> "positions"]
    /\ batchOffset' = offset
    /\ lines' = <<>> /\ posMarker' = FALSE /\ playing' = FALSE
    /\ UNCHANGED <<track, playOpen, hasNext, shown, playIndex, timeline, tripList, colours, extraVars>>

OpenSession(points) ==
    LET same == playOpen /\ points = track IN BeginLoad(points, 0, same, same /\ batchOffset > 0)
LoadBatch(direction) ==
    /\ playOpen /\ batchOffset + direction * BatchSize \in 0..MaxOffset
    /\ direction = 1 => hasNext
    /\ BeginLoad(track, batchOffset + direction * BatchSize, TRUE, TRUE)

PageFrom(points, offset) ==
    SubSeq(points, offset + 1, IF offset + BatchSize < Len(points) THEN offset + BatchSize ELSE Len(points))

\* The positions arrive: the trips are asked for, unless a batch reuses those it has.
PositionsShown ==
    /\ batchLoad # NoLoad /\ batchLoad.stage = "positions"
    /\ LET page == PageFrom(batchLoad.points, batchOffset)
           reused == batchLoad.reuse /\ tripList # <<>>
           kept == IF batchLoad.same THEN colours ELSE <<>>
       IN /\ page # <<>>
          /\ shown' = page /\ playIndex' = 1 /\ timeline' = TimelineOf(page)
          /\ hasNext' = (batchOffset + BatchSize < Len(batchLoad.points))
          /\ track' = batchLoad.points /\ playOpen' = TRUE /\ clipFresh' = (clipAt = 0)
          /\ IF reused
             THEN /\ batchLoad' = NoLoad /\ colours' = LineColours(kept, page) /\ lines' = LayersOf(page)
                  /\ posMarker' = TRUE /\ lateAnswers' = {"clips", "eco"}
             ELSE /\ batchLoad' = [batchLoad EXCEPT !.stage = "trips"] /\ colours' = kept
                  /\ UNCHANGED <<lines, posMarker, lateAnswers>>
    /\ UNCHANGED <<batchOffset, playing, tripList, clipAt, ecoEvents, ecoLayer, ecoOnMap, showEco>>

\* The trips arrive, or fail and the list is empty; the track is drawn in both cases.
TripsListed(ok) ==
    /\ batchLoad # NoLoad /\ batchLoad.stage = "trips"
    /\ tripList' = IF ok THEN TripsOf(batchLoad.points) ELSE <<>>
    /\ colours' = LineColours(IF ok THEN ListColours(tripList') ELSE colours, shown)
    /\ lines' = LayersOf(shown) /\ batchLoad' = NoLoad
    /\ posMarker' = TRUE /\ lateAnswers' = {"clips", "eco"}
    /\ UNCHANGED <<dataVars, playIndex, playing, clipAt, clipFresh, ecoEvents, ecoLayer, ecoOnMap, showEco>>

\* Nothing in the range: the data is gone, a session that was open stays open.
NothingFound ==
    /\ batchLoad # NoLoad /\ batchLoad.stage = "positions"
    /\ batchLoad' = NoLoad /\ shown' = <<>> /\ playIndex' = 1 /\ hasNext' = FALSE
    /\ UNCHANGED <<track, playOpen, batchOffset, timeline, colourVars, playing, posMarker, extraVars>>

\* An error, or a stop: what was shown stays, the offset is that of the failed load.
LoadGivenUp ==
    /\ batchLoad # NoLoad /\ batchLoad.stage = "positions"
    /\ batchLoad' = NoLoad
    /\ UNCHANGED <<dataVars, colourVars, playIndex, playing, posMarker, extraVars>>

\* toggleHistoryLineMode, and the zoom of animated lines: the lines are built again.
RedrawLines ==
    /\ shown # <<>>
    /\ colours' = LineColours(colours, shown) /\ lines' = LayersOf(shown)
    /\ UNCHANGED <<dataVars, tripList, playIndex, playing, posMarker, batchLoad, extraVars>>

-----------------------------------------------------------------------------
\* Playback.

TogglePlayback ==
    /\ shown # <<>>
    /\ playing' = ~playing
    /\ posMarker' = (posMarker \/ playing')
    /\ UNCHANGED <<dataVars, colourVars, playIndex, batchLoad, extraVars>>

\* The interval of startPlayback.
Tick ==
    /\ playing
    /\ IF playIndex >= Len(shown) THEN playing' = FALSE /\ UNCHANGED <<playIndex, posMarker>>
       ELSE playIndex' = playIndex + 1 /\ posMarker' = TRUE /\ UNCHANGED playing
    /\ UNCHANGED <<dataVars, colourVars, batchLoad, extraVars>>

JumpTo(index) ==
    /\ playIndex' = index /\ playing' = FALSE
    /\ posMarker' = (posMarker \/ index \in DOMAIN shown)
    /\ UNCHANGED <<dataVars, colourVars, batchLoad, extraVars>>

\* seekHistory and seekToTrip stay within the data; stepHistory clamps, also what is outside.
Seek == \E index \in DOMAIN shown : JumpTo(index)
Step(delta) ==
    LET low == IF Len(shown) < playIndex + delta THEN Len(shown) ELSE playIndex + delta
    IN shown # <<>> /\ JumpTo(IF low < 1 THEN 1 ELSE low)

\* A clip marker seeks to the index it was put for.
ClickClip == clipAt # 0 /\ JumpTo(clipAt)

-----------------------------------------------------------------------------
\* Answers that nothing aborts.

ClipsArrive(ok) ==
    /\ "clips" \in lateAnswers /\ lateAnswers' = lateAnswers \ {"clips"}
    /\ IF ~ok THEN UNCHANGED <<clipAt, clipFresh>>
       ELSE /\ clipAt' \in (IF Len(shown) < 2 THEN {0} ELSE {0} \cup DOMAIN shown)
            /\ clipFresh' = TRUE
    /\ UNCHANGED <<dataVars, colourVars, playIndex, playing, posMarker, batchLoad,
                   ecoEvents, ecoLayer, ecoOnMap, showEco>>

\* Drawn once: a layer that is there stays, whose events it holds does not matter.
EcoArrives(found) ==
    /\ "eco" \in lateAnswers /\ lateAnswers' = lateAnswers \ {"eco"}
    /\ ecoEvents' = found
    /\ ecoLayer' = (ecoLayer \/ found)
    /\ ecoOnMap' = IF ecoLayer THEN ecoOnMap ELSE found /\ showEco
    /\ UNCHANGED <<dataVars, colourVars, playIndex, playing, posMarker, batchLoad, clipAt, clipFresh, showEco>>

ToggleEco ==
    /\ playOpen /\ ecoEvents
    /\ showEco' = ~showEco
    /\ ecoOnMap' = (ecoLayer /\ showEco')
    /\ UNCHANGED <<dataVars, colourVars, playIndex, playing, posMarker, batchLoad,
                   clipAt, clipFresh, ecoEvents, ecoLayer, lateAnswers>>

\* exitHistoryMode: everything of the session goes; the requests for extras go on.
ExitPlayback ==
    /\ playOpen
    /\ playOpen' = FALSE /\ shown' = <<>> /\ playIndex' = 1 /\ timeline' = <<>>
    /\ colours' = <<>> /\ lines' = <<>> /\ tripList' = <<>>
    /\ batchOffset' = 0 /\ hasNext' = FALSE /\ batchLoad' = NoLoad
    /\ playing' = FALSE /\ posMarker' = FALSE
    /\ clipAt' = 0 /\ clipFresh' = TRUE
    /\ ecoEvents' = FALSE /\ ecoLayer' = FALSE /\ ecoOnMap' = FALSE /\ showEco' = FALSE
    /\ UNCHANGED <<track, lateAnswers>>

HistoryPlaybackNext ==
    \/ \E points \in Tracks : OpenSession(points)
    \/ \E direction \in {-1, 1} : LoadBatch(direction) \/ Step(direction)
    \/ PositionsShown \/ NothingFound \/ LoadGivenUp \/ RedrawLines
    \/ TogglePlayback \/ Tick \/ Seek \/ ClickClip
    \/ \E ok \in BOOLEAN : TripsListed(ok) \/ ClipsArrive(ok) \/ EcoArrives(ok)
    \/ ToggleEco \/ ExitPlayback

HistoryPlaybackSpec == HistoryPlaybackInit /\ [][HistoryPlaybackNext]_playbackVars

-----------------------------------------------------------------------------
\* Once a load is over the track on the map is unbroken: each point is joined to the next
\* by one line, of its trip or a bridge, also around a trip of a single point.
TrackIsUnbroken ==
    batchLoad = NoLoad /\ lines # <<>> =>
        \A i \in 1..(Len(shown) - 1) :
            Cardinality({k \in DOMAIN lines : \E j \in 1..(Len(lines[k]) - 1) :
                            lines[k][j] = i /\ lines[k][j + 1] = i + 1}) = 1

\* At every point the pinned sensor shows its latest reading at or before that point, from
\* an index built when the batch came.
LatestReading ==
    \A at \in DOMAIN shown :
        LET seen == {i \in 1..at : shown[i].sensed}
        IN ResolvedAt(at) = IF seen = {} THEN 0 ELSE CHOOSE i \in seen : \A j \in seen : j <= i

\* A trip keeps its colour through the batches of a session, also when its trips could only
\* be listed after the first batch was drawn.
ColoursStay ==
    [][playOpen /\ playOpen' /\ track' = track =>
         \A t \in DOMAIN colours : t \in DOMAIN colours' /\ colours'[t] = colours[t]]_playbackVars

\* The playback never leaves its data, with one exception: a clip marker put for another
\* batch, which seeks to an index the batch on screen may not have.
OnlyOldClipsLeaveTheData ==
    [][(shown # <<>> => playIndex \in DOMAIN shown) /\ shown' # <<>> /\ playIndex' \notin DOMAIN shown' =>
         ~clipFresh]_playbackVars

\* Outside a session nothing of one is on the map or playing, although the answers for its
\* eco events may come later than its end.
NothingAfterExit == ~playOpen => ~playing /\ ~posMarker /\ lines = <<>> /\ clipAt = 0 /\ ~ecoOnMap
=============================================================================
