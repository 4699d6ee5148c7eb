--------------------------- MODULE GeofenceEditor ---------------------------
(***************************************************************************)
(* Geofences on the dashboard's map: drawing a new one, editing the shape  *)
(* of one in place, the window that names and saves either, and reloads    *)
(* that draw the map again while any of this goes on.  A shape is an       *)
(* element of a small set; names, colours and owners are left out but for  *)
(* whose geofences are shown.                                              *)
(***************************************************************************)
EXTENDS Integers, FiniteSets, Functions

CONSTANTS
    Geofence, Mine,     \* geofences, and those of this user
    IsLine,             \* the geofences that are lines, the others are areas
    Shape, NoShape,
    NoGeofence, New,    \* no geofence; one to be created
    MaxReloads          \* bound: lists on their way

ASSUME GeofenceAssumption ==
    /\ Mine \subseteq Geofence /\ IsLine \subseteq Geofence /\ NoShape \notin Shape
    /\ NoGeofence \notin Geofence /\ New \notin Geofence /\ New # NoGeofence /\ MaxReloads \in Nat

VARIABLES
    gfStored,       \* the server: the shapes of the geofences there are
    geofences,      \* _geofences
    showAllUsers,   \* _showAllUsersGeofences
    layers,         \* the shapes drawn on the map
    drawing,        \* the kind of shape being drawn, or "none"
    navigating,     \* a navigation path is asked for
    editing,        \* _editingGeofenceId with the shape of _editingLayer, still on the map or not
    pending,        \* _pendingCoords: whose, of which type, which shape; quiet tells of history mode then
    gfModal,        \* the window: for which geofence, of which type; its owners may still load
    gfSaving,       \* the save, or the delete, under way
    gfReloads,      \* lists on their way
    historyShown    \* _isHistoryActive()

gfEditorVars == <<gfStored, geofences, showAllUsers, layers, drawing, navigating, editing, pending,
                  gfModal, gfSaving, gfReloads, historyShown>>
gfMap == <<geofences, showAllUsers, layers>>

NotEditing == [id |-> NoGeofence, shape |-> NoShape, onMap |-> FALSE]
NoPending == [of |-> NoGeofence, type |-> "none", shape |-> NoShape, quiet |-> FALSE]
ModalClosed == [of |-> NoGeofence, type |-> "none", open |-> FALSE]
NotSaving == [what |-> "none"]
TypeOf(id) == IF id \in IsLine THEN "polyline" ELSE "polygon"
IsShapes(f) == DOMAIN f \subseteq Geofence /\ Range(f) \subseteq Shape

GeofenceEditorTypeOK ==
    /\ IsShapes(gfStored) /\ IsShapes(geofences) /\ IsShapes(layers)
    /\ drawing \in {"none", "polygon", "polyline", "navigation"} /\ navigating \in BOOLEAN
    /\ editing.id \in Geofence \cup {NoGeofence} /\ pending.of \in Geofence \cup {NoGeofence, New}
    /\ gfModal.of \in Geofence \cup {NoGeofence, New} /\ Cardinality(gfReloads) <= MaxReloads

GeofenceEditorInit ==
    /\ \E s \in Shape : gfStored = [g \in Geofence |-> s] /\ geofences = gfStored
    /\ showAllUsers = FALSE /\ layers = [g \in Mine |-> geofences[g]] /\ drawing = "none" /\ navigating = FALSE
    /\ editing = NotEditing /\ pending = NoPending /\ gfModal = ModalClosed /\ gfSaving = NotSaving
    /\ gfReloads = {} /\ historyShown = FALSE

-----------------------------------------------------------------------------
(* reloadGeofences and _renderAll. *)
VisibleOf(cache, all) == IF all THEN cache ELSE Restrict(cache, DOMAIN cache \cap Mine)
\* All layers are drawn anew: one that was being edited is no longer on the map.
RenderAll(cache, all) ==
    /\ geofences' = cache /\ showAllUsers' = all /\ layers' = VisibleOf(cache, all)
    /\ editing' = [editing EXCEPT !.onMap = FALSE]
Reloading(list) == gfReloads' = gfReloads \cup {list} /\ Cardinality(gfReloads') <= MaxReloads

ReloadArrives(list) ==
    /\ gfReloads' = gfReloads \ {list} /\ \E cache \in {list, <<>>} : RenderAll(cache, showAllUsers)
    /\ UNCHANGED <<gfStored, drawing, navigating, pending, gfModal, gfSaving, historyShown>>
ToggleAllUsersGeofences ==
    /\ ~gfModal.open /\ RenderAll(geofences, ~showAllUsers)
    /\ UNCHANGED <<gfStored, drawing, navigating, pending, gfModal, gfSaving, gfReloads, historyShown>>
ToggleHistory ==
    /\ ~gfModal.open /\ historyShown' = ~historyShown
    /\ UNCHANGED <<gfStored, gfMap, drawing, navigating, editing, pending, gfModal, gfSaving, gfReloads>>

-----------------------------------------------------------------------------
(* Drawing. *)
\* _cancelEdit leaves the changed shape on the map; its callers reload.
EditCancelled == editing' = NotEditing
EditLeft == IF editing = NotEditing THEN UNCHANGED <<editing, gfReloads>> ELSE EditCancelled /\ Reloading(gfStored)
\* startDrawGeofence with _cancelDraw, when the user agrees to discard changes.
StartDrawGeofence(type) ==
    /\ ~historyShown /\ ~gfModal.open /\ drawing' = type /\ pending' = NoPending /\ EditLeft
    /\ UNCHANGED <<gfStored, gfMap, navigating, gfModal, gfSaving, historyShown>>
CancelDraw ==
    /\ drawing # "none" /\ drawing' = "none" /\ pending' = NoPending
    /\ UNCHANGED <<gfStored, gfMap, navigating, editing, gfModal, gfSaving, gfReloads, historyShown>>

\* _openGeofenceModal names the geofence at once and shows the window when the owners are
\* known; in history mode it does nothing.
ModalFor(of, type) == IF historyShown THEN UNCHANGED gfModal
                      ELSE gfModal' = [of |-> of, type |-> type, open |-> gfModal.open]
OwnersKnown ==
    /\ gfModal.of # NoGeofence /\ ~gfModal.open /\ gfModal' = [gfModal EXCEPT !.open = TRUE]
    /\ UNCHANGED <<gfStored, gfMap, drawing, navigating, editing, pending, gfSaving, gfReloads, historyShown>>

\* _onDrawCreated; a navigation path is asked for first, whatever happens meanwhile.
DrawCreated(shape) ==
    /\ drawing \in {"polygon", "polyline"} /\ drawing' = "none"
    /\ pending' = [of |-> New, type |-> drawing, shape |-> shape, quiet |-> historyShown] /\ ModalFor(New, drawing)
    /\ UNCHANGED <<gfStored, gfMap, navigating, editing, gfSaving, gfReloads, historyShown>>
NavigationDrawn ==
    /\ drawing = "navigation" /\ drawing' = "none" /\ navigating' = TRUE
    /\ UNCHANGED <<gfStored, gfMap, editing, pending, gfModal, gfSaving, gfReloads, historyShown>>
PreviewOfPath(shape) ==
    /\ navigating /\ navigating' = FALSE
    /\ pending' = [of |-> New, type |-> "polyline", shape |-> shape, quiet |-> historyShown] /\ ModalFor(New, "polyline")
    /\ UNCHANGED <<gfStored, gfMap, drawing, editing, gfSaving, gfReloads, historyShown>>
PathFails ==
    /\ navigating /\ navigating' = FALSE /\ pending' = NoPending
    /\ UNCHANGED <<gfStored, gfMap, drawing, editing, gfModal, gfSaving, gfReloads, historyShown>>

-----------------------------------------------------------------------------
(* Editing in place. *)
EnterEditMode(id) ==
    /\ ~historyShown /\ ~gfModal.open /\ drawing = "none" /\ id \in DOMAIN layers /\ id # editing.id
    /\ editing' = [id |-> id, shape |-> layers[id], onMap |-> TRUE]
    /\ IF editing = NotEditing THEN UNCHANGED gfReloads ELSE Reloading(gfStored)
    /\ UNCHANGED <<gfStored, gfMap, drawing, navigating, pending, gfModal, gfSaving, historyShown>>
DragVertex(shape) ==
    /\ editing # NotEditing /\ editing.onMap /\ ~gfModal.open /\ editing' = [editing EXCEPT !.shape = shape]
    /\ layers' = [layers EXCEPT ![editing.id] = shape]
    /\ UNCHANGED <<gfStored, geofences, showAllUsers, drawing, navigating, pending, gfModal, gfSaving, gfReloads,
                   historyShown>>
\* cancelGeofenceEdit by the toolbar, a click on the map or Escape.
CancelGeofenceEdit ==
    /\ editing # NotEditing /\ EditCancelled /\ drawing' = "none" /\ pending' = NoPending /\ Reloading(gfStored)
    /\ UNCHANGED <<gfStored, gfMap, navigating, gfModal, gfSaving, historyShown>>
\* saveEditedGeofence: the type is that of the list, which may no longer have the geofence.
ListedType(id) == IF id \in DOMAIN geofences THEN TypeOf(id) ELSE "polygon"
ModalWithShape(id) ==
    /\ pending' = [of |-> id, type |-> ListedType(id), shape |-> editing.shape, quiet |-> historyShown] /\ ModalFor(id, ListedType(id))
SaveEditedGeofence ==
    /\ editing # NotEditing /\ ~gfModal.open /\ ModalWithShape(editing.id)
    /\ UNCHANGED <<gfStored, gfMap, drawing, navigating, editing, gfSaving, gfReloads, historyShown>>

-----------------------------------------------------------------------------
(* The window and the requests. *)
\* closeGeofenceModal: a new shape is given up, an edit goes on.
ModalGone == IF gfModal.of = New THEN pending' = NoPending /\ Reloading(gfStored) ELSE UNCHANGED <<pending, gfReloads>>
CloseGeofenceModal ==
    /\ gfModal.open /\ gfModal' = ModalClosed /\ ModalGone
    /\ UNCHANGED <<gfStored, gfMap, drawing, navigating, editing, gfSaving, historyShown>>
\* submitGeofenceModal; a window without a shape only closes.
SubmitGeofenceModal ==
    /\ gfModal.open /\ gfSaving = NotSaving /\ pending # NoPending
    /\ gfSaving' = [what |-> "save", of |-> gfModal.of, shape |-> pending.shape]
    /\ UNCHANGED <<gfStored, gfMap, drawing, navigating, editing, pending, gfModal, gfReloads, historyShown>>
DeleteGeofence ==
    /\ editing # NotEditing /\ ~gfModal.open /\ gfSaving = NotSaving
    /\ gfSaving' = [what |-> "delete", of |-> editing.id]
    /\ UNCHANGED <<gfStored, gfMap, drawing, navigating, editing, pending, gfModal, gfReloads, historyShown>>
RequestFails ==
    /\ gfSaving # NotSaving /\ gfSaving' = NotSaving
    /\ UNCHANGED <<gfStored, gfMap, drawing, navigating, editing, pending, gfModal, gfReloads, historyShown>>
\* The answer closes whatever the window and the toolbar are then about.
GeofenceSaved ==
    /\ gfSaving.what = "save"
    /\ \E id \in IF gfSaving.of = New THEN Geofence \ DOMAIN gfStored ELSE {gfSaving.of} \cap DOMAIN gfStored :
          gfStored' = [g \in DOMAIN gfStored \cup {id} |-> IF g = id THEN gfSaving.shape ELSE gfStored[g]]
    /\ gfModal' = ModalClosed /\ EditCancelled /\ pending' = NoPending /\ Reloading(gfStored') /\ gfSaving' = NotSaving
    /\ UNCHANGED <<gfMap, drawing, navigating, historyShown>>
GeofenceDeleted ==
    /\ gfSaving.what = "delete" /\ gfSaving.of \in DOMAIN gfStored
    /\ gfStored' = Restrict(gfStored, DOMAIN gfStored \ {gfSaving.of})
    /\ EditCancelled /\ Reloading(gfStored') /\ gfSaving' = NotSaving
    /\ UNCHANGED <<gfMap, drawing, navigating, pending, gfModal, historyShown>>

GeofenceEditorNext ==
    \/ \E list \in gfReloads : ReloadArrives(list)
    \/ \E type \in {"polygon", "polyline", "navigation"} : StartDrawGeofence(type)
    \/ \E shape \in Shape : DrawCreated(shape) \/ PreviewOfPath(shape) \/ DragVertex(shape)
    \/ \E id \in Geofence : EnterEditMode(id)
    \/ ToggleAllUsersGeofences \/ ToggleHistory \/ CancelDraw \/ NavigationDrawn \/ PathFails \/ OwnersKnown
    \/ CancelGeofenceEdit \/ SaveEditedGeofence \/ CloseGeofenceModal \/ SubmitGeofenceModal
    \/ DeleteGeofence \/ RequestFails \/ GeofenceSaved \/ GeofenceDeleted

-----------------------------------------------------------------------------
\* The window saves the shape it was opened for: the coordinates that wait are those of its
\* geofence and type, or there are none, whatever was drawn, asked for or cancelled meanwhile.
\* Coordinates that came in history mode, when no window opens for them, are the exception.
WindowHasItsShape ==
    gfModal.open /\ pending # NoPending /\ ~pending.quiet => pending.of = gfModal.of /\ pending.type = gfModal.type

\* A shape on the map that is not the stored one of the list is being edited, or a reload that
\* draws the list again is on its way: no abandoned edit stays on the map.
NoEditLeftBehind ==
    gfReloads = {} => \A g \in DOMAIN layers : layers[g] # geofences[g] => editing.id = g

GeofenceEditorSound == WindowHasItsShape /\ NoEditLeftBehind
=============================================================================
