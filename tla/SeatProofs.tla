----------------------------- MODULE SeatProofs -----------------------------
(***************************************************************************)
(* That the keys go to the focus, that the focused surface is alive, that  *)
(* windows get the room between the panels, that the listener of the       *)
(* active pointer constraint is in the right list and that a hidden cursor *)
(* comes back, for any number of windows, surfaces, keyboards, outputs and *)
(* constraints.  The invariant has three parts that share no variable but  *)
(* layer: the focus, the room, the pointer.                                *)
(***************************************************************************)
EXTENDS Seat, FiniteSetTheorems, TLAPS

(***************************************************************************)
(* The focus f is right when the windows and popups of up are mapped and   *)
(* the layer surfaces of there exist.                                      *)
(***************************************************************************)
FocusRight(f, up, there) ==
    /\ f \in FocusType
    /\ f.heard = f.surface
    /\ f.surface # None => f.surface \in up \cup there /\ f.view = None
    /\ f.view \in up \cup {None}
    /\ ~f.deaf => f.seat = Target(f)

Created(l) == {p \in Panels : l[p].state # "none"}

FocusInv ==
    /\ keyboards \subseteq Keyboards
    /\ active_keyboard \in keyboards \cup {None}
    /\ mapped \subseteq Views \cup Menus
    /\ FocusRight(focus, mapped, Created(layer))

RoomInv ==
    /\ outputs \subseteq Outputs
    /\ active_output \in outputs \cup {None}
    /\ layer \in [Panels -> LayerType]
    /\ usable = UsableArea(layer, outputs)

(***************************************************************************)
(* While the lists are intact the listener is in the list of the           *)
(* constraint it was linked to last, and an active constraint is that one. *)
(***************************************************************************)
PointerRight(ptr) ==
    /\ ptr \in PointerType
    /\ ptr.hidden => ptr.active \in Locks
    /\ Cardinality(ptr.linked) <= 1 =>
          /\ ptr.linked = {ptr.last} \ {None}
          /\ ptr.active # None => ptr.active = ptr.last /\ ptr.active \in ptr.alive
    /\ ~ptr.switched => ptr.linked = {ptr.active} \ {None} /\ ptr.last = ptr.active

IInv == FocusInv /\ RoomInv /\ PointerRight(pointer)
-----------------------------------------------------------------------------
(* The focus functions                                                     *)

\* The assumptions on None and on the kinds of surfaces, each for itself.
LEMMA Names ==
    /\ None \notin Views \cup Panels \cup Menus \cup Keyboards \cup Outputs
                   \cup Constraints
    /\ Dangling \notin Outputs \cup {None}
    /\ Views \cap (Panels \cup Menus) = {} /\ Panels \cap Menus = {}
    /\ Interactive \subseteq Panels /\ Locks \subseteq Constraints
  BY SeatAssumption DEF SeatAssumption

\* server_focus_view gives the focus to a window that is mapped, or takes it
\* from a focus f that need not be right any more.
LEMMA ViewFocused ==
    ASSUME NEW f \in FocusType, NEW up, NEW there,
           NEW view \in (Views \cap up) \cup {None},
           f.view # view \/ f.surface # None \/ FocusRight(f, up, there)
    PROVE  FocusRight(server_focus_view(f, view), up, there)
<1> DEFINE dropped == [f EXCEPT !.view = view, !.surface = None, !.heard = None]
           r == server_focus_view(f, view)
<1>1. CASE f.view = view /\ f.surface = None
  BY <1>1 DEF server_focus_view
<1>2. CASE ~(f.view = view /\ f.surface = None)
  <2>1. /\ dropped \in FocusType /\ dropped.view = view
        /\ dropped.surface = None /\ dropped.heard = None
    BY DEF FocusType
  <2> HIDE DEF dropped
  <2>2. CASE view = None
    <3>1. r = [dropped EXCEPT !.seat = None, !.deaf = FALSE]
      BY <1>2, <2>2 DEF server_focus_view, ClearFocus, dropped
    <3> QED
      BY <2>1, <2>2, <3>1 DEF FocusRight, FocusType, Target
  <2>3. CASE view # None /\ active_keyboard = None
    <3>1. r = [dropped EXCEPT !.deaf = TRUE]
      BY <1>2, <2>3 DEF server_focus_view, Enter, dropped
    <3> QED
      BY <2>1, <3>1 DEF FocusRight, FocusType, Target
  <2>4. CASE view # None /\ active_keyboard # None
    <3>1. r = [dropped EXCEPT !.seat = view, !.deaf = FALSE]
      BY <1>2, <2>4 DEF server_focus_view, Enter, dropped
    <3> QED
      BY <2>1, <2>4, <3>1 DEF FocusRight, FocusType, Target
  <2> QED
    BY <2>2, <2>3, <2>4
<1> QED
  BY <1>1, <1>2

\* server_focus_surface, of a surface that exists or of none.
LEMMA SurfaceFocused ==
    ASSUME NEW f \in FocusType, NEW up, NEW there,
           NEW surface \in (Panels \cup Menus) \cup {None},
           surface # None => surface \in up \cup there /\ FocusRight(f, up, there)
    PROVE  FocusRight(server_focus_surface(f, surface), up, there)
<1> DEFINE given == [f EXCEPT !.view = None, !.surface = surface, !.heard = surface]
           r == server_focus_surface(f, surface)
<1>1. CASE surface # None /\ f.surface = surface
  BY <1>1 DEF server_focus_surface
<1>2. CASE ~(surface # None /\ f.surface = surface)
  <2>1. /\ given \in FocusType /\ given.view = None
        /\ given.surface = surface /\ given.heard = surface
    BY DEF FocusType
  <2> HIDE DEF given
  <2>2. CASE surface # None /\ active_keyboard # None
    <3>1. r = [given EXCEPT !.seat = surface, !.deaf = FALSE]
      BY <1>2, <2>2 DEF server_focus_surface, Enter, given
    <3> QED
      BY <2>1, <2>2, <3>1 DEF FocusRight, FocusType, Target
  <2>3. CASE ~(surface # None /\ active_keyboard # None)
    <3>1. r = [given EXCEPT !.seat = None, !.deaf = surface # None]
      <4>1. r = [ClearFocus(given) EXCEPT !.deaf = surface # None]
        BY <1>2, <2>3 DEF server_focus_surface, given
      <4> QED
        BY <2>1, <4>1 DEF ClearFocus, FocusType
    <3> QED
      BY <2>1, <3>1 DEF FocusRight, FocusType, Target
  <2> QED
    BY <2>2, <2>3
<1> QED
  BY <1>1, <1>2

\* The seat forgets a surface that is not the focus.
LEMMA Forgotten ==
    ASSUME NEW f, NEW up, NEW there, FocusRight(f, up, there),
           NEW s, f.deaf \/ Target(f) # s
    PROVE  FocusRight(IF f.seat = s THEN [f EXCEPT !.seat = None] ELSE f, up, there)
<1>1. CASE f.seat = s
  BY <1>1 DEF FocusRight, FocusType, Target
<1>2. CASE f.seat # s
  BY <1>2
<1> QED
  BY <1>1, <1>2

\* More windows and surfaces do not make a focus wrong, and fewer do not
\* either as long as the focus is among them.
LEMMA Elsewhere ==
    ASSUME NEW f, NEW up, NEW there, NEW up2, NEW there2,
           FocusRight(f, up, there),
           f.view \in up2 \cup {None}, f.surface \in up2 \cup there2 \cup {None}
    PROVE  FocusRight(f, up2, there2)
  BY DEF FocusRight

\* What Focusable lets pass is mapped.
LEMMA FocusableMapped ==
    ASSUME NEW v \in Views \cup {None}
    PROVE  Focusable(v) \in (Views \cap mapped) \cup {None}
           /\ Focusable(v) \in {v, None}
  BY DEF Focusable
-----------------------------------------------------------------------------
(* The room of the panels                                                  *)

\* A layer surface that is adopted keeps its state and its type.
LEMMA AdoptedKeeps ==
    ASSUME NEW l \in [Panels -> LayerType], NEW outs \in SUBSET Outputs,
           NEW active \in outs \cup {None}
    PROVE  /\ Adopted(l, outs, active) \in [Panels -> LayerType]
           /\ Created(Adopted(l, outs, active)) = Created(l)
<1> DEFINE adopter == IF active # None THEN active
                      ELSE IF outs # {} THEN CHOOSE o \in outs : TRUE ELSE None
           a == Adopted(l, outs, active)
<1>1. adopter \in Outputs \cup {None}
  <2>1. outs # {} => (CHOOSE o \in outs : TRUE) \in outs
    OBVIOUS
  <2> QED
    BY <2>1
<1>2. a = [p \in Panels |-> IF l[p].state # "none" /\ l[p].output = None
                            THEN [l[p] EXCEPT !.output = adopter] ELSE l[p]]
  BY DEF Adopted
<1> HIDE DEF adopter, a
<1>3. ASSUME NEW p \in Panels
      PROVE  a[p] \in LayerType /\ a[p].state = l[p].state
  <2>1. l[p] \in LayerType
    OBVIOUS
  <2>2. [l[p] EXCEPT !.output = adopter] \in LayerType
    BY <1>1, <2>1 DEF LayerType
  <2> QED
    BY <1>2, <2>1, <2>2 DEF LayerType
<1>4. a \in [Panels -> LayerType]
  BY <1>2, <1>3
<1> QED
  BY <1>3, <1>4 DEF a, Created

\* Whatever was changed before, after server_arrange the room is right.
LEMMA Arranges ==
    ASSUME NEW l \in [Panels -> LayerType], NEW outs \in SUBSET Outputs,
           NEW active \in outs \cup {None}, server_arrange(l, outs, active)
    PROVE  RoomInv' /\ Created(layer') = Created(l)
  BY AdoptedKeeps DEF server_arrange, layer_shell_arrange, RoomInv, UsableArea

\* Nothing of the room is touched.
LEMMA RoomStays == RoomInv /\ UNCHANGED layerVars => RoomInv'
  BY DEF RoomInv, layerVars, UsableArea
-----------------------------------------------------------------------------
(* The steps of the focus                                                  *)

\* A step that leaves room and pointer alone.
LEMMA OnlyFocus ==
    ASSUME IInv, UNCHANGED <<layerVars, pointer>>, FocusInv'
    PROVE  IInv'
<1>1. RoomInv'
  BY RoomStays DEF IInv
<1>2. PointerRight(pointer')
  BY DEF IInv
<1> QED
  BY <1>1, <1>2 DEF IInv, PointerRight, PointerType

\* A step that gives the focus, right for what is then mapped, and arranges.
LEMMA FocusAndRoom ==
    ASSUME IInv, UNCHANGED <<seatVars, pointer>>, RoomInv',
           mapped' \subseteq Views \cup Menus,
           FocusRight(focus', mapped', Created(layer'))
    PROVE  IInv'
<1>1. FocusInv'
  BY DEF IInv, FocusInv, FocusRight, FocusType, Target, Created, seatVars
<1>2. PointerRight(pointer')
  BY DEF IInv
<1> QED
  BY <1>1, <1>2 DEF IInv, PointerRight, PointerType

LEMMA KeyboardKeeps ==
    ASSUME IInv, NEW k \in Keyboards,
           keyboard_create(k) \/ handle_keyboard_destroy(k) \/ handle_key(k)
    PROVE  IInv'
<1>1. UNCHANGED <<layerVars, pointer>>
  BY DEF keyboard_create, handle_keyboard_destroy, handle_key
<1>2. UNCHANGED <<focus, mapped, layer>>
  BY DEF keyboard_create, handle_keyboard_destroy, handle_key, layerVars
<1>3. /\ keyboards' \subseteq Keyboards
      /\ active_keyboard' \in keyboards' \cup {None}
  BY DEF keyboard_create, handle_keyboard_destroy, handle_key, IInv, FocusInv
<1>4. FocusInv'
  BY <1>2, <1>3
     DEF IInv, FocusInv, FocusRight, FocusType, Target, Created
<1> QED
  BY <1>1, <1>4, OnlyFocus

\* The focus that IInv speaks of, for the lemmas about it.
LEMMA FocusBefore ==
    ASSUME IInv
    PROVE  /\ focus \in FocusType
           /\ FocusRight(focus, mapped, Created(layer))
           /\ mapped \subseteq Views \cup Menus
           /\ focus.surface \in Panels \cup Menus \cup {None}
           /\ focus.view \in Views \cup {None}
           /\ Created(layer) \subseteq Panels
  BY DEF IInv, FocusInv, FocusRight, FocusType, Created

LEMMA RoomBefore ==
    ASSUME IInv
    PROVE  /\ outputs \in SUBSET Outputs
           /\ active_output \in outputs \cup {None}
           /\ layer \in [Panels -> LayerType]
  BY DEF IInv, RoomInv

LEMMA FocusViewKeeps ==
    ASSUME IInv, NEW v \in Views, FocusView(v)
    PROVE  IInv'
<1>1. Focusable(v) \in (Views \cap mapped) \cup {None}
  BY FocusableMapped
<1>2. FocusRight(focus', mapped, Created(layer))
  BY <1>1, FocusBefore, ViewFocused DEF FocusView
<1>3. RoomInv'
  BY RoomStays DEF FocusView, IInv
<1> QED
  BY <1>2, <1>3, FocusAndRoom, FocusBefore DEF FocusView, layerVars

LEMMA BackgroundKeeps ==
    ASSUME IInv, PointAtBackground
    PROVE  IInv'
<1> DEFINE f == server_focus_view(focus, None)
<1>1. FocusRight(f, mapped, Created(layer)) /\ f.view = None /\ f.surface = None
  <2>1. FocusRight(f, mapped, Created(layer))
    BY FocusBefore, ViewFocused
  <2>2. f.view = None /\ f.surface = None
    BY FocusBefore DEF server_focus_view, ClearFocus, FocusType
  <2> QED
    BY <2>1, <2>2
<1>2. focus' = [f EXCEPT !.seat = None, !.deaf = FALSE]
  BY DEF PointAtBackground, ClearFocus
<1> HIDE DEF f
<1>3. FocusRight(focus', mapped, Created(layer))
  BY <1>1, <1>2 DEF FocusRight, FocusType, Target
<1>4. RoomInv'
  BY RoomStays DEF PointAtBackground, IInv
<1> QED
  BY <1>3, <1>4, FocusAndRoom, FocusBefore DEF PointAtBackground, layerVars

LEMMA WindowMapKeeps ==
    ASSUME IInv, NEW v \in Views, handle_map(v)
    PROVE  IInv'
<1>1. RoomInv' /\ Created(layer') = Created(layer)
  BY Arranges, RoomBefore DEF handle_map
<1>2. FocusRight(focus, mapped', Created(layer))
  BY FocusBefore, Elsewhere DEF handle_map, FocusRight
<1>3. FocusRight(focus', mapped', Created(layer))
  BY <1>2, FocusBefore, ViewFocused DEF handle_map
<1> QED
  BY <1>1, <1>3, FocusAndRoom, FocusBefore DEF handle_map

LEMMA WindowUnmapKeeps ==
    ASSUME IInv, NEW v \in Views, handle_unmap(v)
    PROVE  IInv'
<1>1. RoomInv' /\ Created(layer') = Created(layer)
  BY Arranges, RoomBefore DEF handle_unmap
<1>2. v # None /\ v \notin Panels \cup Menus
  BY Names
<1>3. FocusRight(focus', mapped', Created(layer))
  <2>1. CASE focus.view = v
    <3>1. PICK next \in ((Views \cap mapped) \ {v}) \cup {None} :
               focus' = server_focus_view(focus, Focusable(next))
      BY <2>1 DEF handle_unmap
    <3>2. /\ Focusable(next) \in (Views \cap mapped') \cup {None}
          /\ Focusable(next) # v
      BY <1>2, <3>1 DEF Focusable, handle_unmap
    <3> QED
      BY <2>1, <3>1, <3>2, FocusBefore, ViewFocused
  <2>2. CASE focus.view # v
    <3>1. focus' = focus /\ mapped' = mapped \ {v}
      BY <2>2 DEF handle_unmap
    <3>2. /\ focus.view \in mapped' \cup {None}
          /\ focus.surface \in mapped' \cup Created(layer) \cup {None}
      BY <1>2, <2>2, <3>1, FocusBefore DEF FocusRight
    <3> QED
      BY <3>1, <3>2, FocusBefore, Elsewhere
  <2> QED
    BY <2>1, <2>2
<1> QED
  BY <1>1, <1>3, FocusAndRoom, FocusBefore DEF handle_unmap

LEMMA WindowDestroyKeeps ==
    ASSUME IInv, NEW v \in Views, handle_destroy(v)
    PROVE  IInv'
<1>1. v # None /\ v \notin Panels \cup Menus /\ v \notin mapped
  BY Names DEF handle_destroy
<1>2. Target(focus) # v
  BY <1>1, FocusBefore DEF FocusRight, Target
<1>3. focus' = IF focus.seat = v THEN [focus EXCEPT !.seat = None] ELSE focus
  BY DEF handle_destroy
<1>4. FocusRight(focus', mapped, Created(layer))
  BY <1>2, <1>3, FocusBefore, Forgotten
<1>5. RoomInv'
  BY RoomStays DEF handle_destroy, IInv
<1> QED
  BY <1>4, <1>5, FocusAndRoom, FocusBefore DEF handle_destroy, layerVars
-----------------------------------------------------------------------------
(* The steps of panels, launchers and menus                                *)

LEMMA NewLayerKeeps ==
    ASSUME IInv, NEW p \in Panels, handle_new_layer_surface(p)
    PROVE  IInv'
<1>1. PICK o \in outputs \cup {None} :
        server_arrange([layer EXCEPT ![p] = [NoLayer EXCEPT !.state = "created",
                              !.output = IF o = None THEN active_output ELSE o]],
                       outputs, active_output)
  BY DEF handle_new_layer_surface
<1> DEFINE where == IF o = None THEN active_output ELSE o
           n == [NoLayer EXCEPT !.state = "created", !.output = where]
           l == [layer EXCEPT ![p] = n]
<1>2. where \in Outputs \cup {None}
  BY RoomBefore
<1> HIDE DEF where
<1>3. n \in LayerType /\ n.state = "created"
  <2>1. NoLayer \in LayerType
    BY DEF NoLayer, LayerType
  <2> QED
    BY <1>2, <2>1 DEF LayerType
<1> HIDE DEF n
<1>4. l \in [Panels -> LayerType] /\ Created(l) = Created(layer) \cup {p}
  BY <1>3, RoomBefore DEF Created
<1>5. server_arrange(l, outputs, active_output)
  BY <1>1 DEF where, n
<1> HIDE DEF l
<1>6. RoomInv' /\ Created(layer') = Created(layer) \cup {p}
  BY <1>4, <1>5, Arranges, RoomBefore
<1>7. UNCHANGED <<seatVars, focus, mapped, pointer>>
  BY DEF handle_new_layer_surface
<1>8. FocusRight(focus', mapped', Created(layer'))
  BY <1>6, <1>7, FocusBefore, Elsewhere DEF FocusRight
<1> QED
  BY <1>6, <1>7, <1>8, FocusAndRoom, FocusBefore

LEMMA LayerMapKeeps ==
    ASSUME IInv, NEW p \in Panels, handle_layer_map(p)
    PROVE  IInv'
<1> DEFINE l == [layer EXCEPT ![p].state = "mapped"]
<1>1. l \in [Panels -> LayerType] /\ Created(l) = Created(layer) /\ p \in Created(layer)
  BY RoomBefore DEF LayerType, Created, handle_layer_map
<1>2. server_arrange(l, outputs, active_output)
  BY DEF handle_layer_map
<1> HIDE DEF l
<1>3. RoomInv' /\ Created(layer') = Created(layer)
  BY <1>1, <1>2, Arranges, RoomBefore
<1>4. FocusRight(focus', mapped, Created(layer))
  BY <1>1, FocusBefore, SurfaceFocused DEF handle_layer_map
<1> QED
  BY <1>3, <1>4, FocusAndRoom, FocusBefore DEF handle_layer_map

LEMMA LayerUnmapKeeps ==
    ASSUME IInv, NEW p \in Panels, handle_layer_unmap(p)
    PROVE  IInv'
<1> DEFINE l == [layer EXCEPT ![p].state = "created"]
<1>1. l \in [Panels -> LayerType] /\ Created(l) = Created(layer)
  BY RoomBefore DEF LayerType, Created, handle_layer_unmap
<1>2. server_arrange(l, outputs, active_output)
  BY DEF handle_layer_unmap
<1> HIDE DEF l
<1>3. RoomInv' /\ Created(layer') = Created(layer)
  BY <1>1, <1>2, Arranges, RoomBefore
<1>4. FocusRight(focus', mapped, Created(layer))
  BY FocusBefore, SurfaceFocused DEF handle_layer_unmap
<1> QED
  BY <1>3, <1>4, FocusAndRoom, FocusBefore DEF handle_layer_unmap

LEMMA LayerCommitKeeps ==
    ASSUME IInv, NEW p \in Panels, handle_layer_commit(p)
    PROVE  IInv'
<1> DEFINE l == [layer EXCEPT ![p].zone = ~ @]
<1>1. l \in [Panels -> LayerType] /\ Created(l) = Created(layer)
  BY RoomBefore DEF LayerType, Created
<1>2. server_arrange(l, outputs, active_output)
  BY DEF handle_layer_commit, server_arrange
<1> HIDE DEF l
<1>3. RoomInv' /\ Created(layer') = Created(layer)
  BY <1>1, <1>2, Arranges, RoomBefore
<1> QED
  BY <1>3, FocusAndRoom, FocusBefore DEF handle_layer_commit

LEMMA LayerDestroyKeeps ==
    ASSUME IInv, NEW p \in Panels, handle_layer_destroy(p)
    PROVE  IInv'
<1> DEFINE forgot == IF focus.seat = p THEN [focus EXCEPT !.seat = None] ELSE focus
           rest == Created(layer) \ {p}
<1>1. p # None /\ p \notin Views /\ p \notin mapped
  BY Names, FocusBefore
<1>2. /\ layer' = [layer EXCEPT ![p] = NoLayer] /\ layer[p].state = "created"
      /\ UNCHANGED <<outputs, active_output, usable>>
  BY DEF handle_layer_destroy
<1>3. Created(layer') = rest
  BY <1>2, RoomBefore DEF Created, NoLayer
<1>4. RoomInv'
  <2>1. layer' \in [Panels -> LayerType]
    BY <1>2, RoomBefore DEF LayerType, NoLayer
  <2>2. UsableArea(layer', outputs) = UsableArea(layer, outputs)
    BY <1>2, RoomBefore DEF UsableArea, NoLayer
  <2> QED
    BY <1>2, <2>1, <2>2, RoomBefore DEF RoomInv, IInv, UsableArea
<1>5. FocusRight(focus', mapped, rest)
  <2>1. CASE focus.surface = p
    <3>1. forgot \in FocusType
      BY FocusBefore DEF FocusType
    <3>2. focus' = server_focus_surface(forgot, None)
      BY <2>1 DEF handle_layer_destroy
    <3> HIDE DEF forgot
    <3> QED
      BY <3>1, <3>2, SurfaceFocused
  <2>2. CASE focus.surface # p
    <3>1. Target(focus) # p
      BY <1>1, <2>2, FocusBefore DEF Target
    <3>2. FocusRight(forgot, mapped, Created(layer))
      BY <3>1, FocusBefore, Forgotten
    <3>3. forgot.view = focus.view /\ forgot.surface = focus.surface
      BY FocusBefore DEF FocusType
    <3>4. focus' = forgot
      BY <2>2 DEF handle_layer_destroy
    <3> HIDE DEF forgot
    <3>5. /\ forgot.view \in mapped \cup {None}
          /\ forgot.surface \in mapped \cup rest \cup {None}
      BY <2>2, <3>3, FocusBefore DEF FocusRight
    <3> QED
      BY <3>2, <3>4, <3>5, Elsewhere
  <2> QED
    BY <2>1, <2>2
<1> QED
  BY <1>3, <1>4, <1>5, FocusAndRoom, FocusBefore DEF handle_layer_destroy

LEMMA PopupKeeps ==
    ASSUME IInv, NEW m \in Menus, handle_new_popup(m)
    PROVE  IInv'
<1>1. RoomInv'
  BY RoomStays DEF handle_new_popup, IInv
<1>2. FocusRight(focus, mapped', Created(layer))
  BY FocusBefore, Elsewhere DEF FocusRight, handle_new_popup
<1> QED
  BY <1>1, <1>2, FocusAndRoom, FocusBefore DEF handle_new_popup, layerVars

LEMMA ClickKeeps ==
    ASSUME IInv, NEW s \in Panels \cup Menus, ClickSurface(s)
    PROVE  IInv'
<1>1. s \in mapped \cup Created(layer)
  BY Names DEF ClickSurface, Created
<1>2. FocusRight(focus', mapped, Created(layer))
  BY <1>1, FocusBefore, SurfaceFocused DEF ClickSurface
<1>3. RoomInv'
  BY RoomStays DEF ClickSurface, IInv
<1> QED
  BY <1>2, <1>3, FocusAndRoom, FocusBefore DEF ClickSurface, layerVars

LEMMA MenuKeeps ==
    ASSUME IInv, NEW m \in Menus, MenuDestroyed(m)
    PROVE  IInv'
<1> DEFINE forgot == IF focus.seat = m THEN [focus EXCEPT !.seat = None] ELSE focus
           unheard == [forgot EXCEPT !.surface = None, !.heard = None, !.view = None]
<1>1. m # None /\ m \notin Views /\ m \notin Panels /\ mapped' = mapped \ {m}
  BY Names DEF MenuDestroyed
<1>2. /\ forgot \in FocusType
      /\ forgot.view = focus.view /\ forgot.surface = focus.surface
  BY FocusBefore DEF FocusType
<1>3. FocusRight(focus', mapped', Created(layer))
  <2>1. CASE focus.heard = m
    <3>1. PICK next \in Views \cup {None} :
               focus' = server_focus_view(unheard, Focusable(next))
      BY <2>1 DEF MenuDestroyed
    <3>2. Focusable(next) \in (Views \cap mapped') \cup {None}
      BY <1>1, FocusableMapped
    <3>3. focus.surface = m
      BY <2>1, FocusBefore DEF FocusRight
    <3>4. FocusRight(unheard, mapped', Created(layer))
      <4>1. ~forgot.deaf => forgot.seat = None
        BY <1>1, <3>3, FocusBefore DEF FocusRight, FocusType, Target
      <4> HIDE DEF forgot
      <4> QED
        BY <1>2, <4>1 DEF FocusRight, FocusType, Target
    <3>5. unheard \in FocusType
      BY <3>4 DEF FocusRight
    <3> HIDE DEF unheard
    <3> QED
      BY <3>1, <3>2, <3>4, <3>5, ViewFocused
  <2>2. CASE focus.heard # m
    <3>1. focus.surface # m /\ Target(focus) # m
      BY <1>1, <2>2, FocusBefore DEF FocusRight, Target
    <3>2. FocusRight(forgot, mapped, Created(layer))
      BY <3>1, FocusBefore, Forgotten
    <3>3. focus' = forgot
      BY <2>2 DEF MenuDestroyed
    <3> HIDE DEF forgot
    <3>4. /\ forgot.view \in mapped' \cup {None}
          /\ forgot.surface \in mapped' \cup Created(layer) \cup {None}
      BY <1>1, <1>2, <3>1, FocusBefore DEF FocusRight
    <3> QED
      BY <3>2, <3>3, <3>4, Elsewhere
  <2> QED
    BY <2>1, <2>2
<1>4. RoomInv'
  BY RoomStays DEF MenuDestroyed, IInv
<1> QED
  BY <1>1, <1>3, <1>4, FocusAndRoom, FocusBefore DEF MenuDestroyed, layerVars
-----------------------------------------------------------------------------
(* The steps of outputs                                                    *)

LEMMA OutputCreateKeeps ==
    ASSUME IInv, NEW o \in Outputs, output_create(o)
    PROVE  IInv'
<1>1. PICK found \in SUBSET {p \in Panels : layer[p].output = Dangling} :
        server_arrange([p \in Panels |-> IF p \in found
                                          THEN [layer[p] EXCEPT !.output = o]
                                          ELSE layer[p]],
                        outputs \cup {o},
                        IF active_output = None THEN o ELSE active_output)
  BY DEF output_create
<1> DEFINE l == [p \in Panels |-> IF p \in found
                                  THEN [layer[p] EXCEPT !.output = o]
                                  ELSE layer[p]]
           outs == outputs \cup {o}
           active == IF active_output = None THEN o ELSE active_output
<1>2. l \in [Panels -> LayerType] /\ Created(l) = Created(layer)
  <2>1. ASSUME NEW p \in Panels
        PROVE  l[p] \in LayerType /\ l[p].state = layer[p].state
    BY RoomBefore DEF LayerType
  <2> QED
    BY <2>1 DEF Created
<1>3. outs \in SUBSET Outputs /\ active \in outs \cup {None}
  BY RoomBefore
<1>4. server_arrange(l, outs, active)
  BY <1>1
<1> HIDE DEF l, outs, active
<1>5. RoomInv' /\ Created(layer') = Created(layer)
  BY <1>2, <1>3, <1>4, Arranges
<1> QED
  BY <1>5, FocusAndRoom, FocusBefore DEF output_create

LEMMA OutputDestroyKeeps ==
    ASSUME IInv, NEW o \in Outputs, output_destroy(o)
    PROVE  IInv'
<1> DEFINE left == outputs \ {o}
           l == [p \in Panels |-> IF layer[p].output = o
                                  THEN [layer[p] EXCEPT !.output = Dangling]
                                  ELSE layer[p]]
<1>1. PICK fallback \in IF active_output # o THEN {active_output}
                        ELSE IF left = {} THEN {None} ELSE left :
             server_arrange(l, left, fallback)
  BY DEF output_destroy
<1>2. l \in [Panels -> LayerType] /\ Created(l) = Created(layer)
  <2>1. ASSUME NEW p \in Panels
        PROVE  l[p] \in LayerType /\ l[p].state = layer[p].state
    BY RoomBefore DEF LayerType
  <2> QED
    BY <2>1 DEF Created
<1>3. left \in SUBSET Outputs /\ fallback \in left \cup {None}
  BY <1>1, RoomBefore
<1>4. FocusRight(focus', mapped, Created(layer))
  <2>1. CASE focus' = focus
    BY <2>1, FocusBefore
  <2>2. CASE \E next \in (Views \cap mapped) \cup {None} :
               focus' = server_focus_view(focus, next)
    BY <2>2, FocusBefore, ViewFocused
  <2>3. \/ focus' = focus
        \/ \E next \in (IF left = {} THEN {} ELSE Views \cap mapped) \cup {None} :
             focus' = server_focus_view(focus, next)
    BY DEF output_destroy
  <2> QED
    BY <2>1, <2>2, <2>3
<1> HIDE DEF l, left
<1>5. RoomInv' /\ Created(layer') = Created(layer)
  BY <1>1, <1>2, <1>3, Arranges
<1> QED
  BY <1>4, <1>5, FocusAndRoom, FocusBefore DEF output_destroy
-----------------------------------------------------------------------------
(* The steps of the pointer                                                *)

\* A step that changes nothing but the pointer.
LEMMA OnlyPointer ==
    ASSUME IInv, UNCHANGED <<seatVars, focus, mapped, layerVars>>,
           PointerRight(pointer')
    PROVE  IInv'
<1>1. RoomInv'
  BY RoomStays DEF IInv
<1>2. FocusInv'
  BY DEF IInv, FocusInv, FocusRight, FocusType, Target, Created, seatVars, layerVars
<1> QED
  BY <1>1, <1>2 DEF IInv, PointerRight, PointerType

\* Where the lists are intact, what a right pointer says of them.
LEMMA IntactPointer ==
    ASSUME IInv, Intact
    PROVE  /\ pointer \in PointerType
           /\ pointer.hidden => pointer.active \in Locks
           /\ pointer.linked = {pointer.last} \ {None}
           /\ pointer.active # None => pointer.active = pointer.last
                                       /\ pointer.active \in pointer.alive
           /\ ~pointer.switched => pointer.last = pointer.active
  BY DEF IInv, PointerRight, Intact

\* A listener that is in the lists of two constraints is in two.
LEMMA TwoLists ==
    ASSUME NEW c, NEW d, Cardinality({c, d}) <= 1
    PROVE  c = d
<1> SUFFICES ASSUME c # d PROVE FALSE
  OBVIOUS
<1>1. IsFiniteSet({c}) /\ Cardinality({c}) = 1
  BY FS_Singleton
<1>2. Cardinality({c} \cup {d}) = Cardinality({c}) + 1
  BY <1>1, FS_AddElement
<1>3. {c, d} = {c} \cup {d}
  OBVIOUS
<1> QED
  BY <1>1, <1>2, <1>3

\* The end of a constraint frees the cursor and takes the listener out of its
\* list, if the constraint is the one that is listened to.
LEMMA DestroyedRight ==
    ASSUME NEW ptr, PointerRight(ptr), NEW c \in Constraints,
           ptr.linked = {ptr.last} \ {None},
           ptr.active # None => ptr.active = ptr.last /\ ptr.active \in ptr.alive
    PROVE  LET r == Destroyed(ptr, c)
           IN  /\ PointerRight(r)
               /\ r.linked = {r.last} \ {None}
               /\ r.active # None => r.active = r.last
               /\ r.last \in {ptr.last, None}
               /\ r.active \in {ptr.active, None}
               /\ r.switched = ptr.switched
               /\ r.hidden => ptr.hidden
<1> DEFINE r == Destroyed(ptr, c)
           gone == [ptr EXCEPT !.alive = @ \ {c}]
           freed == IF ptr.active = c
                    THEN [gone EXCEPT !.active = None, !.hidden = FALSE] ELSE gone
<1>1. ptr \in PointerType /\ c # None
  BY Names DEF PointerRight
<1>2. /\ gone \in PointerType /\ gone.alive = ptr.alive \ {c}
      /\ gone.active = ptr.active /\ gone.linked = ptr.linked
      /\ gone.last = ptr.last /\ gone.hidden = ptr.hidden
      /\ gone.switched = ptr.switched
  BY <1>1 DEF PointerType
<1>3. CASE c \in ptr.linked
  <2>1. c = ptr.last /\ ptr.last # None
    BY <1>1, <1>3
  <2>2. freed.active = None /\ ~freed.hidden
    <3>1. CASE ptr.active = c
      BY <1>2, <3>1 DEF PointerType
    <3>2. CASE ptr.active # c
      <4>1. ptr.active = None
        BY <2>1, <3>2
      <4>2. ~ptr.hidden
        BY <4>1, Names DEF PointerRight
      <4> QED
        BY <1>2, <3>2, <4>1, <4>2
    <3> QED
      BY <3>1, <3>2
  <2>3. /\ freed \in PointerType /\ freed.linked = ptr.linked
        /\ freed.last = ptr.last /\ freed.switched = ptr.switched
    BY <1>2 DEF PointerType
  <2>4. r = Unlisten(freed)
    BY <1>3 DEF Destroyed
  <2> HIDE DEF freed
  <2>5. /\ r \in PointerType /\ r.linked = {} /\ r.last = None
        /\ r.active = None /\ ~r.hidden /\ r.switched = ptr.switched
    <3>1. freed.linked \ {freed.last} = {}
      BY <2>1, <2>3, Names DEF PointerRight
    <3>2. r = [freed EXCEPT !.linked = {}, !.last = None]
      BY <2>1, <2>3, <2>4, <3>1 DEF Unlisten
    <3> HIDE DEF r
    <3> QED
      BY <2>2, <2>3, <3>2 DEF PointerType
  <2> HIDE DEF r
  <2> QED
    BY <2>5 DEF PointerRight, r
<1>4. CASE c \notin ptr.linked
  <2>1. r = gone
    BY <1>4 DEF Destroyed
  <2>2. ptr.active # c
    BY <1>1, <1>4
  <2> HIDE DEF gone
  <2> QED
    BY <1>2, <2>1, <2>2 DEF PointerRight
<1> QED
  BY <1>3, <1>4

LEMMA ConstraintEndKeeps ==
    ASSUME IInv, NEW c \in Constraints, handle_constraint_destroy(c)
    PROVE  IInv'
<1>1. PointerRight(pointer')
  BY IntactPointer, DestroyedRight DEF handle_constraint_destroy, IInv
<1> QED
  BY <1>1, OnlyPointer DEF handle_constraint_destroy

LEMMA SwitchKeeps ==
    ASSUME IInv, SwitchFromFullscreen
    PROVE  IInv'
<1> DEFINE d == Deactivated(pointer, pointer.active)
<1>1. pointer.active \in Constraints /\ Intact /\ PointerRight(pointer)
  BY IntactPointer DEF SwitchFromFullscreen, PointerType, IInv
<1>2. PointerRight(d) /\ d.linked = {d.last} \ {None}
  BY <1>1, IntactPointer, DestroyedRight DEF Deactivated
<1>3. pointer' = [d EXCEPT !.active = None, !.hidden = FALSE, !.switched = TRUE]
  BY DEF SwitchFromFullscreen
<1> HIDE DEF d
<1>4. PointerRight(pointer')
  BY <1>2, <1>3 DEF PointerRight, PointerType
<1> QED
  BY <1>4, OnlyPointer DEF SwitchFromFullscreen

LEMMA NewConstraintKeeps ==
    ASSUME IInv, NEW c \in Constraints, handle_new_constraint(c)
    PROVE  IInv'
<1> DEFINE old == IF pointer.active = None THEN pointer
                  ELSE Deactivated(Unlisten(pointer), pointer.active)
           locks == c \in Locks
<1>1. Intact /\ PointerRight(pointer) /\ c # None
  BY Names DEF handle_new_constraint, IInv
<1>2. /\ old \in PointerType
      /\ \/ old.linked = {}
         \/ pointer.switched /\ old.switched /\ \E d : old.linked = {d}
      /\ old.switched = pointer.switched
  <2>1. CASE pointer.active = None
    <3>1. \/ pointer.linked = {}
          \/ pointer.switched /\ pointer.linked = {pointer.last}
      BY <1>1, <2>1, IntactPointer
    <3> QED
      BY <1>1, <2>1, <3>1, IntactPointer
  <2>2. CASE pointer.active # None
    <3> DEFINE u == Unlisten(pointer)
    <3>1. /\ u \in PointerType /\ u.linked = {} /\ u.last = None
          /\ u.active = pointer.active /\ u.switched = pointer.switched
      BY <1>1, <2>2, IntactPointer DEF Unlisten, PointerType
    <3>2. old = Deactivated(u, pointer.active)
      BY <2>2
    <3>3. old \in {u, [u EXCEPT !.alive = @ \ {pointer.active}]}
      <4> HIDE DEF u, old
      <4> QED
        BY <3>1, <3>2 DEF Deactivated, Destroyed
    <3> HIDE DEF u, old
    <3> QED
      BY <3>1, <3>3 DEF PointerType
  <2> QED
    BY <2>1, <2>2
<1>3. pointer' = [old EXCEPT !.alive = @ \cup {c}, !.active = c,
                             !.linked = @ \cup {c}, !.last = c, !.hidden = locks]
  BY DEF handle_new_constraint
<1> HIDE DEF old
<1>4. locks \in BOOLEAN /\ (locks => c \in Locks)
  OBVIOUS
<1> HIDE DEF locks
<1>5. /\ pointer' \in PointerType /\ pointer'.active = c /\ pointer'.last = c
      /\ c \in pointer'.alive /\ pointer'.hidden = locks
      /\ pointer'.linked = old.linked \cup {c}
      /\ pointer'.switched = old.switched
  BY <1>2, <1>3, <1>4 DEF PointerType
<1>6. Cardinality(pointer'.linked) <= 1 => pointer'.linked = {c}
  <2>1. CASE old.linked = {}
    BY <1>5, <2>1
  <2>2. CASE \E d : old.linked = {d}
    <3>1. PICK d : old.linked = {d}
      BY <2>2
    <3>2. pointer'.linked = {c, d}
      BY <1>5, <3>1
    <3>3. Cardinality({c, d}) <= 1 => c = d
      BY TwoLists
    <3> QED
      BY <3>2, <3>3
  <2> QED
    BY <1>2, <2>1, <2>2
<1>7. ~pointer'.switched => pointer'.linked = {c}
  BY <1>2, <1>5
<1>8. PointerRight(pointer')
  BY <1>1, <1>4, <1>5, <1>6, <1>7 DEF PointerRight
<1> QED
  BY <1>8, OnlyPointer DEF handle_new_constraint
-----------------------------------------------------------------------------
(* The specification                                                       *)

LEMMA InitHolds == Init => IInv
<1> SUFFICES ASSUME Init PROVE IInv
  OBVIOUS
<1>1. FocusInv
  BY DEF Init, FocusInv, FocusRight, FocusType, Target
<1>2. NoLayer \in LayerType
  BY DEF NoLayer, LayerType
<1>3. RoomInv
  BY <1>2 DEF Init, RoomInv, UsableArea
<1>4. PointerRight(pointer)
  BY DEF Init, PointerRight, PointerType
<1> QED
  BY <1>1, <1>3, <1>4 DEF IInv

LEMMA NextKeeps == IInv /\ [Next]_vars => IInv'
<1> SUFFICES ASSUME IInv, [Next]_vars PROVE IInv'
  OBVIOUS
<1>1. CASE \E k \in Keyboards :
             keyboard_create(k) \/ handle_keyboard_destroy(k) \/ handle_key(k)
  BY <1>1, KeyboardKeeps
<1>2. CASE \/ \E v \in Views : FocusView(v) \/ handle_map(v) \/ handle_unmap(v)
                               \/ handle_destroy(v)
           \/ PointAtBackground
  BY <1>2, FocusViewKeeps, WindowMapKeeps, WindowUnmapKeeps, WindowDestroyKeeps,
     BackgroundKeeps
<1>3. CASE \E p \in Panels :
             \/ handle_new_layer_surface(p) \/ handle_layer_map(p)
             \/ handle_layer_unmap(p) \/ handle_layer_destroy(p)
             \/ handle_layer_commit(p)
  BY <1>3, NewLayerKeeps, LayerMapKeeps, LayerUnmapKeeps, LayerDestroyKeeps,
     LayerCommitKeeps
<1>4. CASE \/ \E m \in Menus : handle_new_popup(m) \/ MenuDestroyed(m)
           \/ \E s \in Panels \cup Menus : ClickSurface(s)
  BY <1>4, PopupKeeps, MenuKeeps, ClickKeeps
<1>5. CASE \E o \in Outputs : output_create(o) \/ output_destroy(o)
  BY <1>5, OutputCreateKeeps, OutputDestroyKeeps
<1>6. CASE \/ \E c \in Constraints :
                 handle_new_constraint(c) \/ handle_constraint_destroy(c)
           \/ SwitchFromFullscreen
  BY <1>6, NewConstraintKeeps, ConstraintEndKeeps, SwitchKeeps
<1>7. CASE UNCHANGED vars
  <2>1. UNCHANGED <<seatVars, focus, mapped, layerVars>> /\ pointer' = pointer
    BY <1>7 DEF vars, seatVars, layerVars
  <2> QED
    BY <2>1, OnlyPointer DEF IInv
<1> QED
  BY <1>1, <1>2, <1>3, <1>4, <1>5, <1>6, <1>7 DEF Next

(***************************************************************************)
(* The inductive invariant: a right focus, room for every panel that is up *)
(* and the listener of the constraint in the list it was linked to last.   *)
(***************************************************************************)
THEOREM Inductive == Spec => []IInv
<1>1. Init => IInv
  BY InitHolds
<1> QED
  BY <1>1, NextKeeps, PTL DEF Spec

\* The types.
THEOREM TypeCorrect == Spec => []TypeOK
<1>1. IInv => TypeOK
  BY DEF IInv, FocusInv, RoomInv, FocusRight, PointerRight, TypeOK, UsableArea
<1> QED
  BY <1>1, Inductive, PTL

(***************************************************************************)
(* The keys go to the window or surface the compositor has as its focus,   *)
(* unless it got the focus while no keyboard was active: the cached test   *)
(* of server_focus_view and server_focus_surface (server.c) never skips an *)
(* enter event that was needed.                                            *)
(***************************************************************************)
THEOREM KeysArrive == Spec => []KeysGoToTheFocus
<1>1. IInv => KeysGoToTheFocus
  BY DEF IInv, FocusInv, FocusRight, KeysGoToTheFocus
<1> QED
  BY <1>1, Inductive, PTL

(***************************************************************************)
(* Server.focused_surface is alive and its end is listened for, however    *)
(* many launchers and menus come and go.                                   *)
(***************************************************************************)
THEOREM SurfaceAlive == Spec => []FocusedSurfaceLives
<1>1. IInv => FocusedSurfaceLives
  BY Names DEF IInv, FocusInv, FocusRight, FocusedSurfaceLives, Exists, Created
<1> QED
  BY <1>1, Inductive, PTL

(***************************************************************************)
(* Every handler of layer.c and output.c that changes which panel is up,   *)
(* where it is or what it asks for leaves the usable areas right.          *)
(***************************************************************************)
THEOREM RoomIsRight == Spec => []RoomBetweenPanels
<1>1. IInv => RoomBetweenPanels
  BY DEF IInv, RoomInv, RoomBetweenPanels, UsableArea
<1> QED
  BY <1>1, Inductive, PTL

(***************************************************************************)
(* As long as no workspace switch took a constraint away, the one listener *)
(* is in the list of the active constraint and in no other (input.c,       *)
(* handle_new_constraint and handle_constraint_destroy).                   *)
(***************************************************************************)
THEOREM ListenerInPlace == Spec => []ConstraintIsHeard
<1>1. IInv => ConstraintIsHeard
  BY DEF IInv, PointerRight, ConstraintIsHeard
<1> QED
  BY <1>1, Inductive, PTL

(***************************************************************************)
(* The cursor is hidden only for a lock that exists, after a workspace     *)
(* switch too, until two constraints are listened to at once.              *)
(***************************************************************************)
THEOREM CursorBack == Spec => []CursorComesBack
<1>1. IInv => CursorComesBack
  BY Names DEF IInv, PointerRight, CursorComesBack, Intact
<1> QED
  BY <1>1, Inductive, PTL
=============================================================================
