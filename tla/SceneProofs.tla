---------------------------- MODULE SceneProofs -----------------------------
(***************************************************************************)
(* That a client's buffer is locked exactly while a window has it cached,  *)
(* and that the snapshot of an xdg window is on the screen exactly while   *)
(* it closes, for any number of windows, outputs and buffers.  Both are    *)
(* about one window at a time, so most of the proof is about what the      *)
(* handlers do to one record.                                              *)
(***************************************************************************)
EXTENDS Scene, TLAPS

\* Exactly the cached buffer is locked, and once.
Locked(r) == \A b \in Buffers : r.locks[b] = IF r.close_buffer = b THEN 1 ELSE 0

\* closing_scene points to one of the snapshots.
Pictured(r) == r.scene => r.snapshots > 0

\* What OneSnapshot says of an xdg window.
ClosesOnce(r) ==
    r.type = "xdg" =>
        /\ r.snapshots = IF r.closing THEN 1 ELSE 0
        /\ r.scene = r.closing
        /\ r.closing => r.state = "idle"

Sound(r) == r \in ViewType /\ Locked(r) /\ Pictured(r) /\ ClosesOnce(r)

Globals ==
    /\ outputs \in [Outputs -> {"none", "off", "on", "freed"}]
    /\ frame \subseteq Connected
    /\ wallpaper \in BOOLEAN
    /\ fade \in [Outputs -> FadeType]
    /\ reloads \in 0..MaxReloads

IInv ==
    /\ Globals
    /\ view \in [Views -> ViewType]
    /\ \A v \in Views : Sound(view[v])
-----------------------------------------------------------------------------
(* One window                                                              *)

\* Only these fields matter: the others may change.
LEMMA SoundFields ==
    ASSUME NEW r, Sound(r), NEW s \in ViewType,
           s.type = r.type, s.state = r.state, s.closing = r.closing, s.scene = r.scene,
           s.snapshots = r.snapshots, s.close_buffer = r.close_buffer, s.locks = r.locks
    PROVE  Sound(s)
  BY DEF Sound, Locked, Pictured, ClosesOnce

\* A window that is not closing and holds no lock and no snapshot.
LEMMA QuietSound ==
    ASSUME NEW s \in ViewType, s.closing = FALSE, s.scene = FALSE, s.snapshots = 0,
           s.close_buffer = None, \A b \in Buffers : s.locks[b] = 0
    PROVE  Sound(s)
<1>1. Locked(s)
  BY SceneAssumption DEF Locked, SceneAssumption
<1> QED
  BY <1>1 DEF Sound, Pictured, ClosesOnce

\* A window that nothing has happened to is sound.
LEMMA GoneSound == Sound(Gone)
<1>1. 0 \in 0..MaxNodes /\ 0 \in 0..Len /\ 0 \in 0..1
  BY SceneAssumption DEF SceneAssumption
<1>2. Gone \in ViewType
  BY <1>1 DEF ViewType, Gone
<1>3. /\ Gone.closing = FALSE /\ Gone.scene = FALSE /\ Gone.snapshots = 0
      /\ Gone.close_buffer = None
      /\ \A b \in Buffers : Gone.locks[b] = 0
  BY DEF Gone
<1> QED
  BY <1>2, <1>3, QuietSound

\* Cache, of a buffer that a commit brings, moves the lock to the new buffer.
LEMMA CacheSound ==
    ASSUME NEW r, Sound(r), NEW b \in Buffers
    PROVE  /\ Sound(Cache(r, b))
           /\ Cache(r, b).state = r.state
           /\ Cache(r, b).type = r.type
           /\ Cache(r, b).closing = r.closing
<1> DEFINE c == Cache(r, b)
<1>1. CASE b = r.close_buffer
  BY <1>1 DEF Cache
<1>2. CASE b # r.close_buffer
  <2> DEFINE more == WithLock(r.locks, b)
             locks == Unlocked(more, r.close_buffer)
  <2>1. c = [r EXCEPT !.close_buffer = b, !.locks = locks]
    BY <1>2 DEF Cache
  <2>2. r \in ViewType /\ r.locks \in [Buffers -> 0..1]
    BY DEF Sound, ViewType
  <2>3. r.locks[b] = 0
    BY <1>2 DEF Sound, Locked
  <2>9. /\ more \in [Buffers -> Int]
         /\ \A x \in Buffers : more[x] = IF x = b THEN 1 ELSE r.locks[x]
    BY <2>2, <2>3 DEF WithLock
  <2> HIDE DEF more
  <2>4. \A x \in Buffers : locks[x] = IF x = b THEN 1 ELSE 0
    <3>1. CASE r.close_buffer = None
      BY <1>2, <2>2, <2>9, <3>1, SceneAssumption
         DEF Unlocked, Sound, Locked, SceneAssumption
    <3>2. CASE r.close_buffer \in Buffers
      BY <1>2, <2>2, <2>9, <3>2, SceneAssumption
         DEF Unlocked, Sound, Locked, SceneAssumption
    <3> QED
      BY <2>2, <3>1, <3>2 DEF ViewType
  <2>5. locks \in [Buffers -> 0..1]
    <3>1. locks = [x \in Buffers |-> locks[x]]
      BY <2>9 DEF Unlocked
    <3> HIDE DEF locks
    <3> QED
      BY <2>4, <3>1
  <2>6. c \in ViewType
    BY <2>1, <2>2, <2>5 DEF ViewType
  <2>7. Locked(c)
    BY <2>1, <2>2, <2>4 DEF Locked, ViewType
  <2> QED
    BY <2>1, <2>2, <2>6, <2>7 DEF Sound, Pictured, ClosesOnce, ViewType
<1> QED
  BY <1>1, <1>2

\* What Unlocked leaves of the locks of a sound window: none.
LEMMA AllUnlocked ==
    ASSUME NEW r, Sound(r)
    PROVE  /\ Unlocked(r.locks, r.close_buffer) \in [Buffers -> 0..1]
           /\ \A b \in Buffers : Unlocked(r.locks, r.close_buffer)[b] = 0
<1>1. r.locks \in [Buffers -> 0..1] /\ r.close_buffer \in Buffers \cup {None}
  BY DEF Sound, ViewType
<1>2. \A b \in Buffers : Unlocked(r.locks, r.close_buffer)[b] = 0
  BY <1>1, SceneAssumption DEF Unlocked, Sound, Locked, SceneAssumption
<1> QED
  BY <1>1, <1>2 DEF Unlocked

\* Dropped ends a closing: no lock, no snapshot, no place it closes on.
LEMMA DroppedSound ==
    ASSUME NEW r, Sound(r)
    PROVE  /\ Sound(Dropped(r))
           /\ Dropped(r).state = r.state
           /\ Dropped(r).type = r.type
           /\ ~Dropped(r).closing
           /\ r.type = "xdg" => Dropped(r).snapshots = 0 /\ ~Dropped(r).scene
           /\ \A b \in Buffers : Dropped(r).locks[b] = 0
<1> DEFINE d == Dropped(r)
           locks == Unlocked(r.locks, r.close_buffer)
           left == IF r.scene THEN r.snapshots - 1 ELSE r.snapshots
<1>1. r \in ViewType
  BY DEF Sound
<1>2. d = [r EXCEPT !.closing = FALSE, !.closing_output = None, !.scene = FALSE,
                    !.close_buffer = None, !.locks = locks, !.snapshots = left]
  <2> DEFINE n == NotClosing(r)
  <2>1. n = [r EXCEPT !.closing = FALSE, !.closing_output = None, !.scene = FALSE,
                      !.close_buffer = None, !.locks = locks]
    BY <1>1 DEF NotClosing, ViewType
  <2> HIDE DEF n, locks
  <2>2. n.snapshots = r.snapshots
    BY <1>1, <2>1 DEF ViewType
  <2>3. d = [n EXCEPT !.snapshots = left]
    BY <2>2 DEF Dropped, n
  <2> HIDE DEF d, left
  <2> QED
    BY <1>1, <2>1, <2>3 DEF ViewType
<1>3. locks \in [Buffers -> 0..1] /\ \A b \in Buffers : locks[b] = 0
  BY AllUnlocked
<1>4. left \in 0..MaxNodes
  BY <1>1, SceneAssumption DEF Sound, Pictured, ViewType, SceneAssumption
<1>5. d \in ViewType
  BY <1>1, <1>2, <1>3, <1>4 DEF ViewType
<1>6. r.type = "xdg" => left = 0
  BY <1>1 DEF Sound, ClosesOnce, ViewType
<1> HIDE DEF locks, left
<1>7. Locked(d)
  BY <1>1, <1>2, <1>3, SceneAssumption DEF Locked, ViewType, SceneAssumption
<1> QED
  BY <1>1, <1>2, <1>3, <1>5, <1>6, <1>7 DEF Sound, Pictured, ClosesOnce, ViewType

\* NotClosing alone, as an X11 window without surface does it: sound too.
LEMMA NotClosingSound ==
    ASSUME NEW r, Sound(r), r.type = "x11"
    PROVE  /\ Sound(NotClosing(r))
           /\ NotClosing(r).type = "x11"
<1> DEFINE n == NotClosing(r)
           locks == Unlocked(r.locks, r.close_buffer)
<1>1. r \in ViewType
  BY DEF Sound
<1>2. n = [r EXCEPT !.closing = FALSE, !.closing_output = None, !.scene = FALSE,
                    !.close_buffer = None, !.locks = locks]
  BY DEF NotClosing
<1>3. locks \in [Buffers -> 0..1] /\ \A b \in Buffers : locks[b] = 0
  BY AllUnlocked
<1> HIDE DEF locks
<1>4. n \in ViewType
  BY <1>1, <1>2, <1>3 DEF ViewType
<1>5. Locked(n)
  BY <1>1, <1>2, <1>3, SceneAssumption DEF Locked, ViewType, SceneAssumption
<1> QED
  BY <1>1, <1>2, <1>4, <1>5 DEF Sound, Pictured, ClosesOnce, ViewType

\* An animation begins: nothing but left changes.
LEMMA AnimatedSound ==
    ASSUME NEW r, Sound(r), NEW s \in Animated(r)
    PROVE  /\ Sound(s)
           /\ s.state = r.state /\ s.type = r.type /\ s.closing = r.closing
<1>1. PICK n \in {0, Len} : s = [r EXCEPT !.left = n]
  BY DEF Animated
<1>2. n \in 0..Len
  BY SceneAssumption DEF SceneAssumption
<1>3. r \in ViewType
  BY DEF Sound
<1>4. s \in ViewType
  BY <1>1, <1>2, <1>3 DEF ViewType
<1>5. /\ s.type = r.type /\ s.state = r.state /\ s.closing = r.closing /\ s.scene = r.scene
      /\ s.snapshots = r.snapshots /\ s.close_buffer = r.close_buffer /\ s.locks = r.locks
  BY <1>1, <1>3 DEF ViewType
<1> QED
  BY <1>4, <1>5, SoundFields

\* The border is drawn or hidden: nothing but border changes.
LEMMA BorderSound ==
    ASSUME NEW r, Sound(r), NEW on \in BOOLEAN
    PROVE  LET s == [r EXCEPT !.border = on]
           IN  /\ Sound(s)
               /\ s.state = r.state /\ s.type = r.type /\ s.closing = r.closing
<1> DEFINE s == [r EXCEPT !.border = on]
<1>1. r \in ViewType
  BY DEF Sound
<1>2. s \in ViewType
  BY <1>1 DEF ViewType
<1>3. /\ s.type = r.type /\ s.state = r.state /\ s.closing = r.closing /\ s.scene = r.scene
      /\ s.snapshots = r.snapshots /\ s.close_buffer = r.close_buffer /\ s.locks = r.locks
  BY <1>1 DEF ViewType
<1> HIDE DEF s
<1>4. Sound(s)
  BY <1>2, <1>3, SoundFields
<1> QED
  BY <1>3, <1>4 DEF s

LEMMA BorderedSound ==
    ASSUME NEW r, Sound(r), NEW s \in Bordered(r)
    PROVE  /\ Sound(s)
           /\ s.state = r.state /\ s.type = r.type /\ s.closing = r.closing
<1>1. PICK on \in BOOLEAN : s = [r EXCEPT !.border = on]
  BY DEF Bordered
<1> QED
  BY <1>1, BorderSound

\* A window moves to another output, or to none.
LEMMA MovedSound ==
    ASSUME NEW r, Sound(r), NEW o \in Outputs \cup {None}
    PROVE  LET s == [r EXCEPT !.output = o]
           IN  /\ Sound(s)
               /\ s.state = r.state /\ s.type = r.type /\ s.closing = r.closing
<1> DEFINE s == [r EXCEPT !.output = o]
<1>1. r \in ViewType
  BY DEF Sound
<1>2. s \in ViewType
  BY <1>1 DEF ViewType
<1>3. /\ s.type = r.type /\ s.state = r.state /\ s.closing = r.closing /\ s.scene = r.scene
      /\ s.snapshots = r.snapshots /\ s.close_buffer = r.close_buffer /\ s.locks = r.locks
  BY <1>1 DEF ViewType
<1> HIDE DEF s
<1>4. Sound(s)
  BY <1>2, <1>3, SoundFields
<1> QED
  BY <1>3, <1>4 DEF s

\* One frame of a window: it ends a closing that has run out, or goes on.
LEMMA FrameUpdateSound ==
    ASSUME NEW r, Sound(r), NEW done \in BOOLEAN
    PROVE  Sound(FrameUpdate(r, done))
<1>1. CASE r.closing /\ r.left = 0
  <2> DEFINE d == Dropped(r)
             s == [d EXCEPT !.border = FALSE]
  <2>1. FrameUpdate(r, done) = s
    BY <1>1 DEF FrameUpdate
  <2>2. Sound(d)
    BY DroppedSound
  <2> HIDE DEF d
  <2>3. Sound(s)
    BY <2>2, BorderSound
  <2> HIDE DEF s
  <2> QED
    BY <2>1, <2>2, <2>3
<1>2. CASE ~(r.closing /\ r.left = 0)
  <2> DEFINE n == IF done \/ r.left = 0 THEN 0 ELSE r.left - 1
             s == [r EXCEPT !.left = n]
  <2>1. FrameUpdate(r, done) = s
    BY <1>2 DEF FrameUpdate
  <2>2. r \in ViewType
    BY DEF Sound
  <2>3. n \in 0..Len
    BY <2>2, SceneAssumption DEF ViewType, SceneAssumption
  <2> HIDE DEF n
  <2>4. s \in ViewType
    BY <2>2, <2>3 DEF ViewType
  <2>5. /\ s.type = r.type /\ s.state = r.state /\ s.closing = r.closing /\ s.scene = r.scene
        /\ s.snapshots = r.snapshots /\ s.close_buffer = r.close_buffer /\ s.locks = r.locks
    BY <2>2 DEF ViewType
  <2> HIDE DEF s
  <2>6. Sound(s)
    BY <2>4, <2>5, SoundFields
  <2> QED
    BY <2>1, <2>5, <2>6
<1> QED
  BY <1>1, <1>2
-----------------------------------------------------------------------------
(* One record through a whole handler                                      *)

Opened(r, o) == [r EXCEPT !.state = "mapped", !.output = o]

\* A window that opens; an xdg window that was still closing has been dropped.
LEMMA OpenedSound ==
    ASSUME NEW r, Sound(r), r.type = "xdg" => ~r.closing,
           NEW o \in Outputs \cup {None}
    PROVE  Sound(Opened(r, o))
<1>1. r \in ViewType
  BY DEF Sound
<1>2. Opened(r, o) \in ViewType
  BY <1>1 DEF Opened, ViewType
<1> QED
  BY <1>1, <1>2 DEF Opened, Sound, Locked, Pictured, ClosesOnce, ViewType

\* The animation of an opened window, and its first commit.
LEMMA FirstCommitSound ==
    ASSUME NEW r, Sound(r), NEW s \in Animated(r), NEW b \in Buffers,
           NEW t \in Bordered(Cache(s, b))
    PROVE  Sound(t)
<1>1. Sound(s)
  BY AnimatedSound
<1>2. Sound(Cache(s, b))
  BY <1>1, CacheSound
<1> QED
  BY <1>2, BorderedSound

\* A window that closes with a snapshot.
LEMMA CloseSound ==
    ASSUME NEW r, Sound(r), r.state = "idle", r.snapshots < MaxNodes,
           r.type = "xdg" => r.snapshots = 0,
           NEW o \in Outputs \cup {None}
    PROVE  LET s == [r EXCEPT !.closing = TRUE, !.closing_output = o,
                              !.scene = TRUE, !.snapshots = @ + 1]
           IN  Sound(s)
<1> DEFINE n == r.snapshots + 1
           s == [r EXCEPT !.closing = TRUE, !.closing_output = o,
                          !.scene = TRUE, !.snapshots = n]
<1>1. r \in ViewType
  BY DEF Sound
<1>2. n \in 0..MaxNodes /\ n > 0 /\ (r.type = "xdg" => n = 1)
  BY <1>1, SceneAssumption DEF ViewType, SceneAssumption
<1> HIDE DEF n
<1>3. s \in ViewType
  BY <1>1, <1>2 DEF ViewType
<1>4. Sound(s)
  BY <1>1, <1>2, <1>3 DEF Sound, Locked, Pictured, ClosesOnce, ViewType
<1> QED
  BY <1>4 DEF n

\* A window whose snapshot could not be made.
LEMMA UnpicturedSound ==
    ASSUME NEW r, Sound(r), r.type = "xdg" => r.snapshots = 0
    PROVE  LET s == [r EXCEPT !.closing = FALSE, !.scene = FALSE]
           IN  Sound(s)
<1> DEFINE s == [r EXCEPT !.closing = FALSE, !.scene = FALSE]
<1>1. r \in ViewType
  BY DEF Sound
<1>2. s \in ViewType
  BY <1>1 DEF ViewType
<1> QED
  BY <1>1, <1>2 DEF Sound, Locked, Pictured, ClosesOnce, ViewType
-----------------------------------------------------------------------------
(* One action after the other                                              *)

\* An arrange asks only connected outputs for a frame.
LEMMA ArrangedConnected == Arranged => frame' \subseteq Connected'
  BY DEF Arranged, Connected

\* An action that changes one window, and no output.
LEMMA OneWindow ==
    ASSUME IInv, NEW v \in Views, NEW r, Sound(r),
           view' = [view EXCEPT ![v] = r], Globals'
    PROVE  IInv'
<1>1. view' \in [Views -> ViewType]
  BY DEF IInv, Sound
<1>2. ASSUME NEW w \in Views PROVE Sound(view[w])'
  <2>1. view'[w] = IF w = v THEN r ELSE view[w]
    BY DEF IInv
  <2>2. Sound(view'[w])
    BY <2>1 DEF IInv
  <2> QED
    BY <2>2 DEF Sound, Locked, Pictured, ClosesOnce
<1> QED
  BY <1>1, <1>2 DEF IInv

\* An action that changes windows and outputs alike.
LEMMA ManyWindows ==
    ASSUME Globals', view' = [v \in Views |-> view'[v]],
           \A v \in Views : Sound(view'[v])
    PROVE  IInv'
<1>1. view' \in [Views -> ViewType]
  BY DEF Sound
<1>2. ASSUME NEW w \in Views PROVE Sound(view[w])'
  BY DEF Sound, Locked, Pictured, ClosesOnce
<1> QED
  BY <1>1, <1>2 DEF IInv

\* What is known of a window before a step.
LEMMA Before ==
    ASSUME IInv, NEW v \in Views
    PROVE  Globals /\ view[v] \in ViewType /\ Sound(view[v])
  BY DEF IInv

\* The initial states.
LEMMA InitHolds == Init => IInv
<1> SUFFICES ASSUME Init PROVE IInv
  OBVIOUS
<1>1. Globals
  BY SceneAssumption DEF Init, Globals, FadeType, NoFade, SceneAssumption
<1>2. \A v \in Views : view[v] = Gone
  BY DEF Init
<1>3. view \in [Views -> ViewType]
  BY GoneSound DEF Init, Sound
<1>4. \A v \in Views : Sound(view[v])
  BY <1>2, GoneSound
<1> QED
  BY <1>1, <1>3, <1>4 DEF IInv

LEMMA view_create_Keeps ==
    ASSUME IInv, NEW v \in Views, NEW type \in {"xdg", "x11"}, view_create(v, type)
    PROVE  IInv'
<1> DEFINE r == [Gone EXCEPT !.type = type, !.state = "idle",
                             !.surface = type = "xdg"]
<1>1. Sound(r)
  <2>1. r \in ViewType
    BY GoneSound DEF Sound, ViewType
  <2>2. /\ r.closing = FALSE /\ r.scene = FALSE /\ r.snapshots = 0
        /\ r.close_buffer = None
        /\ \A b \in Buffers : r.locks[b] = 0
    BY DEF Gone
  <2> HIDE DEF r
  <2> QED
    BY <2>1, <2>2, QuietSound
<1>2. Globals' /\ outputs' = outputs /\ view' = [view EXCEPT ![v] = r]
  BY Before DEF view_create, Globals, Connected
<1> HIDE DEF r
<1> QED
  BY <1>1, <1>2, OneWindow

LEMMA handle_xwayland_associate_Keeps ==
    ASSUME IInv, NEW v \in Views, handle_xwayland_associate(v)
    PROVE  IInv'
<1> DEFINE r == [view[v] EXCEPT !.surface = TRUE]
<1>1. Sound(r)
  <2>3. view[v] \in ViewType
    BY Before
  <2>1. r \in ViewType
    BY <2>3 DEF ViewType
  <2>2. /\ r.type = view[v].type /\ r.state = view[v].state
        /\ r.closing = view[v].closing /\ r.scene = view[v].scene
        /\ r.snapshots = view[v].snapshots /\ r.close_buffer = view[v].close_buffer
        /\ r.locks = view[v].locks
    BY <2>3 DEF ViewType
  <2> HIDE DEF r
  <2> QED
    BY <2>1, <2>2, Before, SoundFields
<1>2. Globals' /\ outputs' = outputs /\ view' = [view EXCEPT ![v] = r]
  BY Before DEF handle_xwayland_associate, Globals, Connected
<1> HIDE DEF r
<1> QED
  BY <1>1, <1>2, OneWindow

LEMMA handle_commit_Keeps ==
    ASSUME IInv, NEW v \in Views, NEW b \in Buffers, handle_commit(v, b)
    PROVE  IInv'
<1>1. Globals' /\ outputs' = outputs
  BY Before DEF handle_commit, Globals, Connected
<1>2. PICK r \in IF IsX11(v) THEN {Cache(view[v], b)}
                 ELSE Bordered(Cache(view[v], b)) : view' = [view EXCEPT ![v] = r]
  BY DEF handle_commit
<1>3. Sound(Cache(view[v], b))
  BY CacheSound, Before
<1>4. Sound(r)
  BY <1>2, <1>3, BorderedSound
<1> QED
  BY <1>1, <1>2, <1>4, OneWindow

LEMMA handle_map_Keeps ==
    ASSUME IInv, NEW v \in Views, NEW b \in Buffers, NEW o \in Places,
           handle_map(v, b, o)
    PROVE  IInv'
<1> DEFINE found == IF IsX11(v) THEN view[v] ELSE Dropped(view[v])
<1>1. o \in Outputs \cup {None}
  BY DEF Places
<1>2. Globals' /\ outputs' = outputs
  BY Before, ArrangedConnected DEF handle_map, MapArranges, Globals, Connected
<1>3. Sound(found) /\ (found.type = "xdg" => ~found.closing)
  BY Before, DroppedSound DEF IsX11
<1> HIDE DEF found
<1>4. PICK r \in Animated(Opened(found, o)) :
      \E s \in Bordered(Cache(r, b)) : view' = [view EXCEPT ![v] = s]
  BY DEF handle_map, found, Opened
<1>5. PICK s \in Bordered(Cache(r, b)) : view' = [view EXCEPT ![v] = s]
  BY <1>4
<1>6. Sound(s)
  <2>1. Sound(Opened(found, o))
    BY <1>1, <1>3, OpenedSound
  <2> QED
    BY <2>1, FirstCommitSound
<1> QED
  BY <1>2, <1>5, <1>6, OneWindow

\* What is left of a window that is unmapped, before its border is drawn (s)
\* and after (t).
LEMMA UnmapSound ==
    ASSUME IInv, NEW v \in Views, NEW sized \in BOOLEAN, NEW made \in BOOLEAN,
           handle_unmap(v, sized, made)
    PROVE  \E s : /\ Sound(s)
                  /\ \E t \in IF IsX11(v) THEN {s} ELSE Bordered(s) :
                        view' = [view EXCEPT ![v] = t]
<1> DEFINE r == [view[v] EXCEPT !.state = "idle", !.output = None]
           c == [r EXCEPT !.closing = TRUE, !.closing_output = view[v].output,
                          !.scene = TRUE, !.snapshots = @ + 1]
           u == [r EXCEPT !.closing = FALSE, !.scene = FALSE]
           left == CASE sized /\ made /\ r.close_buffer # None -> Animated(c)
                     [] sized /\ ~made -> {u}
                     [] OTHER -> {r}
<1>1. /\ view[v].state = "mapped" /\ view[v].snapshots < MaxNodes
      /\ \E s \in left : \E t \in IF IsX11(v) THEN {s} ELSE Bordered(s) :
            view' = [view EXCEPT ![v] = t]
  BY DEF handle_unmap
<1>2. /\ Sound(r) /\ r.state = "idle"
      /\ r.snapshots < MaxNodes /\ (r.type = "xdg" => r.snapshots = 0)
  <2>1. r \in ViewType
    BY Before DEF ViewType
  <2>2. /\ Sound(view[v]) /\ view[v] \in ViewType /\ view[v].state = "mapped"
        /\ view[v].snapshots < MaxNodes
    BY <1>1, Before
  <2>3. /\ r.state = "idle"
        /\ r.type = view[v].type /\ r.closing = view[v].closing /\ r.scene = view[v].scene
        /\ r.snapshots = view[v].snapshots /\ r.close_buffer = view[v].close_buffer
        /\ r.locks = view[v].locks
    BY <2>2 DEF ViewType
  <2> HIDE DEF r
  <2>4. Locked(r) /\ Pictured(r)
    BY <2>2, <2>3 DEF Sound, Locked, Pictured
  <2>5. ClosesOnce(r) /\ (r.type = "xdg" => r.snapshots = 0)
    BY <2>2, <2>3 DEF Sound, ClosesOnce
  <2> QED
    BY <2>1, <2>2, <2>3, <2>4, <2>5 DEF Sound
<1>3. view[v].output \in Outputs \cup {None}
  BY Before DEF ViewType
<1> HIDE DEF r
<1>4. Sound(u)
  BY <1>2, UnpicturedSound
<1>5. Sound(c)
  BY <1>2, <1>3, CloseSound
<1> HIDE DEF c, u
<1>6. \A s \in Animated(c) : Sound(s)
  BY <1>5, AnimatedSound
<1>7. \A s \in left : Sound(s)
  <2>1. left \in {Animated(c), {u}, {r}}
    OBVIOUS
  <2> HIDE DEF left
  <2> QED
    BY <1>2, <1>4, <1>6, <2>1
<1> HIDE DEF left
<1>8. PICK s \in left :
          \E t \in IF IsX11(v) THEN {s} ELSE Bordered(s) :
             view' = [view EXCEPT ![v] = t]
  BY <1>1
<1> QED
  BY <1>7, <1>8

LEMMA handle_unmap_Keeps ==
    ASSUME IInv, NEW v \in Views, NEW sized \in BOOLEAN, NEW made \in BOOLEAN,
           handle_unmap(v, sized, made)
    PROVE  IInv'
<1>1. Globals' /\ outputs' = outputs
  BY Before, ArrangedConnected DEF handle_unmap, Globals, Connected
<1>2. PICK s : /\ Sound(s)
               /\ \E t \in IF IsX11(v) THEN {s} ELSE Bordered(s) :
                     view' = [view EXCEPT ![v] = t]
  BY UnmapSound
<1>3. PICK t \in IF IsX11(v) THEN {s} ELSE Bordered(s) :
             view' = [view EXCEPT ![v] = t]
  BY <1>2
<1>4. Sound(t)
  BY <1>2, <1>3, BorderedSound
<1> QED
  BY <1>1, <1>3, <1>4, OneWindow

LEMMA handle_xwayland_dissociate_Keeps ==
    ASSUME IInv, NEW v \in Views, handle_xwayland_dissociate(v)
    PROVE  IInv'
<1> DEFINE n == NotClosing(view[v])
           r == [n EXCEPT !.surface = FALSE]
<1>1. Globals' /\ outputs' = outputs /\ view' = [view EXCEPT ![v] = r]
  BY Before DEF handle_xwayland_dissociate, Globals, Connected
<1>2. Sound(n)
  BY NotClosingSound, Before DEF handle_xwayland_dissociate, IsX11
<1> HIDE DEF n
<1>3. Sound(r)
  <2>1. n \in ViewType
    BY <1>2 DEF Sound
  <2>2. r \in ViewType
    BY <2>1 DEF ViewType
  <2>3. /\ r.type = n.type /\ r.state = n.state /\ r.closing = n.closing /\ r.scene = n.scene
        /\ r.snapshots = n.snapshots /\ r.close_buffer = n.close_buffer /\ r.locks = n.locks
    BY <2>1 DEF ViewType
  <2> HIDE DEF r
  <2> QED
    BY <1>2, <2>2, <2>3, SoundFields
<1> HIDE DEF r
<1> QED
  BY <1>1, <1>2, <1>3, OneWindow

LEMMA view_destroy_Keeps ==
    ASSUME IInv, NEW v \in Views, view_destroy(v)
    PROVE  IInv'
<1> DEFINE locks == Dropped(view[v]).locks
           r == [Gone EXCEPT !.locks = locks]
<1>1. Globals' /\ outputs' = outputs /\ view' = [view EXCEPT ![v] = r]
  BY Before, ArrangedConnected DEF view_destroy, Globals, Connected
<1>2. locks \in [Buffers -> 0..1] /\ \A b \in Buffers : locks[b] = 0
  BY DroppedSound, Before DEF Sound, ViewType
<1> HIDE DEF locks
<1>3. Sound(r)
  <2>1. r \in ViewType
    BY <1>2, GoneSound DEF Sound, ViewType
  <2> QED
    <3>1. /\ r.closing = FALSE /\ r.scene = FALSE /\ r.snapshots = 0
          /\ r.close_buffer = None
          /\ r.locks = locks
      BY DEF Gone
    <3> HIDE DEF r
    <3> QED
      BY <1>2, <2>1, <3>1, QuietSound
<1> HIDE DEF r
<1> QED
  BY <1>1, <1>3, OneWindow

LEMMA Relocate_Keeps ==
    ASSUME IInv, NEW v \in Views, NEW o \in Places, Relocate(v, o)
    PROVE  IInv'
<1> DEFINE m == [view[v] EXCEPT !.output = o]
<1>1. Globals' /\ outputs' = outputs
  <2>1. Globals /\ UNCHANGED <<outputs, wallpaper, fade, reloads>> /\ Arranged
    BY Before DEF Relocate
  <2> QED
    BY <2>1, ArrangedConnected DEF Globals, Connected
<1>2. PICK r \in Animated(m) : view' = [view EXCEPT ![v] = r]
  BY DEF Relocate
<1>3. Sound(m)
  <2>1. Sound(view[v]) /\ o \in Outputs \cup {None}
    BY Before DEF Places
  <2> QED
    BY <2>1, MovedSound
<1> HIDE DEF m
<1>4. Sound(r)
  BY <1>2, <1>3, AnimatedSound
<1> QED
  BY <1>1, <1>2, <1>4, OneWindow

\* A fresh output fades nothing.
LEMMA NoFadeTyped == NoFade \in FadeType
  BY SceneAssumption DEF NoFade, FadeType, SceneAssumption

\* Windows that wait for an output are placed when one is plugged in.
LEMMA output_create_Keeps ==
    ASSUME IInv, NEW o \in Outputs, output_create(o)
    PROVE  IInv'
<1>1. Connected' = Connected \cup {o}
  BY DEF output_create, Connected, IInv, Globals
<1>2. Globals'
  <2>1. outputs' \in [Outputs -> {"none", "off", "on", "freed"}]
    BY DEF output_create, IInv, Globals
  <2>2. fade' \in [Outputs -> FadeType]
    BY NoFadeTyped DEF output_create, IInv, Globals
  <2> QED
    BY <2>1, <2>2, ArrangedConnected DEF output_create, IInv, Globals
<1>3. PICK waiting \in SUBSET {v \in Views : view[v].state # "gone"
                                            /\ view[v].output = None} :
        view' = [v \in Views |-> IF v \in waiting
                                 THEN [view[v] EXCEPT !.output = o] ELSE view[v]]
  BY DEF output_create
<1>4. ASSUME NEW v \in Views
      PROVE  Sound(view'[v])
  <2> DEFINE r == [view[v] EXCEPT !.output = o]
  <2>1. Sound(r)
    BY Before, MovedSound
  <2>2. view'[v] \in {r, view[v]}
    BY <1>3
  <2> HIDE DEF r
  <2> QED
    BY <1>1, <2>1, <2>2, Before
<1> QED
  BY <1>2, <1>3, <1>4, ManyWindows

\* Windows may leave the output that goes, and what closes on it is dropped.
LEMMA output_destroy_Keeps ==
    ASSUME IInv, NEW o \in Outputs, output_destroy(o)
    PROVE  IInv'
<1>1. Connected' = Connected \ {o}
  BY DEF output_destroy, Connected, IInv, Globals
<1>2. Globals'
  <2>1. outputs' \in [Outputs -> {"none", "off", "on", "freed"}]
    BY DEF output_destroy, IInv, Globals
  <2>2. fade' \in [Outputs -> FadeType]
    BY NoFadeTyped DEF output_destroy, IInv, Globals
  <2> QED
    BY <2>1, <2>2, ArrangedConnected DEF output_destroy, IInv, Globals
<1>3. ASSUME NEW v \in Views
      PROVE  Sound(view'[v])
  <2> DEFINE r == IF view[v].closing_output = o THEN Dropped(view[v]) ELSE view[v]
  <2>1. Sound(r)
    BY Before, DroppedSound
  <2>2. view'[v] \in {r, [r EXCEPT !.output = None]}
    BY DEF output_destroy
  <2> HIDE DEF r
  <2> QED
    BY <2>1, <2>2, MovedSound
<1>4. view' = [v \in Views |-> view'[v]]
  BY DEF output_destroy
<1> QED
  BY <1>2, <1>3, <1>4, ManyWindows

\* A frame moves every window that is drawn on, and the fade.
LEMMA FadedTyped ==
    ASSUME NEW f \in FadeType, NEW done \in BOOLEAN
    PROVE  Faded(f, done) \in FadeType
<1>1. CASE f.left = 0
  BY <1>1 DEF Faded
<1>2. CASE f.left # 0
  <2>1. [f EXCEPT !.node = FALSE, !.left = 0] \in FadeType
    <3>1. 0 \in 0..FadeLen
      BY SceneAssumption DEF SceneAssumption
    <3> QED
      BY <3>1 DEF FadeType
  <2>2. f.left - 1 \in 0..FadeLen
    BY <1>2, SceneAssumption DEF FadeType, SceneAssumption
  <2>3. [f EXCEPT !.left = @ - 1] \in FadeType
    BY <2>2 DEF FadeType
  <2>4. Faded(f, done) \in {[f EXCEPT !.node = FALSE, !.left = 0],
                            [f EXCEPT !.left = @ - 1]}
    BY <1>2, Zenon DEF Faded
  <2> QED
    BY <2>1, <2>3, <2>4
<1> QED
  BY <1>1, <1>2

LEMMA handle_frame_Keeps ==
    ASSUME IInv, NEW o \in Outputs, handle_frame(o)
    PROVE  IInv'
<1>1. Connected' = Connected
  BY DEF handle_frame, Connected
<1>2. PICK done \in SUBSET (Views \cup {o}) :
        /\ view' = [v \in Views |-> IF Drawn(v, o)
                                    THEN FrameUpdate(view[v], v \in done)
                                    ELSE view[v]]
        /\ fade' = [fade EXCEPT ![o] = Faded(@, o \in done)]
  BY DEF handle_frame
<1>3. Globals'
  <2> DEFINE over == o \in done
  <2>1. fade[o] \in FadeType /\ over \in BOOLEAN
    BY DEF IInv, Globals
  <2>2. fade' = [fade EXCEPT ![o] = Faded(fade[o], over)]
    BY <1>2
  <2> HIDE DEF over
  <2>3. fade' \in [Outputs -> FadeType]
    BY <2>1, <2>2, FadedTyped DEF IInv, Globals
  <2>4. frame' \subseteq Connected
    BY DEF handle_frame, IInv, Globals
  <2> QED
    BY <1>1, <2>3, <2>4 DEF handle_frame, IInv, Globals
<1>4. ASSUME NEW v \in Views
      PROVE  Sound(view'[v])
  <2> DEFINE over == v \in done
             r == FrameUpdate(view[v], over)
  <2>1. over \in BOOLEAN
    OBVIOUS
  <2>2. view'[v] = IF Drawn(v, o) THEN r ELSE view[v]
    BY <1>2
  <2> HIDE DEF over
  <2>3. Sound(r)
    BY <2>1, Before, FrameUpdateSound
  <2> HIDE DEF r
  <2> QED
    BY <1>1, <2>2, <2>3, Before
<1> QED
  BY <1>2, <1>3, <1>4, ManyWindows

LEMMA Damage_Keeps ==
    ASSUME IInv, NEW o \in Outputs, Damage(o)
    PROVE  IInv'
<1>1. Globals' /\ Connected' = Connected
  BY DEF Damage, IInv, Globals, Connected
<1> QED
  BY <1>1, ManyWindows, Before DEF Damage, IInv

\* Switching outputs on and off leaves the same ones plugged in.
LEMMA SwitchedConnected ==
    ASSUME Globals, Switched
    PROVE  outputs' \in [Outputs -> {"none", "off", "on", "freed"}] /\ Connected' = Connected
<1>1. PICK on \in SUBSET Connected :
        outputs' = [o \in Outputs |-> CASE o \in on        -> "on"
                                        [] o \in Connected \ on -> "off"
                                        [] OTHER           -> outputs[o]]
  BY DEF Switched
<1>2. \A o \in Outputs : /\ o \in on => outputs'[o] = "on"
                         /\ o \in Connected \ on => outputs'[o] = "off"
                         /\ o \notin Connected => outputs'[o] = outputs[o]
  BY <1>1
<1>3. \A o \in Outputs : /\ outputs[o] \in {"none", "off", "on", "freed"}
                         /\ o \in Connected => o \in on \/ o \in Connected \ on
  BY DEF Globals
<1>4. \A o \in Outputs : outputs'[o] \in {"none", "off", "on", "freed"}
  BY <1>2, <1>3
<1>5. \A o \in Outputs : outputs'[o] \in {"off", "on"} <=> outputs[o] \in {"off", "on"}
  BY <1>2, <1>3 DEF Connected
<1>6. Connected' = Connected
  BY <1>5 DEF Connected
<1> QED
  BY <1>1, <1>4, <1>6

LEMMA handle_output_manager_apply_Keeps ==
    ASSUME IInv, handle_output_manager_apply
    PROVE  IInv'
<1>1. Globals' /\ Connected' = Connected
  <2>1. Globals /\ Switched
    BY DEF handle_output_manager_apply, IInv
  <2> QED
    BY <2>1, SwitchedConnected, ArrangedConnected
       DEF handle_output_manager_apply, Globals
<1> QED
  BY <1>1, ManyWindows, Before DEF handle_output_manager_apply, IInv

LEMMA reload_config_Keeps ==
    ASSUME IInv, NEW there \in BOOLEAN, NEW made \in SUBSET Connected,
           NEW frames \in {0, FadeLen}, reload_config(there, made, frames)
    PROVE  IInv'
<1>1. outputs' \in [Outputs -> {"none", "off", "on", "freed"}] /\ Connected' = Connected
  BY SwitchedConnected DEF reload_config, IInv
<1>2. fade' \in [Outputs -> FadeType]
  <2> DEFINE begun == [node |-> TRUE, left |-> frames, instant |-> frames = 0]
             cut(o) == [fade[o] EXCEPT !.node = FALSE]
  <2>1. begun \in FadeType
    BY SceneAssumption DEF FadeType, SceneAssumption
  <2>2. \A o \in Outputs : fade[o] \in FadeType /\ cut(o) \in FadeType
    BY DEF IInv, Globals, FadeType
  <2>3. fade' = [o \in Outputs |->
                   IF ~(wallpaper /\ there) \/ o \notin Connected THEN fade[o]
                   ELSE IF o \in made THEN begun ELSE cut(o)]
    BY DEF reload_config
  <2> HIDE DEF begun, cut
  <2> QED
    BY <2>1, <2>2, <2>3
<1>3. Globals'
  <2>1. reloads' \in 0..MaxReloads /\ wallpaper' \in BOOLEAN
    BY SceneAssumption DEF reload_config, IInv, Globals, SceneAssumption
  <2>2. frame' \subseteq Connected'
    BY ArrangedConnected DEF reload_config
  <2> QED
    BY <1>1, <1>2, <2>1, <2>2 DEF Globals
<1>4. PICK on \in SUBSET Views :
        view' = [v \in Views |->
                   [view[v] EXCEPT !.border = v \in on /\ (view[v].closing
                                            \/ view[v].state = "mapped")]]
  BY DEF reload_config
<1>5. ASSUME NEW v \in Views
      PROVE  Sound(view'[v])
  <2> DEFINE border == v \in on /\ (view[v].closing \/ view[v].state = "mapped")
  <2>1. border \in BOOLEAN
    OBVIOUS
  <2>2. view'[v] = [view[v] EXCEPT !.border = border]
    BY <1>4
  <2> HIDE DEF border
  <2> QED
    BY <1>1, <2>1, <2>2, Before, BorderSound
<1> QED
  BY <1>3, <1>4, <1>5, ManyWindows
-----------------------------------------------------------------------------
(* The specification                                                       *)

LEMMA StutterKeeps == IInv /\ UNCHANGED vars => IInv'
<1> SUFFICES ASSUME IInv, UNCHANGED vars PROVE IInv'
  OBVIOUS
<1>1. Globals' /\ Connected' = Connected
  BY DEF vars, IInv, Globals, Connected
<1> QED
  BY <1>1, ManyWindows, Before DEF vars, IInv

LEMMA NextKeeps == IInv /\ Next => IInv'
<1> SUFFICES ASSUME IInv, Next PROVE IInv'
  OBVIOUS
<1>1. CASE \E v \in Views :
             \/ \E type \in {"xdg", "x11"} : view_create(v, type)
             \/ view_destroy(v)
             \/ handle_xwayland_associate(v) \/ handle_xwayland_dissociate(v)
  BY <1>1, view_create_Keeps, view_destroy_Keeps,
     handle_xwayland_associate_Keeps, handle_xwayland_dissociate_Keeps
<1>2. CASE \E v \in Views, b \in Buffers :
             \/ handle_commit(v, b)
             \/ \E o \in Places : handle_map(v, b, o)
  BY <1>2, handle_commit_Keeps, handle_map_Keeps
<1>3. CASE \E v \in Views :
             \/ \E sized, made \in BOOLEAN : handle_unmap(v, sized, made)
             \/ \E o \in Places : Relocate(v, o)
  BY <1>3, handle_unmap_Keeps, Relocate_Keeps
<1>4. CASE \E o \in Outputs :
             output_create(o) \/ output_destroy(o) \/ handle_frame(o) \/ Damage(o)
  BY <1>4, output_create_Keeps, output_destroy_Keeps, handle_frame_Keeps,
     Damage_Keeps
<1>5. CASE handle_output_manager_apply
  BY <1>5, handle_output_manager_apply_Keeps
<1>6. CASE \E there \in BOOLEAN, made \in SUBSET Connected, frames \in {0, FadeLen} :
             reload_config(there, made, frames)
  BY <1>6, reload_config_Keeps
<1> QED
  BY <1>1, <1>2, <1>3, <1>4, <1>5, <1>6 DEF Next

(***************************************************************************)
(* The inductive invariant: of every window it says what is locked, what   *)
(* is pictured and when it closes.  They hang together: a closing that     *)
(* ends gives back the buffer and takes away the picture that              *)
(* closing_scene points to, so there has to be one.                        *)
(***************************************************************************)
THEOREM Inductive == Spec => []IInv
<1>1. Init => IInv
  BY InitHolds
<1>2. IInv /\ [Next]_vars => IInv'
  BY NextKeeps, StutterKeeps
<1> QED
  BY <1>1, <1>2, PTL DEF Spec

\* Every variable keeps its type, and only a connected output has a frame to come.
THEOREM TypeCorrect == Spec => []TypeOK
<1>1. IInv => TypeOK
  BY DEF IInv, Globals, TypeOK
<1> QED
  BY <1>1, Inductive, PTL

(***************************************************************************)
(* Whatever commits, maps, frames, reloads and unplugged outputs do, and   *)
(* in whatever order, no client buffer stays locked that no window has     *)
(* cached, and none is unlocked twice (view_cache_buffer, and the eight    *)
(* places of view.c and output.c that give a buffer back).                 *)
(***************************************************************************)
THEOREM BuffersLockedOnce == Spec => []BufferLockedOnce
<1>1. IInv => BufferLockedOnce
  BY DEF IInv, Sound, Locked, BufferLockedOnce
<1> QED
  BY <1>1, Inductive, PTL

(***************************************************************************)
(* The picture of an xdg window that closes is there while it closes and   *)
(* only then, for any number of windows that close and come back.          *)
(***************************************************************************)
THEOREM SnapshotsGo == Spec => []OneSnapshot
<1>1. IInv => OneSnapshot
  BY DEF IInv, Sound, ClosesOnce, OneSnapshot
<1> QED
  BY <1>1, Inductive, PTL
-----------------------------------------------------------------------------
(* The border goes with the window                                         *)

\* No border without a window or a closing.
Tight(r) == r.border => r.state = "mapped" \/ r.closing

\* Bordered draws a border only where there is something to frame.
LEMMA BorderedTight ==
    ASSUME NEW r, Sound(r), NEW s \in Bordered(r)
    PROVE  Tight(s)
<1>1. PICK on \in IF r.state = "mapped" \/ r.closing THEN BOOLEAN ELSE {FALSE} :
            s = [r EXCEPT !.border = on]
  BY DEF Bordered
<1>2. s.state = r.state /\ s.closing = r.closing /\ s.border = on
  BY <1>1 DEF Sound, ViewType
<1> QED
  BY <1>1, <1>2 DEF Tight

\* A frame that ends a closing hides the border; another leaves it alone.
LEMMA FrameUpdateTight ==
    ASSUME NEW r, Sound(r), NEW done \in BOOLEAN
    PROVE  LET s == FrameUpdate(r, done)
           IN  \/ ~s.border
               \/ s.state = r.state /\ s.closing = r.closing /\ s.border = r.border
<1>1. CASE r.closing /\ r.left = 0
  <2>1. Dropped(r) \in ViewType
    BY DroppedSound DEF Sound
  <2> QED
    BY <1>1, <2>1 DEF FrameUpdate, ViewType
<1>2. CASE ~(r.closing /\ r.left = 0)
  BY <1>2 DEF FrameUpdate, Sound, ViewType
<1> QED
  BY <1>1, <1>2

\* What BorderGoes says of one step.
BorderStep ==
    \A v \in Views : ~IsX11(v) /\ Unframed(v)' /\ view[v].border'
        => \/ Unframed(v) /\ view[v].border
           \/ \E o \in Connected : o \notin Connected'

\* A window as it was, or one whose border has something to frame.
Goes(v) ==
    \/ view'[v] = view[v]
    \/ IsX11(v)
    \/ Tight(view'[v])
    \/ /\ view'[v].state = view[v].state /\ view'[v].closing = view[v].closing
       /\ view'[v].border = view[v].border

LEMMA GoesBorderStep == (\A v \in Views : Goes(v)) => BorderStep
  BY DEF Goes, BorderStep, Unframed, Tight, IsX11

\* A step that changes one window is about that window.
LEMMA OneGoes ==
    ASSUME IInv, NEW v \in Views, NEW r, view' = [view EXCEPT ![v] = r],
           IsX11(v) \/ Tight(r)
    PROVE  BorderStep
<1>1. ASSUME NEW w \in Views PROVE Goes(w)
  BY DEF Goes, IInv
<1> QED
  BY <1>1, GoesBorderStep

LEMMA CreatedGoes ==
    ASSUME IInv, NEW v \in Views, NEW type \in {"xdg", "x11"},
           view_create(v, type) \/ view_destroy(v)
    PROVE  BorderStep
<1>1. ~Gone.border
  BY DEF Gone
<1>2. CASE view_create(v, type)
  <2> DEFINE r == [Gone EXCEPT !.type = type, !.state = "idle",
                               !.surface = type = "xdg"]
  <2>1. view' = [view EXCEPT ![v] = r]
    BY <1>2 DEF view_create
  <2>2. Tight(r)
    BY <1>1 DEF Tight, Gone
  <2> HIDE DEF r
  <2> QED
    BY <2>1, <2>2, OneGoes
<1>3. CASE view_destroy(v)
  <2> DEFINE r == [Gone EXCEPT !.locks = Dropped(view[v]).locks]
  <2>1. view' = [view EXCEPT ![v] = r]
    BY <1>3 DEF view_destroy
  <2>2. Tight(r)
    BY <1>1 DEF Tight, Gone
  <2> HIDE DEF r
  <2> QED
    BY <2>1, <2>2, OneGoes
<1> QED
  BY <1>2, <1>3

LEMMA SurfaceGoes ==
    ASSUME IInv, NEW v \in Views,
           handle_xwayland_associate(v) \/ handle_xwayland_dissociate(v)
    PROVE  BorderStep
<1>1. IsX11(v)
  BY DEF handle_xwayland_associate, handle_xwayland_dissociate
<1>2. \E r : view' = [view EXCEPT ![v] = r]
  BY DEF handle_xwayland_associate, handle_xwayland_dissociate
<1> QED
  BY <1>1, <1>2, OneGoes

LEMMA CommitGoes ==
    ASSUME IInv, NEW v \in Views, NEW b \in Buffers, handle_commit(v, b)
    PROVE  BorderStep
<1>1. PICK r \in IF IsX11(v) THEN {Cache(view[v], b)}
                 ELSE Bordered(Cache(view[v], b)) : view' = [view EXCEPT ![v] = r]
  BY DEF handle_commit
<1>2. IsX11(v) \/ Tight(r)
  BY <1>1, Before, CacheSound, BorderedTight
<1> QED
  BY <1>1, <1>2, OneGoes

LEMMA MapGoes ==
    ASSUME IInv, NEW v \in Views, NEW b \in Buffers, NEW o \in Places,
           handle_map(v, b, o)
    PROVE  BorderStep
<1> DEFINE found == IF IsX11(v) THEN view[v] ELSE Dropped(view[v])
<1>1. o \in Outputs \cup {None}
  BY DEF Places
<1>2. Sound(found) /\ (found.type = "xdg" => ~found.closing)
  BY Before, DroppedSound DEF IsX11
<1> HIDE DEF found
<1>3. PICK r \in Animated(Opened(found, o)) :
      \E s \in Bordered(Cache(r, b)) : view' = [view EXCEPT ![v] = s]
  BY DEF handle_map, found, Opened
<1>4. PICK s \in Bordered(Cache(r, b)) : view' = [view EXCEPT ![v] = s]
  BY <1>3
<1>5. Sound(Opened(found, o))
  BY <1>1, <1>2, OpenedSound
<1>6. Sound(Cache(r, b))
  BY <1>5, AnimatedSound, CacheSound
<1> QED
  BY <1>4, <1>6, BorderedTight, OneGoes

LEMMA RelocateGoes ==
    ASSUME IInv, NEW v \in Views, NEW o \in Places, Relocate(v, o)
    PROVE  BorderStep
<1> DEFINE m == [view[v] EXCEPT !.output = o]
<1>1. PICK r \in Animated(m) : view' = [view EXCEPT ![v] = r]
  BY DEF Relocate
<1>2. Sound(m) /\ m.state = view[v].state
  BY Before, MovedSound DEF Places
<1> HIDE DEF m
<1>3. r.state = "mapped"
  BY <1>1, <1>2, AnimatedSound DEF Relocate
<1> QED
  BY <1>1, <1>3, OneGoes DEF Tight

LEMMA FrameGoes ==
    ASSUME IInv, NEW o \in Outputs, handle_frame(o)
    PROVE  BorderStep
<1>1. PICK done \in SUBSET (Views \cup {o}) :
        view' = [v \in Views |-> IF Drawn(v, o)
                                 THEN FrameUpdate(view[v], v \in done)
                                 ELSE view[v]]
  BY DEF handle_frame
<1>2. ASSUME NEW v \in Views PROVE Goes(v)
  <2> DEFINE over == v \in done
  <2>1. over \in BOOLEAN
    OBVIOUS
  <2>2. view'[v] \in {FrameUpdate(view[v], over), view[v]}
    BY <1>1
  <2> HIDE DEF over
  <2> QED
    BY <2>1, <2>2, Before, FrameUpdateTight DEF Goes, Tight
<1> QED
  BY <1>2, GoesBorderStep

LEMMA OutputGoes ==
    ASSUME IInv, NEW o \in Outputs, output_create(o) \/ output_destroy(o)
    PROVE  BorderStep
<1>1. CASE output_create(o)
  <2>1. ASSUME NEW v \in Views PROVE Goes(v)
    <3>1. view'[v] \in {[view[v] EXCEPT !.output = o], view[v]}
      BY <1>1 DEF output_create
    <3>2. view[v] \in ViewType
      BY Before
    <3> QED
      BY <3>1, <3>2 DEF Goes, ViewType
  <2> QED
    BY <2>1, GoesBorderStep
<1>2. CASE output_destroy(o)
  <2>1. o \in Connected /\ o \notin Connected'
    BY <1>2 DEF output_destroy, Connected, IInv, Globals
  <2> QED
    BY <2>1 DEF BorderStep
<1> QED
  BY <1>1, <1>2

LEMMA ReloadGoes ==
    ASSUME IInv, NEW there \in BOOLEAN, NEW made \in SUBSET Connected,
           NEW frames \in {0, FadeLen}, reload_config(there, made, frames)
    PROVE  BorderStep
<1>1. PICK on \in SUBSET Views :
        view' = [v \in Views |->
                   [view[v] EXCEPT !.border = v \in on /\ (view[v].closing
                                            \/ view[v].state = "mapped")]]
  BY DEF reload_config
<1>2. ASSUME NEW v \in Views PROVE Goes(v)
  <2> DEFINE border == v \in on /\ (view[v].closing \/ view[v].state = "mapped")
  <2>1. view'[v] = [view[v] EXCEPT !.border = border]
    BY <1>1
  <2>2. border => view[v].closing \/ view[v].state = "mapped"
    OBVIOUS
  <2> HIDE DEF border
  <2>3. /\ view'[v].border = border /\ view'[v].state = view[v].state
        /\ view'[v].closing = view[v].closing
    BY <2>1, Before DEF ViewType
  <2> QED
    BY <2>2, <2>3 DEF Goes, Tight
<1> QED
  BY <1>2, GoesBorderStep

LEMMA UnmapGoes ==
    ASSUME IInv, NEW v \in Views, NEW sized \in BOOLEAN, NEW made \in BOOLEAN,
           handle_unmap(v, sized, made)
    PROVE  BorderStep
<1>1. PICK s : /\ Sound(s)
               /\ \E t \in IF IsX11(v) THEN {s} ELSE Bordered(s) :
                     view' = [view EXCEPT ![v] = t]
  BY UnmapSound
<1>2. PICK t \in IF IsX11(v) THEN {s} ELSE Bordered(s) :
             view' = [view EXCEPT ![v] = t]
  BY <1>1
<1>3. IsX11(v) \/ Tight(t)
  BY <1>1, <1>2, BorderedTight
<1> QED
  BY <1>2, <1>3, OneGoes

LEMMA NextGoes ==
    ASSUME IInv, [Next]_vars
    PROVE  BorderStep
<1>1. CASE \E v \in Views :
             \/ \E type \in {"xdg", "x11"} : view_create(v, type)
             \/ view_destroy(v)
             \/ handle_xwayland_associate(v) \/ handle_xwayland_dissociate(v)
  BY <1>1, CreatedGoes, SurfaceGoes
<1>2. CASE \E v \in Views, b \in Buffers :
             \/ handle_commit(v, b)
             \/ \E o \in Places : handle_map(v, b, o)
  BY <1>2, CommitGoes, MapGoes
<1>3. CASE \E v \in Views :
             \/ \E sized, made \in BOOLEAN : handle_unmap(v, sized, made)
             \/ \E o \in Places : Relocate(v, o)
  BY <1>3, UnmapGoes, RelocateGoes
<1>4. CASE \E o \in Outputs : output_create(o) \/ output_destroy(o) \/ handle_frame(o)
  BY <1>4, OutputGoes, FrameGoes
<1>5. CASE \/ \E o \in Outputs : Damage(o)
           \/ handle_output_manager_apply
           \/ UNCHANGED vars
  BY <1>5, GoesBorderStep DEF Goes, Damage, handle_output_manager_apply, vars
<1>6. CASE \E there \in BOOLEAN, made \in SUBSET Connected, frames \in {0, FadeLen} :
             reload_config(there, made, frames)
  BY <1>6, ReloadGoes
<1> QED
  BY <1>1, <1>2, <1>3, <1>4, <1>5, <1>6 DEF Next

(***************************************************************************)
(* No step leaves a border around nothing, but for an output unplugged     *)
(* under a closing window (view_update_border and its callers, and the     *)
(* end of a closing in view_frame_update).                                 *)
(***************************************************************************)
THEOREM BordersGo == Spec => BorderGoes
<1>1. IInv /\ [Next]_vars => [BorderStep]_vars
  BY NextGoes
<1>2. Spec => [][BorderStep]_vars
  BY <1>1, Inductive, PTL DEF Spec
<1> QED
  BY <1>2 DEF BorderGoes, BorderStep
=============================================================================
