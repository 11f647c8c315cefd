------------------------------- MODULE DamageFrames -------------------------------
(* From a frame to the display (native_damage_presentation.cpp): what changed since *)
(* the previous command buffer becomes a few rectangles, the commands that meet a   *)
(* rectangle are repeated under its scissor, and the buffer is presented through a  *)
(* ring of frames in flight, on the images of a swapchain taken in turn.          *)
(*                                                                            *)
(* A command is what it draws (its checksum) and its clip.  Each image keeps what *)
(* was drawn into it; of a cell it is known which commands were painted there     *)
(* since it was cleared, in their order, so that painting twice shows.  One        *)
(* thread builds and submits, counts its generations up, and builds against one    *)
(* of the last buffers it has kept.  Coordinates do not overflow; tickets and byte *)
(* budgets are left out, an allocation that fails is a build that returns nothing. *)
EXTENDS Integers, Sequences, SequencesExt, FiniteSets, FiniteSetsExt

CONSTANTS Sizes,        \* the width and height of each surface
          Shapes,       \* the rectangles a command draws, by its checksum
          Pictures,     \* the frames: sequences of commands
          Exposures,    \* rectangles the window system may expose
          Policies,     \* policies of the caller
          KeepsUnshown, \* a buffer that was not presented is compared with as well
          ImageCount,   \* the images the surface is configured with
          MaxFrames, MaxGeneration

DamageAssumption ==
    /\ KeepsUnshown \in BOOLEAN
    /\ ImageCount \in Nat \ {0} /\ MaxFrames \in Nat \ {0} /\ MaxGeneration \in Nat
    /\ \A p \in Policies : p.maximum_rects > 0 /\ p.threshold \in 0..1000

VARIABLES made,         \* command generations the caller has given out
          buffer,       \* the buffer that was built and not yet submitted
          shown, older, \* the buffer shown last, and one the caller kept before it
          exposed,      \* exposures no build has been told of
          surface,      \* the surface the backend is configured for, 0: none
          images,       \* the commands painted in each cell of each image
          nextImage,    \* the image that is acquired next
          front,        \* the image that was presented last, 0: none since configured
          ring, nextFence, completed, submitted

caller == <<made, buffer, shown, older, exposed>>
chain == <<surface, images, nextImage, front>>
timeline == <<nextFence, completed, submitted>>
vars == <<caller, chain, ring, timeline>>

Surfaces == DOMAIN Sizes
Slots == 1..MaxFrames
Images == 1..ImageCount
NoRect == [x |-> 0, y |-> 0, w |-> 0, h |-> 0]
NoFrameShown == [surface |-> 0, picture |-> <<>>]
NoBuffer == [generation |-> 0, surface |-> 0, picture |-> <<>>,
             damage |-> <<>>, draws |-> <<>>, compared |-> NoFrameShown]
NoFrame == [fence |-> 0, surface |-> 0]
Junk == <<"junk">>

-----------------------------------------------------------------------------
(* Rectangles.                                                               *)

Empty(r) == r.w = 0 \/ r.h = 0
Between(x, y, right, bottom) == [x |-> x, y |-> y, w |-> right - x, h |-> bottom - y]
Larger(i, j) == IF i > j THEN i ELSE j
Smaller(i, j) == IF i < j THEN i ELSE j

Intersection(r, q) ==
    LET x == Larger(r.x, q.x)
        y == Larger(r.y, q.y)
        right == Smaller(r.x + r.w, q.x + q.w)
        bottom == Smaller(r.y + r.h, q.y + q.h)
    IN IF x >= right \/ y >= bottom THEN NoRect ELSE Between(x, y, right, bottom)

Hull(r, q) == Between(Smaller(r.x, q.x), Smaller(r.y, q.y),
                      Larger(r.x + r.w, q.x + q.w), Larger(r.y + r.h, q.y + q.h))

Overlap(r, q) == /\ r.x < q.x + q.w /\ q.x < r.x + r.w
                 /\ r.y < q.y + q.h /\ q.y < r.y + r.h

OverlapOrTouch(r, q, touching) ==
    IF touching
    THEN /\ r.x <= q.x + q.w /\ q.x <= r.x + r.w
         /\ r.y <= q.y + q.h /\ q.y <= r.y + r.h
    ELSE Overlap(r, q)

SurfaceRect(s) == [x |-> 0, y |-> 0, w |-> Sizes[s][1], h |-> Sizes[s][2]]
Area(r) == r.w * r.h
Cells(s) == (0..Sizes[s][1] - 1) \X (0..Sizes[s][2] - 1)
Inside(c, r) == c[1] \in r.x..r.x + r.w - 1 /\ c[2] \in r.y..r.y + r.h - 1

-----------------------------------------------------------------------------
(* The damage.                                                               *)

Bounds(command, s) ==
    LET hull == IF Shapes[command.sum] = <<>> THEN NoRect
                ELSE FoldLeft(Hull, Head(Shapes[command.sum]), Tail(Shapes[command.sum]))
    IN IF Empty(hull) THEN hull
       ELSE Intersection(Intersection(hull, command.clip), SurfaceRect(s))

Footprints(picture, s) ==
    [i \in DOMAIN picture |-> [sum |-> picture[i].sum, bounds |-> Bounds(picture[i], s)]]

\* A rectangle takes in what it meets, and then what the union meets.
RECURSIVE Absorb(_, _, _)
Absorb(rects, rect, touching) ==
    LET met == {i \in DOMAIN rects : OverlapOrTouch(rects[i], rect, touching)}
    IN IF met = {} THEN Append(rects, rect)
       ELSE Absorb(RemoveAt(rects, Min(met)), Hull(rects[Min(met)], rect), touching)

\* <<>> of an ok list is no damage; a list that grew too long is refused.
AddDamage(list, rect, s, policy) ==
    LET clipped == Intersection(rect, SurfaceRect(s))
        merged == Absorb(list.rects, clipped, policy.touching)
        collapsed == FoldLeft(Hull, Last(merged), Front(merged))
    IN IF ~list.ok \/ Empty(clipped) THEN list
       ELSE IF Len(merged) <= policy.maximum_rects THEN [list EXCEPT !.rects = merged]
       ELSE IF policy.collapse THEN [list EXCEPT !.rects = <<collapsed>>]
       ELSE [list EXCEPT !.ok = FALSE]

\* As written by mistake: any buffer of the surface will do.
ForceFullOnResize(previous, s, generation) == previous.surface # s

ForceFull(previous, s, generation) ==
    previous.surface # s \/ previous.generation + 1 # generation

\* What a changed, added or removed command covered and covers now.
ChangedAt(i, now, before) ==
    LET was == IF i \in DOMAIN before THEN <<before[i].bounds>> ELSE <<>>
        is == IF i \in DOMAIN now THEN <<now[i].bounds>> ELSE <<>>
        same == i \in DOMAIN before /\ i \in DOMAIN now /\ before[i] = now[i]
    IN IF same THEN <<>> ELSE was \o is

Changed(now, before) ==
    FlattenSeq([i \in 1..Larger(Len(now), Len(before)) |-> ChangedAt(i, now, before)])

\* The areas are small enough for the rounded threshold to be written directly.
ThresholdReached(rects, s, permille) ==
    LET total == FoldLeft(LAMBDA sum, r : sum + Area(r), 0, rects)
        threshold == ((Area(SurfaceRect(s)) * permille) + 999) \div 1000
    IN permille # 0 /\ total >= threshold

Draws(rect, now) == SelectSeq([i \in DOMAIN now |-> i],
    LAMBDA i : ~Empty(now[i].bounds) /\ Overlap(now[i].bounds, rect))

Damage(picture, s, generation, previous, told, policy) ==
    LET candidates ==
            (IF policy.full \/ ForceFull(previous, s, generation) THEN <<SurfaceRect(s)>>
             ELSE Changed(Footprints(picture, s), Footprints(previous.picture, s)))
            \o SetToSeq(told)
    IN FoldLeft(LAMBDA list, rect : AddDamage(list, rect, s, policy),
                [ok |-> TRUE, rects |-> <<>>], candidates)

\* A refused build returns nothing; the caller comes again.
Build(picture, s, previous, policy) ==
    LET generation == made + 1
        list == Damage(picture, s, generation, previous, exposed, policy)
        rects == IF ThresholdReached(list.rects, s, policy.threshold)
                 THEN <<SurfaceRect(s)>> ELSE list.rects
    IN /\ buffer = NoBuffer
       /\ made < MaxGeneration
       /\ list.ok
       /\ made' = generation
       /\ buffer' = [generation |-> generation, surface |-> s, picture |-> picture,
                     damage |-> rects,
                     draws |-> [d \in DOMAIN rects |->
                                   Draws(rects[d], Footprints(picture, s))],
                     compared |-> [surface |-> previous.surface,
                                   picture |-> previous.picture]]
       /\ exposed' = {}
       /\ UNCHANGED <<shown, older, chain, ring, timeline>>

-----------------------------------------------------------------------------
(* The presentation.                                                         *)

InFlight == {i \in Slots : ring[i].fence # 0}

Kept == [buffer EXCEPT !.damage = <<>>, !.draws = <<>>, !.compared = NoFrameShown]

Shows == /\ shown' = Kept
         /\ older' = shown
         /\ buffer' = NoBuffer
         /\ UNCHANGED <<made, exposed>>

NotShown == /\ buffer' = NoBuffer
            /\ older' = IF KeepsUnshown THEN Kept ELSE older
            /\ UNCHANGED <<made, shown, exposed>>

SkipNoDamage ==
    /\ buffer # NoBuffer /\ buffer.damage = <<>>
    /\ Shows
    /\ UNCHANGED <<chain, ring, timeline>>

\* A full ring drops the frame; where it refuses it, the buffer may also stay
\* with the caller, who tries again (a step that changes nothing).
Backpressure ==
    /\ buffer # NoBuffer /\ buffer.damage # <<>>
    /\ Cardinality(InFlight) = MaxFrames
    /\ NotShown
    /\ UNCHANGED <<chain, ring, timeline>>

MayConfigure == surface = buffer.surface \/ InFlight = {}

RefusedToConfigure ==
    /\ buffer # NoBuffer /\ buffer.damage # <<>>
    /\ Cardinality(InFlight) < MaxFrames
    /\ surface # buffer.surface
    /\ NotShown
    /\ UNCHANGED <<chain, ring, timeline>>

\* A surface that is configured anew has new images, of which nothing is known.
Junked(s) == [c \in Cells(s) |-> Junk]
Ready == IF surface = buffer.surface THEN images
         ELSE [i \in Images |-> Junked(buffer.surface)]
Acquired == IF surface = buffer.surface THEN nextImage ELSE 1
Presented == IF surface = buffer.surface THEN front ELSE 0

MayAcquire == /\ buffer # NoBuffer /\ buffer.damage # <<>>
              /\ Cardinality(InFlight) < MaxFrames
              /\ MayConfigure

\* No image is ready, the surface is out of date, the device is lost: the surface
\* stays configured.
NotAcquired ==
    /\ MayAcquire
    /\ surface' = buffer.surface
    /\ images' = Ready /\ nextImage' = Acquired /\ front' = Presented
    /\ NotShown
    /\ UNCHANGED <<ring, timeline>>

Covers(command, c) ==
    /\ Inside(c, command.clip)
    /\ \E i \in DOMAIN Shapes[command.sum] : Inside(c, Shapes[command.sum][i])

\* The pass clears what is damaged; every scissor then adds its commands.
Painted(c) ==
    LET under(d) == IF ~Inside(c, buffer.damage[d]) THEN <<>>
                    ELSE SelectSeq(buffer.draws[d], LAMBDA i : Covers(buffer.picture[i], c))
        indices == FlattenSeq([d \in DOMAIN buffer.damage |-> under(d)])
    IN [n \in DOMAIN indices |-> buffer.picture[indices[n]].sum]

Damaged(c) == \E d \in DOMAIN buffer.damage : Inside(c, buffer.damage[d])

Repainted == [c \in Cells(buffer.surface) |->
                 IF Damaged(c) THEN Painted(c) ELSE Ready[Acquired][c]]

\* The image in turn is acquired, and holds this afterwards.
Draw(picture) ==
    /\ surface' = buffer.surface
    /\ images' = [Ready EXCEPT ![Acquired] = picture]
    /\ nextImage' = (Acquired % ImageCount) + 1

\* The image is of another surface, the encoding fails before or amid its commands,
\* or the driver finds the surface out of date: it is not presented.
NotPresented ==
    /\ MayAcquire
    /\ \E picture \in {Ready[Acquired], Junked(buffer.surface)} : Draw(picture)
    /\ front' = Presented
    /\ NotShown
    /\ UNCHANGED <<ring, timeline>>

\* The fence of the driver does not follow the last: the image is on the display,
\* and the caller is told that it is not.
RefusedAfterPresent ==
    /\ MayAcquire
    /\ Draw(Repainted)
    /\ front' = Acquired
    /\ NotShown
    /\ UNCHANGED <<ring, timeline>>

FreeSlot == Min({i \in Slots : ring[i].fence = 0})

Present ==
    /\ MayAcquire
    /\ Draw(Repainted)
    /\ front' = Acquired
    /\ ring' = [ring EXCEPT ![FreeSlot] = [fence |-> nextFence, surface |-> buffer.surface]]
    /\ nextFence' = nextFence + 1
    /\ submitted' = nextFence
    /\ Shows
    /\ UNCHANGED completed

\* A value outside the submitted timeline is refused.
RetireCompleted(value) ==
    /\ value \in completed..submitted
    /\ completed' = value
    /\ ring' = [i \in Slots |-> IF ring[i].fence <= value THEN NoFrame ELSE ring[i]]
    /\ UNCHANGED <<caller, chain, nextFence, submitted>>

NoImages == [i \in Images |-> [c \in {} |-> Junk]]

\* The caller forgets what it compared with, and has no buffer in hand.
Clear ==
    /\ InFlight = {}
    /\ buffer = NoBuffer
    /\ surface' = 0
    /\ images' = NoImages /\ nextImage' = 1 /\ front' = 0
    /\ completed' = 0 /\ submitted' = 0
    /\ shown' = NoBuffer /\ older' = NoBuffer
    /\ UNCHANGED <<made, buffer, exposed, ring, nextFence>>

\* The window system spoils a part of the display, whatever image is on it, and
\* says so.
Expose(rect) ==
    /\ surface # 0
    /\ rect \notin exposed
    /\ exposed' = exposed \cup {rect}
    /\ images' = [i \in Images |->
                     [c \in Cells(surface) |-> IF Inside(c, rect) THEN Junk ELSE images[i][c]]]
    /\ UNCHANGED <<made, buffer, shown, older, surface, nextImage, front, ring, timeline>>

Submit == \/ SkipNoDamage \/ Backpressure \/ RefusedToConfigure \/ NotAcquired
          \/ NotPresented \/ RefusedAfterPresent \/ Present

Init ==
    /\ made = 0 /\ buffer = NoBuffer /\ shown = NoBuffer /\ older = NoBuffer
    /\ exposed = {}
    /\ surface = 0 /\ images = NoImages /\ nextImage = 1 /\ front = 0
    /\ ring = [i \in Slots |-> NoFrame]
    /\ nextFence = 1 /\ completed = 0 /\ submitted = 0

Next ==
    \/ \E picture \in Pictures, s \in Surfaces, policy \in Policies :
          \E previous \in {NoBuffer, shown, older} : Build(picture, s, previous, policy)
    \/ Submit
    \/ \E value \in 0..MaxGeneration : RetireCompleted(value)
    \/ Clear
    \/ \E rect \in Exposures : Expose(rect)

Spec == Init /\ [][Next]_vars

-----------------------------------------------------------------------------
(* The ring and the caller's buffers are well formed: the frames in flight    *)
(* are distinct, their fences are submitted and not complete, and             *)
(* they are of the surface the backend is configured for.                     *)
DamageTypeOK ==
    /\ made \in 0..MaxGeneration
    /\ {shown.generation, older.generation} \subseteq 0..made
    /\ nextImage \in Images /\ front \in {0} \cup Images
    /\ \A i \in Images : DOMAIN images[i] = IF surface = 0 THEN {} ELSE Cells(surface)
    /\ \A i \in InFlight : /\ ring[i].surface = surface
                           /\ ring[i].fence \in completed + 1..submitted
                           /\ \A j \in InFlight \ {i} : ring[j].fence # ring[i].fence

\* What a full redraw of the frame would leave in a cell.
FullRedraw(picture, c) ==
    LET painting == SelectSeq(picture, LAMBDA command : Covers(command, c))
    IN [n \in DOMAIN painting |-> painting[n].sum]

(* Whatever the image in turn holds, whatever frame the caller compared with  *)
(* and whatever was dropped or refused before: of the image on the display    *)
(* when a frame is shown, what was damaged is exactly what a full redraw of    *)
(* the frame would leave, each command painted once and in order, and so is    *)
(* every other cell that held what the frame compared with has there.  What    *)
(* an undamaged cell held otherwise stays: the damage knows one frame only.    *)
RedrawsWhatChanged ==
    [][shown' # shown /\ shown' # NoBuffer =>
          \A c \in Cells(shown'.surface) :
             \/ Damaged(c)
             \/ /\ front' # 0
                /\ surface = shown'.surface /\ buffer.compared.surface = surface
                /\ images[front'][c] = FullRedraw(buffer.compared.picture, c)
             => images'[front'][c] = FullRedraw(shown'.picture, c)]_vars

(* Whatever was dropped, refused, skipped, exposed or collapsed before: where  *)
(* the surface has one image and the caller compares with frames that were    *)
(* shown, the display holds all of what a full redraw of a shown frame would  *)
(* leave, but for what was exposed since the frame was built.                 *)
ShownExactly ==
    [][shown' # shown /\ shown' # NoBuffer =>
          /\ surface' = shown'.surface
          /\ \A c \in Cells(shown'.surface) :
                \/ \E rect \in exposed' : Inside(c, rect)
                \/ front' # 0 /\ images'[front'][c] = FullRedraw(shown'.picture, c)]_vars
=============================================================================
