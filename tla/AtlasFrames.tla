------------------------------ MODULE AtlasFrames ------------------------------
(***************************************************************************)
(* What becomes of a submission of the atlas: its uploads are executed one *)
(* batch after the other (device_raster_backend.cpp), the frame goes       *)
(* through the scheduler of resident pages (gpu_atlas_frame_submission.cpp)*)
(* to the device backend, which keeps the textures and pins those of       *)
(* incomplete frames (gpu_device_presentation.cpp).  One thread prepares   *)
(* and submits; the atlas may be cleared and frames may retire meanwhile.  *)
(* The surface stays the same, and what a texture holds is kept track of,  *)
(* which the code does not.                                                *)
(***************************************************************************)
EXTENDS GlyphAtlas, SequencesExt

CONSTANTS Producer,
          MaxTextures,    \* maximum_textures
          DeviceFrames,   \* maximum_frames_in_flight, or the surface images if fewer
          ScheduledFrames, MaxResident, MaxPins,
          Repeats,        \* a refused upload is tried again before the next submission
          WorkingSets,    \* what is asked for at once
          MaxFence        \* bound

FramesAssumption ==
    /\ AtlasAssumption
    /\ Producer \in Holders /\ WorkingSets \subseteq SUBSET Glyphs \ {{}}
    /\ Repeats \in BOOLEAN
    /\ {MaxTextures, DeviceFrames, ScheduledFrames, MaxResident, MaxPins, MaxFence} \subseteq Nat

VARIABLES step,       \* where the producer is
          receipts,   \* of the batches uploaded so far
          device,     \* GpuDevicePresentationBackend
          scheduler   \* GpuAtlasFrameScheduler

frameVars == <<step, receipts, device, scheduler>>
allVars == <<atlasVars, frameVars>>

FramesInit == /\ AtlasInit
              /\ step = "idle" /\ receipts = <<>>
              /\ device = [textures |-> <<>>, frames |-> <<>>, pins |-> <<>>,
                           last |-> 0, done |-> 0]
              /\ scheduler = [atlas |-> 0, pages |-> <<>>, frames |-> <<>>, pins |-> <<>>,
                              last |-> 0, done |-> 0]

mine == held[Producer]
Where(s, C(_)) == {i \in DOMAIN s : C(s[i])}
NextFence == device.last + 1

(* Consecutive uploads of one page are one batch.                          *)
BatchesOf(submission) == FoldLeft(LAMBDA done, g :
    LET p == submission.places[g]
        same == done # <<>> /\ Last(done).page = p.page
    IN IF same THEN [done EXCEPT ![Len(done)].glyphs = @ \cup {g}]
       ELSE Append(done, [page |-> p.page, gen |-> p.gen, glyphs |-> {g}]),
    <<>>, submission.uploads)
Batches == BatchesOf(mine)

(* The pages a frame refers to, each with the fence it has to wait for.    *)
References == {[page |-> p.page, gen |-> p.gen] :
                  p \in {mine.places[g] : g \in DOMAIN mine.places}}
UploadFence(r) == Max({0} \cup {receipts[i].fence :
                        i \in Where(receipts, LAMBDA u : u.page = r.page /\ u.gen = r.gen)})
WaitFence == Max({0} \cup {UploadFence(r) : r \in References})
DrawnFrom(p) == {g \in DOMAIN mine.places : mine.places[g].page = p}
--------------------------------------------------------------------------------
(* GpuDevicePresentationBackend.                                           *)
TextureOf(r) == {i \in DOMAIN device.textures :
                    /\ device.textures[i].atlas = mine.atlas
                    /\ device.textures[i].page = r.page
                    /\ device.textures[i].gen = r.gen}

(* Wrong on purpose: pinned textures are written and replaced as well.     *)
AnyTexture == DOMAIN device.textures

(* The texture given up at capacity: the last among the longest unused.    *)
Idle == Where(device.textures, LAMBDA x : x.pins = 0)
Evicted == {i \in Idle : \A j \in Idle :
              \/ device.textures[i].use < device.textures[j].use
              \/ device.textures[i].use = device.textures[j].use /\ i >= j}

Uploaded(x, b) == [x EXCEPT !.ready = NextFence, !.resident = FALSE,
                            !.holds = @ \cup b.glyphs]
NewTexture(b) == [atlas |-> mine.atlas, page |-> b.page, gen |-> b.gen, born |-> NextFence,
                  ready |-> NextFence, use |-> 0, pins |-> 0, resident |-> FALSE,
                  holds |-> b.glyphs]

(* The textures after the upload of b; there is none if it is refused.     *)
AfterUpload(b) ==
    IF TextureOf(b) # {}
    THEN {[device.textures EXCEPT ![i] = Uploaded(@, b)] : i \in TextureOf(b) \cap Idle}
    ELSE IF Len(device.textures) < MaxTextures
    THEN {Append(device.textures, NewTexture(b))}
    ELSE {[device.textures EXCEPT ![i] = NewTexture(b)] : i \in Evicted}

(* What a frame draws with has to be uploaded by the fence it waits for.   *)
Ready(i) == device.textures[i].resident \/ device.textures[i].ready <= WaitFence
Drawn == UNION {TextureOf(r) : r \in References}
Presentable == /\ Len(device.frames) < DeviceFrames
               /\ \A r \in References : \E i \in TextureOf(r) : Ready(i)
               /\ Len(device.pins) + Cardinality(Drawn) <= MaxPins

PinOf(i) == [texture |-> i, born |-> device.textures[i].born,
             draws |-> DrawnFrom(device.textures[i].page)]
InFlight(x) == [x EXCEPT !.pins = @ + 1, !.use = NextFence]

Presented ==
    [device EXCEPT
       !.textures = [i \in DOMAIN @ |-> IF i \in Drawn THEN InFlight(@[i]) ELSE @[i]],
       !.frames = Append(@, [fence |-> NextFence, wait |-> WaitFence,
                             first |-> Len(device.pins), count |-> Cardinality(Drawn)]),
       !.pins = @ \o SetToSeq({PinOf(i) : i \in Drawn}),
       !.last = NextFence]

(* The frames at the head whose fence is complete go, with their pins.     *)
Retiring(frames, fence) == Cardinality(Where(frames, LAMBDA f : f.fence <= fence))
PinsOf(frames, n) == MapThenSumSet(LAMBDA i : frames[i].count, 1..n)
Remaining(frames, n) ==
    [i \in 1..(Len(frames) - n) |->
        [frames[n + i] EXCEPT !.first = @ - PinsOf(frames, n)]]

Released(x, count, fence) == [x EXCEPT !.pins = @ - count,
                                       !.resident = (@ \/ x.ready <= fence)]

RetireDevice(fence) ==
    LET n == Retiring(device.frames, fence)
        k == PinsOf(device.frames, n)
        Freed(i) == Cardinality({j \in 1..k : device.pins[j].texture = i})
    IN /\ fence \in (device.done + 1)..device.last
       /\ device' = [device EXCEPT
            !.frames = Remaining(@, n),
            !.pins = SubSeq(@, k + 1, Len(@)),
            !.textures = [i \in DOMAIN @ |-> Released(@[i], Freed(i), fence)],
            !.done = fence]
       /\ UNCHANGED <<atlasVars, step, receipts, scheduler>>
--------------------------------------------------------------------------------
(* GpuAtlasFrameScheduler.                                                 *)
ResidentAt(resident, p) == Where(resident, LAMBDA x : x.page = p)

(* The pages uploaded are entered; a pinned one is not replaced.           *)
Synchronize(done, u) ==
    LET at == ResidentAt(done.pages, u.page)
        page == [page |-> u.page, gen |-> u.gen, ready |-> u.fence, pins |-> 0]
    IN IF ~done.ok THEN done
       ELSE IF at = {}
       THEN [ok |-> Len(done.pages) < MaxResident, pages |-> Append(done.pages, page)]
       ELSE LET i == CHOOSE i \in at : TRUE
                old == done.pages[i]
            IN IF old.gen = u.gen
               THEN [done EXCEPT !.pages[i].ready = Max({@, u.fence})]
               ELSE [ok |-> old.pins = 0, pages |-> [done.pages EXCEPT ![i] = page]]

Entering(table, uploads) == FoldLeft(Synchronize, table, uploads)
Synchronized ==
    LET same == scheduler.atlas \in {0, mine.atlas}
    IN Entering([ok |-> same \/ scheduler.frames = <<>>,
                 pages |-> IF same THEN scheduler.pages ELSE <<>>], receipts)

Holding(resident, r) ==
    Where(resident, LAMBDA x : x.page = r.page /\ x.gen = r.gen /\ x.ready >= UploadFence(r))

Admissible == /\ Len(scheduler.frames) < ScheduledFrames
              /\ Len(scheduler.pins) + Cardinality(References) <= MaxPins
              /\ Synchronized.ok
              /\ \A r \in References : Holding(Synchronized.pages, r) # {}

UsedPages == UNION {Holding(Synchronized.pages, r) : r \in References}
PinnedBy(x, count) == [x EXCEPT !.pins = @ + count]

Scheduled(fence) ==
    [scheduler EXCEPT
       !.atlas = mine.atlas,
       !.pages = [i \in DOMAIN Synchronized.pages |->
                    PinnedBy(Synchronized.pages[i], IF i \in UsedPages THEN 1 ELSE 0)],
       !.frames = Append(@, [fence |-> fence, first |-> Len(scheduler.pins),
                             count |-> Cardinality(References)]),
       !.pins = @ \o SetToSeq(UsedPages),
       !.last = fence]

(* retire_gpu_frames, not while a submission holds the lock.               *)
RetireScheduler(fence) ==
    LET n == Retiring(scheduler.frames, fence)
        k == PinsOf(scheduler.frames, n)
        Freed(i) == Cardinality({j \in 1..k : scheduler.pins[j] = i})
    IN /\ step # "presented"
       /\ fence \in (scheduler.done + 1)..device.last
       /\ n > 0   \* bound: otherwise only last_completed_fence_value_ moves
       /\ scheduler' = [scheduler EXCEPT
            !.frames = Remaining(@, n),
            !.pins = SubSeq(@, k + 1, Len(@)),
            !.pages = [i \in DOMAIN @ |-> PinnedBy(@[i], -Freed(i))],
            !.done = fence]
       /\ UNCHANGED <<atlasVars, step, receipts, device>>

ClearScheduler == /\ step # "presented" /\ scheduler.frames = <<>>
                  /\ scheduler' = [scheduler EXCEPT !.atlas = 0, !.pages = <<>>]
                  /\ UNCHANGED <<atlasVars, step, receipts, device>>
--------------------------------------------------------------------------------
(* The producer.                                                           *)
Goto(s) == step' = s /\ UNCHANGED <<device, scheduler>>
(* A submission given up, at any failure but a refused upload.             *)
GiveUp == /\ Goto("idle") /\ receipts' = <<>>
          /\ held' = [held EXCEPT ![Producer] = Nothing] /\ UNCHANGED cache

Submit == /\ step = "idle"
          /\ \E working \in WorkingSets : Prepare(Producer, working)
          /\ Goto("prepared") /\ UNCHANGED receipts

(* execute_glyph_atlas_uploads: is the submission current, before the      *)
(* first batch and after each?                                             *)
CheckUploads ==
    /\ step \in {"prepared", "uploading"}
    /\ \/ /\ ~Current(mine) /\ GiveUp
       \/ /\ Current(mine)
          /\ Goto(IF Len(receipts) = Len(Batches) THEN "uploaded" ELSE "upload")
          /\ UNCHANGED <<atlasVars, receipts>>

Upload ==
    LET b == Batches[Len(receipts) + 1] IN
    /\ step = "upload" /\ NextFence <= MaxFence
    /\ \E textures \in AfterUpload(b) :
          device' = [device EXCEPT !.textures = textures, !.last = NextFence]
    /\ receipts' = Append(receipts, [page |-> b.page, gen |-> b.gen, fence |-> NextFence])
    /\ step' = "uploading"
    /\ UNCHANGED <<atlasVars, scheduler>>

(* It is refused: by the device, or because the texture is pinned.         *)
UploadRefused ==
    /\ step = "upload"
    /\ \/ Repeats /\ Goto("prepared") /\ receipts' = <<>> /\ UNCHANGED atlasVars
       \/ ~Repeats /\ GiveUp

(* prepare_gpu_frame_submission and the first look of submit_gpu_frame.    *)
BeginFrame ==
    /\ step = "uploaded"
    /\ \/ ~Current(mine) /\ GiveUp
       \/ Current(mine) /\ Goto("framed") /\ UNCHANGED <<atlasVars, receipts>>

(* submit_gpu_frame as far as the backend's answer.                        *)
SubmitFrame ==
    /\ step = "framed" /\ NextFence <= MaxFence
    /\ Admissible /\ Presentable
    /\ device' = Presented
    /\ step' = "presented"
    /\ UNCHANGED <<atlasVars, receipts, scheduler>>

(* Or it is refused, and may be tried again.                               *)
FrameRefused == /\ step = "framed"
                /\ \/ GiveUp
                   \/ Goto("uploaded") /\ UNCHANGED <<atlasVars, receipts>>

PublishFrame == /\ step = "presented" /\ Current(mine)
                /\ scheduler' = Scheduled(device.last)
                /\ step' = "idle" /\ receipts' = <<>>
                /\ held' = [held EXCEPT ![Producer] = Nothing]
                /\ UNCHANGED <<cache, device>>

(* Out of date by now, or no memory: the frame shown stays unrecorded.     *)
Orphan == step = "presented" /\ GiveUp

FramesNext == \/ Submit \/ CheckUploads \/ Upload \/ UploadRefused
              \/ BeginFrame \/ SubmitFrame \/ FrameRefused \/ PublishFrame \/ Orphan
              \/ \E f \in 1..MaxFence : RetireDevice(f) \/ RetireScheduler(f)
              \/ ClearScheduler
              \/ Clear /\ UNCHANGED frameVars

FramesSpec == FramesInit /\ [][FramesNext]_allVars
--------------------------------------------------------------------------------
(* Fences grow, and nothing outgrows its limit.                            *)
FramesTypeOK ==
    /\ AtlasTypeOK
    /\ step \in {"idle", "prepared", "upload", "uploading", "uploaded", "framed", "presented"}
    /\ device.done <= device.last /\ scheduler.last <= device.last
    /\ Len(device.textures) <= MaxTextures /\ Len(device.frames) <= DeviceFrames
    /\ Len(scheduler.pages) <= MaxResident /\ Len(scheduler.frames) <= ScheduledFrames
    /\ Len(device.pins) <= MaxPins /\ Len(scheduler.pins) <= MaxPins
    /\ \A x \in Range(device.textures) : x.holds \subseteq Glyphs /\ x.ready <= device.last

Contiguous(frames, pins) ==
    /\ Len(pins) = PinsOf(frames, Len(frames))
    /\ \A i \in DOMAIN frames : frames[i].first = PinsOf(frames, i - 1)

(* In both tables the pins of the frames in flight follow each other       *)
(* without a gap, and the counts kept in the textures and pages are theirs *)
(* (retirement refuses for good where they are not).                       *)
PinsExact ==
    /\ Contiguous(device.frames, device.pins)
    /\ Contiguous(scheduler.frames, scheduler.pins)
    /\ \A i \in DOMAIN device.textures :
          device.textures[i].pins = Cardinality(Where(device.pins, LAMBDA p : p.texture = i))
    /\ \A i \in DOMAIN scheduler.pages :
          scheduler.pages[i].pins = Cardinality(Where(scheduler.pins, LAMBDA p : p = i))

(* The textures a frame in flight pinned are the ones it was given, and    *)
(* what was in them was uploaded no later than the fence it waits for.     *)
PinnedIsReady ==
    \A f \in Range(device.frames) : \A j \in (f.first + 1)..(f.first + f.count) :
        LET pin == device.pins[j]
            x == device.textures[pin.texture]
        IN x.born = pin.born /\ (x.resident \/ x.ready <= f.wait)

(* And whatever the frame draws from them is in them: every glyph was      *)
(* uploaded to the texture that the frame pinned, not to one given up.     *)
DrawsWhatWasPut ==
    /\ PinnedIsReady
    /\ \A pin \in Range(device.pins) : pin.draws \subseteq device.textures[pin.texture].holds

(* What a step may never do: write a texture that a frame in flight pins,  *)
(* or give its place to another page, however short of textures the device *)
(* is and whatever is cleared, given up or retired meanwhile.              *)
PinnedUntouched ==
    [][\A j \in DOMAIN device.pins :
         LET i == device.pins[j].texture
             x == device.textures[i]
             y == device'.textures[i]
         IN /\ y.atlas = x.atlas /\ y.page = x.page /\ y.gen = x.gen
            /\ y.born = x.born /\ y.ready = x.ready /\ y.holds = x.holds]_allVars

(* A frame the scheduler has in flight is one the device was given, with   *)
(* as many textures as pages, until the device is done with it.            *)
ScheduledIsPresented ==
    \A f \in Range(scheduler.frames) :
        \/ f.fence <= device.done
        \/ \E d \in Range(device.frames) : d.fence = f.fence /\ d.count = f.count

(* What a frame in flight draws was put into the textures it pinned, and   *)
(* stays there; scheduler and device count their pins exactly.             *)
DrawnAsPut == FramesTypeOK /\ PinsExact /\ DrawsWhatWasPut /\ ScheduledIsPresented
================================================================================
