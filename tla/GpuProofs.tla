------------------------------- MODULE GpuProofs -------------------------------
(***************************************************************************)
(* Proofs about VulkanSwapchain for any images the driver may make, any    *)
(* number of frame slots and any bounds: the counters are the state of the *)
(* slots, every lease can be submitted with a frame of its own, and the    *)
(* swapchain implements FrameLeases.  And about GlyphAtlas for any glyphs, *)
(* pages and limits: entries agree with their pages and do not overlap,    *)
(* and a submission that passes for current finds its glyphs.  And about   *)
(* AtlasFrames for any textures, frames and pins: scheduler and device     *)
(* count what is in flight, and frames draw what was uploaded for them.    *)
(***************************************************************************)
EXTENDS VulkanSwapchain, AtlasFrames, SetFolds, FiniteSetTheorems, SequenceTheorems,
        WellFoundedInduction, TLAPS

ImageSlots == 0..imageCount - 1
ImageRecord == [acquired : BOOLEAN, frame : FrameSlots, serial : 0..MaxAcquires]
FrameRecord == [acquired : BOOLEAN, image : Nat, value : 0..MaxAcquires,
                fence : {"signaled", "reset", "pending"}, available : BOOLEAN]
Busy == {f \in FrameSlots : frames[f].value # 0}

(* What is counted: each image leased and each frame in flight once, never *)
(* more than there are frames, and none when nothing is configured; every  *)
(* fence value has been paid for with an acquire.                          *)
Tallied ==
    /\ acquired = Cardinality(Leased) /\ inFlight = Cardinality(Busy)
    /\ acquired + inFlight <= MaxFrames
    /\ configured \/ (acquired = 0 /\ inFlight = 0)
    /\ nextFence + acquired <= nextSerial

(* Serials of leases and fence values of frames are told apart, and lie    *)
(* between what is over and what is not yet given out.                     *)
Distinct ==
    /\ \A i \in Leased : images[i].serial \in 1..nextSerial - 1
    /\ \A i, j \in Leased : images[i].serial = images[j].serial => i = j
    /\ \A f \in Busy : completed < frames[f].value /\ frames[f].value <= submitted
    /\ \A e, f \in Busy : frames[e].value = frames[f].value => e = f

(* An image is the engine's or leased, a frame acquired, flying or free;   *)
(* a leased image and its acquired frame name each other.                  *)
Paired ==
    /\ engine \cap Leased = {}
    /\ \A f \in FrameSlots : frames[f].acquired => /\ frames[f].value = 0
                                                   /\ frames[f].image \in Leased
    /\ LeaseHasItsFrame

Sound == VulkanTypeOK /\ Tallied /\ Distinct /\ Paired /\ FreshIsReady

--------------------------------------------------------------------------------
LEMMA SlotTypes ==
    ASSUME VulkanAssumption, VulkanTypeOK
    PROVE  /\ imageCount \in Nat /\ DOMAIN images = ImageSlots
           /\ images \in [ImageSlots -> ImageRecord]
           /\ frames \in [FrameSlots -> FrameRecord]
           /\ Leased = {i \in ImageSlots : images[i].acquired}
           /\ \A i \in ImageSlots : images[i] \in ImageRecord
           /\ \A f \in FrameSlots : frames[f] \in FrameRecord
           /\ nextSerial \in Nat /\ nextFence \in Nat /\ submitted \in Nat /\ completed \in Nat
           /\ acquired \in Nat /\ inFlight \in Nat
<1>1. imageCount \in Nat
  BY DEF VulkanAssumption, VulkanTypeOK
<1>2. images \in [ImageSlots -> ImageRecord]
  BY DEF VulkanTypeOK, ImageSlots, ImageRecord
<1>3. frames \in [FrameSlots -> FrameRecord]
  BY DEF VulkanTypeOK, FrameRecord
<1>4. DOMAIN images = ImageSlots /\ Leased = {i \in ImageSlots : images[i].acquired}
  BY <1>2 DEF Leased
<1>5. nextSerial \in Nat /\ nextFence \in Nat /\ submitted \in Nat /\ completed \in Nat
      /\ acquired \in Nat /\ inFlight \in Nat
  BY DEF VulkanAssumption, VulkanTypeOK
<1> QED
  BY <1>1, <1>2, <1>3, <1>4, <1>5

LEMMA SlotsFinite ==
    ASSUME VulkanAssumption, VulkanTypeOK
    PROVE  IsFiniteSet(Leased) /\ IsFiniteSet(Busy)
<1>1. IsFiniteSet(ImageSlots)
  BY SlotTypes, FS_Interval DEF ImageSlots
<1>2. IsFiniteSet(FrameSlots)
  BY FS_Interval DEF VulkanAssumption, FrameSlots
<1>3. Leased \subseteq ImageSlots /\ Busy \subseteq FrameSlots
  BY SlotTypes DEF Busy
<1> QED
  BY <1>1, <1>2, <1>3, FS_Subset

(* So the leases are as many as the images leased, the fences that fly as  *)
(* many as the frames in flight.                                           *)
LEMMA Sizes ==
    ASSUME VulkanAssumption, Sound
    PROVE  /\ IsFiniteSet(Taken) /\ Cardinality(Taken) = acquired
           /\ IsFiniteSet(Flying) /\ Cardinality(Flying) = inFlight
<1>1. VulkanTypeOK /\ Tallied /\ Distinct
  BY DEF Sound
<1>2. IsFiniteSet(Leased) /\ IsFiniteSet(Busy)
  BY <1>1, SlotsFinite
<1> DEFINE g == [i \in Leased |-> images[i].serial]
           h == [f \in Busy |-> frames[f].value]
<1>3. Taken = {g[i] : i \in Leased}
  BY DEF Taken
<1>4. Flying = {h[f] : f \in Busy}
  BY DEF Flying, Busy
<1>5. \A i, j \in Leased : g[i] = g[j] => i = j
  BY <1>1 DEF Distinct
<1>6. \A e, f \in Busy : h[e] = h[f] => e = f
  BY <1>1 DEF Distinct
<1>7. DOMAIN g = Leased /\ DOMAIN h = Busy
  OBVIOUS
<1> HIDE DEF g, h
<1>8. IsFiniteSet(Taken) /\ Cardinality(Taken) = Cardinality(Leased)
  BY <1>2, <1>3, <1>5, <1>7, SameSize
<1>9. IsFiniteSet(Flying) /\ Cardinality(Flying) = Cardinality(Busy)
  BY <1>2, <1>4, <1>6, <1>7, SameSize
<1> QED
  BY <1>1, <1>8, <1>9 DEF Tallied

--------------------------------------------------------------------------------
(* A fresh ring and fresh frames, and what is kept over them.              *)
LEMMA RebuiltIsSound ==
    ASSUME VulkanAssumption, Sound, NEW n \in ImageCounts \cup {0}, Rebuilt(n),
           {configured', outOfDate', lost'} \subseteq BOOLEAN, opens' \in 0..MaxOpens,
           {generation', surface', pending'} \subseteq 0..MaxGeneration
    PROVE  Sound' /\ Taken' = {} /\ Flying' = {}
<1>1. n \in Nat /\ MaxFrames \in Nat /\ 0 \in FrameSlots
  BY DEF VulkanAssumption, FrameSlots
<1>2. imageCount' = n /\ images' = FreshImages(n) /\ frames' = FreshFrames
      /\ engine' = 0..n - 1 /\ acquired' = 0 /\ inFlight' = 0
      /\ nextFence' = nextFence /\ submitted' = submitted /\ completed' = completed
      /\ nextSerial' = nextSerial /\ tokens' = tokens /\ presents' = presents
  BY DEF Rebuilt, fences, history
<1>3. \A i \in 0..n - 1 : images'[i] = NoImage
  BY <1>2 DEF FreshImages
<1>4. \A f \in FrameSlots : frames'[f] = NoFrame
  BY <1>2 DEF FreshFrames
<1>5. Leased' = {}
  BY <1>2, <1>3 DEF Leased, FreshImages, NoImage
<1>6. Busy' = {}
  BY <1>4 DEF Busy, NoFrame
<1>7. VulkanTypeOK'
  <2>1. NoImage \in ImageRecord
    BY <1>1 DEF NoImage, ImageRecord, Sound, VulkanTypeOK, VulkanAssumption
  <2>2. NoFrame \in FrameRecord
    BY <1>1 DEF NoFrame, FrameRecord, Sound, VulkanTypeOK, VulkanAssumption
  <2>3. images' \in [0..imageCount' - 1 -> ImageRecord]
    BY <1>2, <2>1 DEF FreshImages
  <2>4. frames' \in [FrameSlots -> FrameRecord]
    BY <1>2, <2>2 DEF FreshFrames
  <2>5. engine' \subseteq 0..imageCount' - 1 /\ imageCount' \in ImageCounts \cup {0}
        /\ {acquired', inFlight'} \subseteq 0..MaxFrames
    BY <1>1, <1>2
  <2>6. VulkanTypeOK
    BY DEF Sound
  <2> QED
    BY <1>2, <2>3, <2>4, <2>5, <2>6 DEF VulkanTypeOK, ImageRecord, FrameRecord
<1>8. Tallied'
  <2>1. nextFence + acquired <= nextSerial /\ VulkanTypeOK
    BY DEF Sound, Tallied
  <2>2. nextFence + 0 <= nextSerial
    BY <2>1, SlotTypes
  <2>3. MaxFrames \in Nat /\ Cardinality({}) = 0
    BY FS_EmptySet DEF VulkanAssumption
  <2> QED
    BY <1>2, <1>5, <1>6, <2>2, <2>3 DEF Tallied
<1>9. Distinct'
  BY <1>5, <1>6 DEF Distinct
<1>10. Paired'
  BY <1>4, <1>5 DEF Paired, LeaseHasItsFrame, NoFrame
<1>11. FreshIsReady'
  BY <1>4 DEF FreshIsReady, Free, NoFrame
<1>12. Taken' = {} /\ Flying' = {}
  BY <1>5, <1>4 DEF Taken, Flying, NoFrame
<1> QED
  BY <1>7, <1>8, <1>9, <1>10, <1>11, <1>12 DEF Sound

(* Steps that leave the slots, the counters and the history alone.         *)
LEMMA SlotsStay ==
    ASSUME VulkanAssumption, Sound,
           UNCHANGED <<imageCount, images, frames, engine, acquired, inFlight, fences, history>>,
           configured' = configured, {outOfDate', lost'} \subseteq BOOLEAN, opens' \in 0..MaxOpens,
           {generation', surface', pending'} \subseteq 0..MaxGeneration
    PROVE  Sound' /\ Taken' = Taken /\ Flying' = Flying
<1>1. Leased' = Leased /\ Busy' = Busy /\ FrameSlots' = FrameSlots
  BY DEF Leased, Busy, FrameSlots
<1>2. VulkanTypeOK'
  BY DEF Sound, VulkanTypeOK, fences, history
<1>3. Tallied' /\ Distinct' /\ Paired' /\ FreshIsReady'
  BY <1>1 DEF Sound, Tallied, Distinct, Paired, FreshIsReady, Free, LeaseHasItsFrame, fences, history
<1> QED
  BY <1>1, <1>2, <1>3 DEF Sound, Taken, Flying

(* An image goes from the engine to a lease, with a free frame.            *)
LEMMA AcquireIsSound ==
    ASSUME VulkanAssumption, Sound, NEW i \in engine, Acquire(i)
    PROVE  Sound' /\ Taken' = Taken \cup {nextSerial} /\ Flying' = Flying
<1> USE DEF Sound
<1>1. VulkanTypeOK /\ Tallied /\ Distinct /\ Paired /\ FreshIsReady
  OBVIOUS
<1>2. PICK f \in FrameSlots :
        /\ FirstFree(f)
        /\ images' = [images EXCEPT ![i] = [acquired |-> TRUE, frame |-> f, serial |-> nextSerial]]
        /\ frames' = [frames EXCEPT ![f].acquired = TRUE, ![f].image = i, ![f].available = TRUE]
  BY DEF Acquire
<1>3. /\ engine' = engine \ {i} /\ nextSerial' = nextSerial + 1 /\ acquired' = acquired + 1
      /\ tokens' = tokens \cup {[image |-> i, serial |-> nextSerial, generation |-> generation]}
      /\ nextSerial <= MaxAcquires /\ configured /\ acquired + inFlight < MaxFrames
  BY DEF Acquire, MayAcquire
<1>4. /\ configured' = configured /\ opens' = opens /\ generation' = generation /\ surface' = surface
      /\ pending' = pending /\ imageCount' = imageCount /\ outOfDate' = outOfDate /\ lost' = lost
      /\ inFlight' = inFlight /\ nextFence' = nextFence /\ submitted' = submitted
      /\ completed' = completed /\ presents' = presents
  BY DEF Acquire, conf, flags, fences
<1>5. i \in ImageSlots /\ i \in Nat /\ i \notin Leased
  BY <1>1, SlotTypes DEF VulkanTypeOK, Paired, ImageSlots
<1>6. images'[i] = [acquired |-> TRUE, frame |-> f, serial |-> nextSerial]
      /\ \A j \in ImageSlots : j # i => images'[j] = images[j]
  BY <1>1, <1>2, <1>5, SlotTypes
<1>7. frames'[f] = [frames[f] EXCEPT !.acquired = TRUE, !.image = i, !.available = TRUE]
      /\ \A e \in FrameSlots : e # f => frames'[e] = frames[e]
  BY <1>1, <1>2, SlotTypes
<1>8. frames[f] \in FrameRecord /\ ~frames[f].acquired /\ frames[f].value = 0
  BY <1>1, <1>2, SlotTypes DEF FirstFree, Free
<1>9. /\ frames'[f] \in FrameRecord /\ frames'[f].acquired /\ frames'[f].image = i
      /\ frames'[f].available /\ frames'[f].value = 0 /\ frames'[f].fence = frames[f].fence
  BY <1>5, <1>7, <1>8 DEF FrameRecord
<1>10. images'[i].acquired /\ images'[i].frame = f /\ images'[i].serial = nextSerial
  BY <1>6
<1>11. nextSerial \in 1..MaxAcquires /\ nextSerial \in Nat
  BY SMTT(60), <1>1, <1>3 DEF VulkanTypeOK, VulkanAssumption
<1>12. images' \in [ImageSlots -> ImageRecord] /\ DOMAIN images' = ImageSlots
  <2>1. [acquired |-> TRUE, frame |-> f, serial |-> nextSerial] \in ImageRecord
    BY <1>11 DEF ImageRecord
  <2> QED
    BY <1>1, <1>2, <2>1, SlotTypes
<1>13. frames' \in [FrameSlots -> FrameRecord]
  <2>1. frames' = [frames EXCEPT ![f] = frames'[f]]
    BY <1>1, <1>2, <1>7, SlotTypes
  <2> QED
    BY <1>1, <1>9, <2>1, SlotTypes
<1>14. Leased' = Leased \cup {i}
  BY <1>1, <1>5, <1>6, <1>10, <1>12, SlotTypes DEF Leased
<1>15. \A j \in Leased : j # i /\ images'[j] = images[j]
  BY <1>1, <1>5, <1>6, SlotTypes
<1>16. \A e \in FrameSlots : frames'[e].value = frames[e].value
  BY <1>7, <1>8, <1>9
<1>17. Busy' = Busy
  BY <1>16 DEF Busy
<1>18. VulkanTypeOK'
  <2>1. tokens' \subseteq [image : Nat, serial : Serials, generation : 0..MaxGeneration]
    BY SMTT(60), <1>1, <1>3, <1>5, <1>11 DEF VulkanTypeOK, Serials
  <2>2. nextSerial' \in 1..MaxAcquires + 1 /\ {acquired', inFlight'} \subseteq 0..MaxFrames
    <3>1. acquired \in Nat /\ inFlight \in Nat /\ MaxFrames \in Nat /\ MaxAcquires \in Nat
      BY <1>1, SlotTypes DEF VulkanAssumption
    <3> QED
      BY <1>3, <1>4, <1>11, <3>1
  <2>3. engine' \subseteq 0..imageCount' - 1
    BY <1>1, <1>3, <1>4 DEF VulkanTypeOK
  <2> QED
    BY <1>1, <1>4, <1>12, <1>13, <2>1, <2>2, <2>3
       DEF VulkanTypeOK, ImageSlots, ImageRecord, FrameRecord
<1>19. Tallied'
  <2>1. Cardinality(Leased') = Cardinality(Leased) + 1
    BY <1>1, <1>5, <1>14, SlotsFinite, FS_AddElement
  <2>2. acquired' = Cardinality(Leased)' /\ inFlight' = Cardinality(Busy)'
    BY <1>1, <1>3, <1>4, <1>17, <2>1 DEF Tallied
  <2>3. acquired' + inFlight' <= MaxFrames /\ nextFence' + acquired' <= nextSerial'
    <3>1. /\ acquired \in Nat /\ inFlight \in Nat /\ MaxFrames \in Nat
          /\ nextFence \in Nat /\ nextSerial \in Nat
      BY <1>1, SlotTypes DEF VulkanAssumption
    <3> QED
      BY <1>1, <1>3, <1>4, <3>1 DEF Tallied
  <2> QED
    BY <1>3, <1>4, <2>2, <2>3 DEF Tallied
<1>20. Distinct'
  <2>1. \A j \in Leased : images[j].serial \in 1..nextSerial - 1 /\ images[j].serial # nextSerial
    BY <1>1, <1>11 DEF Distinct
  <2>2. \A j \in Leased' : images'[j].serial \in 1..nextSerial' - 1
    BY <1>3, <1>10, <1>11, <1>14, <1>15, <2>1
  <2>3. \A j, k \in Leased' : images'[j].serial = images'[k].serial => j = k
    BY <1>1, <1>10, <1>14, <1>15, <2>1 DEF Distinct
  <2>4. \A e \in Busy' : completed' < frames'[e].value /\ frames'[e].value <= submitted'
    BY <1>1, <1>4, <1>16, <1>17 DEF Distinct, Busy
  <2>5. \A e, g \in Busy' : frames'[e].value = frames'[g].value => e = g
    BY <1>1, <1>16, <1>17 DEF Distinct, Busy
  <2> QED
    BY <2>2, <2>3, <2>4, <2>5 DEF Distinct
<1>21. Paired'
  <2>1. engine' \cap Leased' = {}
    BY <1>1, <1>3, <1>14 DEF Paired
  <2>2. \A e \in FrameSlots : frames'[e].acquired => frames'[e].value = 0 /\ frames'[e].image \in Leased'
    BY <1>1, <1>7, <1>9, <1>14 DEF Paired
  <2>3. \A j \in Leased' : frames'[images'[j].frame].acquired /\ frames'[images'[j].frame].image = j
    <3>1. \A j \in Leased : images[j].frame \in FrameSlots /\ frames[images[j].frame].acquired
                            /\ frames[images[j].frame].image = j
      BY <1>1, SlotTypes DEF Paired, LeaseHasItsFrame, ImageRecord
    <3>2. \A j \in Leased : images[j].frame # f
      BY <1>8, <3>1
    <3>3. \A j \in Leased : frames'[images'[j].frame] = frames[images[j].frame]
      BY <1>7, <1>15, <3>1, <3>2
    <3>4. \A j \in Leased : frames'[images'[j].frame].acquired /\ frames'[images'[j].frame].image = j
      BY <3>1, <3>3
    <3>5. frames'[images'[i].frame].acquired /\ frames'[images'[i].frame].image = i
      BY <1>9, <1>10
    <3> QED
      BY <1>14, <3>4, <3>5
  <2>4. \A e \in FrameSlots : frames'[e].acquired => images'[frames'[e].image].frame = e
    <3>1. ASSUME NEW e \in FrameSlots, e # f, frames'[e].acquired
          PROVE  images'[frames'[e].image].frame = e
      <4>1. frames'[e] = frames[e] /\ frames[e].acquired
        BY <1>7, <3>1
      <4>2. frames[e].image \in Leased /\ images[frames[e].image].frame = e
        BY <1>1, <4>1 DEF Paired, LeaseHasItsFrame
      <4> QED
        BY <1>15, <4>1, <4>2
    <3> QED
      BY <1>9, <1>10, <3>1
  <2> QED
    BY <2>1, <2>2, <2>3, <2>4 DEF Paired, LeaseHasItsFrame
<1>22. FreshIsReady'
  <2>1. frames[f].fence # "pending"
    BY <1>1, <1>8 DEF FreshIsReady, Free
  <2> QED
    BY <1>1, <1>7, <1>9, <2>1 DEF FreshIsReady, Free
<1>23. Taken' = Taken \cup {nextSerial}
  BY <1>10, <1>14, <1>15 DEF Taken
<1>24. Flying' = Flying
  BY <1>16 DEF Flying
<1> QED
  BY <1>18, <1>19, <1>20, <1>21, <1>22, <1>23, <1>24

(* Who may present holds a lease, and the frame acquired for it.           *)
LEMMA HolderHasLease ==
    ASSUME VulkanAssumption, Sound, NEW t \in tokens, MayPresent(t)
    PROVE  /\ t.image \in Leased /\ t.image \in ImageSlots
           /\ t.serial \in Serials /\ t.serial = images[t.image].serial
           /\ FrameOf(t) \in FrameSlots /\ frames[FrameOf(t)].acquired
           /\ frames[FrameOf(t)].image = t.image /\ frames[FrameOf(t)].value = 0
<1>1. VulkanTypeOK /\ Paired
  BY DEF Sound
<1>2. t.image \in Nat /\ t.serial \in Serials
  BY <1>1 DEF VulkanTypeOK
<1>3. t.image < imageCount /\ images[t.image].acquired /\ t.serial = images[t.image].serial
      /\ frames[FrameOf(t)].acquired /\ frames[FrameOf(t)].value = 0
  BY DEF MayPresent, Owned
<1>4. t.image \in ImageSlots /\ t.image \in Leased
  BY <1>1, <1>2, <1>3, SlotTypes DEF ImageSlots
<1>5. FrameOf(t) \in FrameSlots
  BY <1>1, <1>4, SlotTypes DEF FrameOf, ImageRecord
<1>6. frames[FrameOf(t)].image = t.image
  BY <1>1, <1>4 DEF Paired, LeaseHasItsFrame, FrameOf
<1> QED
  BY <1>2, <1>3, <1>4, <1>5, <1>6

(* A present that ends before the queue is asked to show the image leaves the *)
(* lease, and of its frame the fence and the semaphore only are touched.   *)
LEMMA UnpresentedIsSound ==
    ASSUME VulkanAssumption, Sound, NEW t \in tokens, MayPresent(t), NEW r \in FrameRecord,
           frames' = [frames EXCEPT ![FrameOf(t)] = r],
           r.acquired, r.image = frames[FrameOf(t)].image, r.value = 0,
           r.available => frames[FrameOf(t)].available /\ r.fence # "pending",
           UNCHANGED <<conf, images, engine, acquired, inFlight, fences, history>>,
           {outOfDate', lost'} \subseteq BOOLEAN
    PROVE  Sound' /\ Taken' = Taken /\ Flying' = Flying
<1>1. VulkanTypeOK /\ Tallied /\ Distinct /\ Paired /\ FreshIsReady
  BY DEF Sound
<1> DEFINE f == FrameOf(t)
<1>2. /\ f \in FrameSlots /\ frames' = [frames EXCEPT ![f] = r]
      /\ frames[f].acquired /\ frames[f].value = 0
  BY HolderHasLease
<1>3. /\ configured' = configured /\ opens' = opens /\ generation' = generation /\ surface' = surface
      /\ pending' = pending /\ imageCount' = imageCount /\ images' = images /\ engine' = engine
      /\ acquired' = acquired /\ inFlight' = inFlight /\ nextFence' = nextFence
      /\ submitted' = submitted /\ completed' = completed
      /\ nextSerial' = nextSerial /\ tokens' = tokens /\ presents' = presents
  BY DEF conf, fences, history
<1>r. /\ r.acquired /\ r.image = frames[f].image /\ r.value = 0
      /\ r.available => frames[f].available /\ r.fence # "pending"
  OBVIOUS
<1> HIDE DEF f
<1>4. frames \in [FrameSlots -> FrameRecord]
  BY <1>1, SlotTypes
<1>5. frames' \in [FrameSlots -> FrameRecord]
  BY <1>2, <1>4
<1>6. frames'[f] = r /\ \A e \in FrameSlots : e # f => frames'[e] = frames[e]
  BY <1>2, <1>4
<1>7. \A e \in FrameSlots :
        /\ frames'[e].acquired = frames[e].acquired /\ frames'[e].image = frames[e].image
        /\ frames'[e].value = frames[e].value
  <2>1. frames[f].acquired = TRUE /\ r.acquired = TRUE
    BY <1>2, <1>4, <1>r DEF FrameRecord
  <2> QED
    BY <1>2, <1>6, <1>r, <2>1
<1>8. Leased' = Leased /\ Busy' = Busy /\ Taken' = Taken /\ Flying' = Flying
  BY <1>3, <1>7 DEF Leased, Busy, Taken, Flying
<1>9. VulkanTypeOK'
  BY <1>1, <1>3, <1>5 DEF VulkanTypeOK, FrameRecord
<1>10. Tallied'
  BY <1>1, <1>3, <1>8 DEF Tallied
<1>11. Distinct'
  <2>1. \A e \in Busy : frames'[e].value = frames[e].value
    BY <1>7 DEF Busy
  <2> QED
    BY <1>1, <1>3, <1>8, <2>1 DEF Distinct
<1>12. Paired'
  <2>1. \A i \in Leased : images[i].frame \in FrameSlots
    BY <1>1, SlotTypes DEF ImageRecord
  <2>2. \A i \in Leased' : frames'[images'[i].frame].acquired /\ frames'[images'[i].frame].image = i
    BY <1>1, <1>3, <1>7, <1>8, <2>1 DEF Paired, LeaseHasItsFrame
  <2>3. \A e \in FrameSlots : frames'[e].acquired =>
          /\ frames'[e].value = 0 /\ frames'[e].image \in Leased'
          /\ images'[frames'[e].image].frame = e
    BY <1>1, <1>3, <1>7, <1>8 DEF Paired, LeaseHasItsFrame
  <2>4. engine' \cap Leased' = {}
    BY <1>1, <1>3, <1>8 DEF Paired
  <2> QED
    BY <2>2, <2>3, <2>4 DEF Paired, LeaseHasItsFrame
<1>13. FreshIsReady'
  BY <1>1, <1>2, <1>6, <1>r DEF FreshIsReady, Free
<1> QED
  BY <1>8, <1>9, <1>10, <1>11, <1>12, <1>13 DEF Sound

(* A submission that fails early resets a fence; one that cannot be waited  *)
(* for hands the fence and the semaphore of its lease to the device.       *)
LEMMA EarlyFailureIsSound ==
    ASSUME VulkanAssumption, Sound, NEW t \in tokens, NEW result,
           PresentFailsEarly(t, result) \/ PresentWaitFails(t)
    PROVE  Sound' /\ Taken' = Taken /\ Flying' = Flying
<1> DEFINE f == FrameOf(t)
           early == [frames[f] EXCEPT !.fence = "reset"]
           late == [frames[f] EXCEPT !.fence = "pending", !.available = FALSE]
<1>1. MayPresent(t) /\ UNCHANGED <<conf, images, engine, acquired, inFlight, fences, history>>
  BY DEF PresentFailsEarly, PresentWaitFails
<1>2. {outOfDate', lost'} \subseteq BOOLEAN
  BY DEF PresentFailsEarly, PresentWaitFails, Marks, Sound, VulkanTypeOK, flags
<1>3. frames[f] \in FrameRecord /\ f \in FrameSlots /\ frames[f].acquired /\ frames[f].value = 0
  BY <1>1, HolderHasLease, SlotTypes DEF Sound
<1>4. CASE PresentFailsEarly(t, result)
  <2>1. frames' = [frames EXCEPT ![FrameOf(t)] = early]
    BY <1>3, <1>4 DEF PresentFailsEarly
  <2>2. /\ early \in FrameRecord /\ early.acquired /\ early.image = frames[f].image
        /\ early.value = 0 /\ early.available = frames[f].available /\ early.fence = "reset"
    BY <1>3 DEF FrameRecord
  <2> QED
    BY <1>1, <1>2, <2>1, <2>2, UnpresentedIsSound
<1>5. CASE PresentWaitFails(t)
  <2>1. frames' = [frames EXCEPT ![FrameOf(t)] = late]
    BY <1>3, <1>5 DEF PresentWaitFails
  <2>2. /\ late \in FrameRecord /\ late.acquired /\ late.image = frames[f].image
        /\ late.value = 0 /\ ~late.available
    BY <1>3 DEF FrameRecord
  <2> QED
    BY <1>1, <1>2, <2>1, <2>2, UnpresentedIsSound
<1> QED
  BY <1>4, <1>5

LEMMA SubmittedFrame ==
    ASSUME NEW r \in FrameRecord, nextFence \in 0..MaxAcquires
    PROVE  /\ Submitted(r) \in FrameRecord /\ Submitted(r).value = nextFence
           /\ ~Submitted(r).acquired /\ ~Submitted(r).available /\ Submitted(r).fence = "pending"
<1> DEFINE a == [r EXCEPT !.acquired = FALSE]
           b == [a EXCEPT !.value = nextFence]
           c == [b EXCEPT !.fence = "pending"]
           d == [c EXCEPT !.available = FALSE]
<1>1. a \in FrameRecord /\ ~a.acquired
  BY DEF FrameRecord
<1> HIDE DEF a
<1>2. b \in FrameRecord /\ ~b.acquired /\ b.value = nextFence
  BY <1>1 DEF FrameRecord
<1> HIDE DEF b
<1>3. c \in FrameRecord /\ ~c.acquired /\ c.value = nextFence /\ c.fence = "pending"
  BY <1>2 DEF FrameRecord
<1> HIDE DEF c
<1>4. d \in FrameRecord /\ ~d.acquired /\ d.value = nextFence /\ d.fence = "pending" /\ ~d.available
  BY <1>3 DEF FrameRecord
<1>5. Submitted(r) = d
  BY DEF Submitted, a, b, c
<1> HIDE DEF d
<1> QED
  BY <1>4, <1>5

(* A submitted frame flies under a new fence, and its lease is over.       *)
LEMMA PresentIsSound ==
    ASSUME VulkanAssumption, Sound, NEW t \in tokens, NEW result, Present(t, result)
    PROVE  /\ Sound'
           /\ Taken' = Taken \ {t.serial} /\ t.serial \in Taken
           /\ Flying' = Flying \cup {nextFence}
<1>1. VulkanTypeOK /\ Tallied /\ Distinct /\ Paired /\ FreshIsReady
  BY DEF Sound
<1> DEFINE f == FrameOf(t)
           i == t.image
<1>2. /\ i \in Leased /\ i \in ImageSlots /\ t.serial \in Serials /\ t.serial = images[i].serial
      /\ f \in FrameSlots /\ frames[f].acquired /\ frames[f].image = i /\ frames[f].value = 0
  BY HolderHasLease DEF Present
<1>3. /\ frames' = [frames EXCEPT ![f] = Submitted(frames[f])]
      /\ images' = [images EXCEPT ![i].acquired = FALSE]
      /\ engine' \subseteq engine \cup {i}
      /\ presents' = [presents EXCEPT ![t.serial] = @ + 1]
  BY DEF Present
<1>4. /\ acquired' = acquired - 1 /\ inFlight' = inFlight + 1
      /\ submitted' = nextFence /\ nextFence' = nextFence + 1
      /\ outOfDate' = (outOfDate \/ result = "OutOfDate") /\ lost' = (lost \/ result = "DeviceLost")
      /\ configured' = configured /\ opens' = opens /\ generation' = generation /\ surface' = surface
      /\ pending' = pending /\ imageCount' = imageCount
      /\ completed' = completed /\ nextSerial' = nextSerial /\ tokens' = tokens /\ configured
      /\ inFlight < MaxFrames
  BY DEF Present, MayPresent, Marks, conf, Counted
<1>f. FrameOf(t) = images[i].frame
  BY DEF FrameOf
<1> HIDE DEF f, i
<1>5. /\ images \in [ImageSlots -> ImageRecord] /\ frames \in [FrameSlots -> FrameRecord]
      /\ acquired \in Nat /\ inFlight \in Nat /\ nextFence \in Nat /\ nextSerial \in Nat
      /\ submitted \in Nat /\ completed \in Nat /\ MaxFrames \in Nat /\ MaxAcquires \in Nat
  BY <1>1, SlotTypes DEF VulkanAssumption
<1>6. IsFiniteSet(Leased) /\ IsFiniteSet(Busy)
  BY <1>1, SlotsFinite
<1>7. images' \in [ImageSlots -> ImageRecord] /\ DOMAIN images' = ImageSlots
      /\ ~images'[i].acquired
      /\ \A j \in ImageSlots : /\ j # i => images'[j].acquired = images[j].acquired
                               /\ images'[j].frame = images[j].frame
                               /\ images'[j].serial = images[j].serial
  <2>1. [images[i] EXCEPT !.acquired = FALSE] \in ImageRecord
    BY <1>2, <1>5 DEF ImageRecord
  <2>2. images' \in [ImageSlots -> ImageRecord]
    BY <1>2, <1>3, <1>5, <2>1
  <2> QED
    BY <1>2, <1>3, <1>5, <2>2 DEF ImageRecord
<1>8. Leased' = Leased \ {i}
  BY <1>1, <1>2, <1>7, SlotTypes DEF Leased
<1>9. Cardinality(Leased') = acquired - 1 /\ acquired \in Nat \ {0}
  <2>1. Cardinality(Leased') = Cardinality(Leased) - 1
    BY <1>2, <1>6, <1>8, FS_RemoveElement
  <2>2. Leased # {}
    BY <1>2
  <2>3. Cardinality(Leased) # 0
    BY <1>6, <2>2, FS_EmptySet
  <2> QED
    BY <1>1, <1>5, <2>1, <2>3 DEF Tallied
<1>10. nextFence \in 1..MaxAcquires
  <2>1. nextFence + acquired <= nextSerial /\ nextSerial \in 1..MaxAcquires + 1
        /\ nextFence \in 1..MaxAcquires + 1
    BY <1>1 DEF Tallied, VulkanTypeOK
  <2> QED
    BY <1>5, <1>9, <2>1
<1>11. /\ frames'[f].value = nextFence /\ ~frames'[f].acquired /\ ~frames'[f].available
       /\ frames'[f].fence = "pending" /\ frames'[f] \in FrameRecord
       /\ \A e \in FrameSlots : e # f => frames'[e] = frames[e]
  <2>1. frames'[f] = Submitted(frames[f])
    BY <1>2, <1>3, <1>5
  <2>2. frames[f] \in FrameRecord
    BY <1>2, <1>5
  <2>3. /\ Submitted(frames[f]).value = nextFence /\ ~Submitted(frames[f]).acquired
        /\ ~Submitted(frames[f]).available /\ Submitted(frames[f]).fence = "pending"
        /\ Submitted(frames[f]) \in FrameRecord
    BY <1>10, <2>2, SubmittedFrame
  <2> QED
    BY <1>2, <1>3, <1>5, <2>1, <2>3
<1>12. frames' \in [FrameSlots -> FrameRecord]
  BY <1>2, <1>3, <1>5, <1>11
<1>13. Busy' = Busy \cup {f} /\ f \notin Busy
  BY <1>2, <1>10, <1>11 DEF Busy
<1>14. VulkanTypeOK'
  <2>1. presents' \in [Serials -> Nat]
    <3>1. presents \in [Serials -> Nat]
      BY <1>1 DEF VulkanTypeOK
    <3>2. presents[t.serial] + 1 \in Nat
      BY <1>2, <3>1
    <3> QED
      BY <1>2, <1>3, <3>1, <3>2
  <2>2. {acquired', inFlight'} \subseteq 0..MaxFrames
    <3>1. acquired <= MaxFrames
      BY <1>1 DEF VulkanTypeOK
    <3> QED
      BY <1>4, <1>5, <1>9, <3>1
  <2>3. engine' \subseteq 0..imageCount' - 1
    BY <1>1, <1>2, <1>3, <1>4 DEF VulkanTypeOK, ImageSlots
  <2>4. submitted' \in Nat /\ nextFence' \in 1..MaxAcquires + 1
        /\ completed' <= submitted' /\ submitted' < nextFence'
    BY <1>1, <1>4, <1>5, <1>10 DEF VulkanTypeOK
  <2> QED
    BY <1>1, <1>4, <1>7, <1>12, <2>1, <2>2, <2>3, <2>4
       DEF VulkanTypeOK, ImageSlots, ImageRecord, FrameRecord
<1>15. Tallied'
  <2>1. Cardinality(Busy') = inFlight + 1
    BY <1>1, <1>6, <1>13, FS_AddElement DEF Tallied
  <2>2. acquired' + inFlight' <= MaxFrames /\ nextFence' + acquired' <= nextSerial'
    BY <1>1, <1>4, <1>5 DEF Tallied
  <2> QED
    BY <1>4, <1>9, <2>1, <2>2 DEF Tallied
<1>16. Distinct'
  <2>1. \A j \in Leased' : images'[j].serial \in 1..nextSerial' - 1
    BY <1>1, <1>4, <1>7, <1>8, SlotTypes DEF Distinct
  <2>2. \A j, k \in Leased' : images'[j].serial = images'[k].serial => j = k
    BY <1>1, <1>7, <1>8, SlotTypes DEF Distinct
  <2>3. \A e \in Busy : /\ frames'[e].value = frames[e].value
                        /\ completed < frames[e].value /\ frames[e].value <= submitted
                        /\ frames[e].value \in Nat
    BY <1>1, <1>5, <1>11, <1>13 DEF Distinct, Busy, FrameRecord
  <2>4. submitted < nextFence /\ completed < nextFence
    BY <1>1, <1>5 DEF VulkanTypeOK
  <2>5. \A e \in Busy' : completed' < frames'[e].value /\ frames'[e].value <= submitted'
    BY <1>4, <1>5, <1>11, <1>13, <2>3, <2>4
  <2>6. \A e \in Busy : frames[e].value # nextFence
    BY <1>5, <2>3, <2>4
  <2>7. \A e, g \in Busy' : frames'[e].value = frames'[g].value => e = g
    BY <1>1, <1>11, <1>13, <2>3, <2>6 DEF Distinct
  <2> QED
    BY <2>1, <2>2, <2>5, <2>7 DEF Distinct
<1>17. Paired'
  <2>1. engine' \cap Leased' = {}
    BY <1>1, <1>3, <1>8 DEF Paired
  <2>2. ASSUME NEW e \in FrameSlots, frames'[e].acquired
        PROVE  /\ frames'[e].value = 0 /\ frames'[e].image \in Leased'
               /\ images'[frames'[e].image].frame = e
    <3>1. e # f /\ frames'[e] = frames[e]
      BY <1>11, <2>2
    <3>2. frames[e].value = 0 /\ frames[e].image \in Leased /\ images[frames[e].image].frame = e
      BY <1>1, <2>2, <3>1 DEF Paired, LeaseHasItsFrame
    <3>3. frames[e].image \in ImageSlots
      BY <1>1, <3>2, SlotTypes
    <3>4. frames[e].image # i
      BY <1>f, <3>1, <3>2 DEF f
    <3> QED
      BY <1>7, <1>8, <3>1, <3>2, <3>3, <3>4
  <2>3. ASSUME NEW j \in Leased'
        PROVE  frames'[images'[j].frame].acquired /\ frames'[images'[j].frame].image = j
    <3>1. j \in Leased /\ j # i /\ j \in ImageSlots
      BY <1>1, <1>8, SlotTypes
    <3>2. images[j].frame \in FrameSlots /\ frames[images[j].frame].acquired
          /\ frames[images[j].frame].image = j
      BY <1>1, <1>5, <3>1 DEF Paired, LeaseHasItsFrame, ImageRecord
    <3>3. images[j].frame # f
      BY <1>2, <3>1, <3>2
    <3> QED
      BY <1>7, <1>11, <3>1, <3>2, <3>3
  <2> QED
    BY <2>1, <2>2, <2>3 DEF Paired, LeaseHasItsFrame
<1>18. FreshIsReady'
  BY <1>1, <1>10, <1>11 DEF FreshIsReady, Free
<1>19. Taken' = Taken \ {t.serial} /\ t.serial \in Taken
  <2>1. \A j \in Leased : images'[j].serial = images[j].serial
    BY <1>1, <1>7, SlotTypes
  <2>2. \A j \in Leased : images[j].serial = images[i].serial => j = i
    BY <1>1, <1>2 DEF Distinct
  <2>3. Taken' = {images[j].serial : j \in Leased \ {i}}
    BY <1>8, <2>1 DEF Taken
  <2> QED
    BY <1>2, <2>2, <2>3 DEF Taken
<1>20. Flying' = Flying \cup {nextFence}
  <2>1. Flying = {frames[e].value : e \in Busy}
    BY DEF Flying, Busy
  <2>2. Flying' = {frames'[e].value : e \in Busy'}
    BY DEF Flying, Busy
  <2>3. \A e \in Busy : frames'[e].value = frames[e].value
    BY <1>11, <1>13 DEF Busy
  <2> QED
    BY <1>11, <1>13, <2>1, <2>2, <2>3
<1> QED
  BY <1>14, <1>15, <1>16, <1>17, <1>18, <1>19, <1>20 DEF Sound

(* Frames whose fences are due fly no more; those that fly on were not due *)
(* or come after a wait that failed.                                       *)
LEMMA RetireIsSound ==
    ASSUME VulkanAssumption, Sound, NEW v \in completed..submitted, NEW F \in SUBSET Due(v),
           RetireFrames(F), completed' = completed \/ (completed' = v /\ F = Due(v)),
           {outOfDate', lost'} \subseteq BOOLEAN
    PROVE  Sound' /\ Taken' = Taken /\ Flying' \subseteq Flying
<1>1. VulkanTypeOK /\ Tallied /\ Distinct /\ Paired /\ FreshIsReady
  BY DEF Sound
<1>2. /\ frames' = [f \in FrameSlots |-> IF f \in F THEN WaitedFor(frames[f]) ELSE frames[f]]
      /\ inFlight' = inFlight - Cardinality(F)
      /\ configured' = configured /\ opens' = opens /\ generation' = generation /\ surface' = surface
      /\ pending' = pending /\ imageCount' = imageCount /\ images' = images /\ engine' = engine
      /\ acquired' = acquired /\ nextFence' = nextFence /\ submitted' = submitted
      /\ nextSerial' = nextSerial /\ tokens' = tokens /\ presents' = presents
  BY DEF RetireFrames, conf, history
<1>3. /\ frames \in [FrameSlots -> FrameRecord] /\ acquired \in Nat /\ inFlight \in Nat
      /\ nextFence \in Nat /\ nextSerial \in Nat /\ submitted \in Nat /\ completed \in Nat
      /\ MaxFrames \in Nat /\ v \in Nat /\ v <= submitted /\ completed <= v
  BY <1>1, SlotTypes DEF VulkanAssumption
<1>4. IsFiniteSet(Busy)
  BY <1>1, SlotsFinite
<1>5. F \subseteq Busy /\ \A f \in F : f \in FrameSlots /\ frames[f].value \in 1..v
  BY DEF Due, Busy
<1>6. \A f \in F : /\ frames'[f].value = 0 /\ frames'[f].fence = "signaled"
                   /\ frames'[f].acquired = frames[f].acquired /\ frames'[f].image = frames[f].image
                   /\ frames'[f].available = frames[f].available /\ frames'[f] \in FrameRecord
  <2> SUFFICES ASSUME NEW f \in F
               PROVE  /\ frames'[f].value = 0 /\ frames'[f].fence = "signaled"
                      /\ frames'[f].acquired = frames[f].acquired /\ frames'[f].image = frames[f].image
                      /\ frames'[f].available = frames[f].available /\ frames'[f] \in FrameRecord
    OBVIOUS
  <2>1. frames'[f] = [frames[f] EXCEPT !.value = 0, !.fence = "signaled"]
    BY <1>2, <1>5 DEF WaitedFor
  <2>2. frames[f] \in FrameRecord
    BY <1>3, <1>5
  <2>3. frames'[f] = [acquired |-> frames[f].acquired, image |-> frames[f].image, value |-> 0,
                      fence |-> "signaled", available |-> frames[f].available]
    BY <2>1, <2>2 DEF FrameRecord
  <2>4. frames[f].acquired \in BOOLEAN /\ frames[f].image \in Nat /\ frames[f].available \in BOOLEAN
    BY <2>2 DEF FrameRecord
  <2>5. MaxAcquires \in Nat
    BY DEF VulkanAssumption
  <2>6. frames'[f] \in FrameRecord
    BY <2>3, <2>4, <2>5 DEF FrameRecord
  <2> QED
    BY <2>3, <2>6
<1>7. \A f \in FrameSlots : f \notin F => frames'[f] = frames[f]
  BY <1>2
<1>8. frames' \in [FrameSlots -> FrameRecord]
  BY <1>2, <1>3, <1>6, <1>7
<1>9. Leased' = Leased /\ Taken' = Taken
  BY <1>2 DEF Leased, Taken
<1>10. Busy' = Busy \ F
  BY <1>5, <1>6, <1>7 DEF Busy
<1>11. \A f \in Busy' : f \in Busy /\ f \notin F /\ frames'[f].value = frames[f].value
  BY <1>7, <1>10 DEF Busy
<1>12. inFlight' = Cardinality(Busy') /\ inFlight' \in Nat /\ inFlight' <= inFlight
  <2>1. Cardinality(Busy') = Cardinality(Busy) - Cardinality(F)
    <3>1. Busy \cap F = F
      BY <1>5
    <3>2. Cardinality(Busy \ F) = Cardinality(Busy) - Cardinality(Busy \cap F)
      BY <1>4, FS_Difference
    <3> QED
      BY <1>10, <3>1, <3>2
  <2>2. IsFiniteSet(F) /\ IsFiniteSet(Busy')
    BY <1>4, <1>5, <1>10, FS_Subset
  <2>3. Cardinality(F) \in Nat /\ Cardinality(Busy') \in Nat
    BY <2>2, FS_CardinalityType
  <2> QED
    BY <1>1, <1>2, <1>3, <2>1, <2>3 DEF Tallied
<1>13. VulkanTypeOK'
  <2>1. inFlight' \in 0..MaxFrames
    <3>1. inFlight <= MaxFrames
      BY <1>1 DEF VulkanTypeOK
    <3> QED
      BY <1>3, <1>12, <3>1
  <2>2. completed' \in Nat /\ completed' <= submitted'
    BY <1>1, <1>2, <1>3 DEF VulkanTypeOK
  <2> QED
    BY <1>1, <1>2, <1>8, <2>1, <2>2 DEF VulkanTypeOK, FrameRecord
<1>14. Tallied'
  <2>1. acquired' + inFlight' <= MaxFrames
    BY <1>1, <1>2, <1>3, <1>12 DEF Tallied
  <2>2. configured' \/ (acquired' = 0 /\ inFlight' = 0)
    <3>1. configured \/ (acquired = 0 /\ inFlight = 0)
      BY <1>1 DEF Tallied
    <3>2. inFlight = 0 => inFlight' = 0
      BY <1>12
    <3> QED
      BY <1>2, <3>1, <3>2
  <2> QED
    BY <1>1, <1>2, <1>9, <1>12, <2>1, <2>2 DEF Tallied
<1>15. Distinct'
  <2>1. ASSUME NEW f \in Busy'
        PROVE  completed' < frames'[f].value /\ frames'[f].value <= submitted'
    <3>1. f \in Busy /\ f \notin F /\ f \in FrameSlots /\ frames'[f].value = frames[f].value
      BY <1>11 DEF Busy
    <3>2. completed < frames[f].value /\ frames[f].value <= submitted /\ frames[f].value \in Nat
      BY <1>1, <1>3, <3>1 DEF Distinct, FrameRecord
    <3>3. CASE completed' = completed
      BY <1>2, <3>1, <3>2, <3>3
    <3>4. CASE completed' = v /\ F = Due(v)
      <4>1. frames[f].value \notin 1..v
        BY <3>1, <3>4 DEF Due
      <4>2. v < frames[f].value
        BY <1>3, <3>2, <4>1
      <4> QED
        BY <1>2, <3>1, <3>2, <3>4, <4>2
    <3> QED
      BY <3>3, <3>4
  <2>2. \A e, f \in Busy' : frames'[e].value = frames'[f].value => e = f
    BY <1>1, <1>11 DEF Distinct
  <2>3. \A i \in Leased' : images'[i].serial \in 1..nextSerial' - 1
    BY <1>1, <1>2, <1>9 DEF Distinct
  <2>4. \A i, j \in Leased' : images'[i].serial = images'[j].serial => i = j
    BY <1>1, <1>2, <1>9 DEF Distinct
  <2> QED
    BY <2>1, <2>2, <2>3, <2>4 DEF Distinct
<1>16. \A f \in FrameSlots : /\ frames'[f].acquired = frames[f].acquired
                             /\ frames'[f].image = frames[f].image
                             /\ frames'[f].available = frames[f].available
                             /\ frames[f].value = 0 => frames'[f].value = 0
  BY <1>6, <1>7
<1>17. Paired'
  <2>1. \A i \in Leased : images[i].frame \in FrameSlots
    BY <1>1, SlotTypes DEF ImageRecord
  <2>2. \A i \in Leased' : frames'[images'[i].frame].acquired /\ frames'[images'[i].frame].image = i
    BY <1>1, <1>2, <1>9, <1>16, <2>1 DEF Paired, LeaseHasItsFrame
  <2>3. \A e \in FrameSlots : frames'[e].acquired =>
          /\ frames'[e].value = 0 /\ frames'[e].image \in Leased'
          /\ images'[frames'[e].image].frame = e
    BY <1>1, <1>2, <1>9, <1>16 DEF Paired, LeaseHasItsFrame
  <2>4. engine' \cap Leased' = {}
    BY <1>1, <1>2, <1>9 DEF Paired
  <2> QED
    BY <2>2, <2>3, <2>4 DEF Paired, LeaseHasItsFrame
<1>18. FreshIsReady'
  <2>1. \A e \in F : ~frames[e].available
    BY <1>1, <1>5 DEF FreshIsReady
  <2> QED
    BY <1>1, <1>5, <1>6, <1>7, <2>1 DEF FreshIsReady, Free
<1>19. Flying' \subseteq Flying
  <2>1. Flying = {frames[e].value : e \in Busy} /\ Flying' = {frames'[e].value : e \in Busy'}
    BY DEF Flying, Busy
  <2> QED
    BY <1>11, <2>1
<1> QED
  BY <1>9, <1>13, <1>14, <1>15, <1>17, <1>18, <1>19 DEF Sound

--------------------------------------------------------------------------------
LEMMA ConfigureIsSound ==
    ASSUME VulkanAssumption, Sound, NEW g \in 1..MaxGeneration, NEW s \in 1..MaxGeneration,
           Configure(g, s)
    PROVE  Sound' /\ Taken' = {} /\ Flying' = {}
<1>1. PICK n \in ImageCounts : Rebuilt(n)
  BY DEF Configure, Publish
<1>2. opens' \in 0..MaxOpens
  BY SMTT(60) DEF Configure, Sound, VulkanTypeOK, VulkanAssumption
<1>3. {generation', surface', pending'} \subseteq 0..MaxGeneration
  BY DEF Configure, Publish, VulkanAssumption
<1>4. {configured', outOfDate', lost'} \subseteq BOOLEAN
  BY DEF Configure, Publish
<1> QED
  BY <1>1, <1>2, <1>3, <1>4, RebuiltIsSound

LEMMA RecreateIsSound ==
    ASSUME VulkanAssumption, Sound, NEW g \in 1..MaxGeneration, Recreate(g)
    PROVE  Sound' /\ Taken' = {} /\ Flying' = {}
<1>1. PICK n \in ImageCounts : Rebuilt(n)
  BY DEF Recreate, Publish
<1>2. opens' \in 0..MaxOpens
  BY DEF Recreate, Sound, VulkanTypeOK
<1>3. {generation', surface', pending'} \subseteq 0..MaxGeneration
  BY DEF Recreate, Publish, VulkanAssumption, Sound, VulkanTypeOK
<1>4. {configured', outOfDate', lost'} \subseteq BOOLEAN
  BY DEF Recreate, Publish
<1> QED
  BY <1>1, <1>2, <1>3, <1>4, RebuiltIsSound

LEMMA ShutdownIsSound ==
    ASSUME VulkanAssumption, Sound, Shutdown
    PROVE  Sound' /\ Taken' = {} /\ Flying' = {}
<1>1. {configured', outOfDate', lost'} \subseteq BOOLEAN /\ opens' \in 0..MaxOpens
      /\ {generation', surface', pending'} \subseteq 0..MaxGeneration
  BY DEF Shutdown, flags, Sound, VulkanTypeOK
<1> QED
  BY <1>1, RebuiltIsSound DEF Shutdown

(* A resize asked for, or an acquire that fails, is told in flags only.    *)
LEMMA FlagsAreSound ==
    ASSUME VulkanAssumption, Sound,
           \/ \E s \in 1..MaxGeneration : RequestResize(s)
           \/ \E result \in {"OutOfDate", "DeviceLost"} : AcquireFails(result)
    PROVE  Sound' /\ Taken' = Taken /\ Flying' = Flying
<1>1. ASSUME NEW s \in 1..MaxGeneration, RequestResize(s)
      PROVE  Sound' /\ Taken' = Taken /\ Flying' = Flying
  <2>1. {outOfDate', lost'} \subseteq BOOLEAN /\ opens' \in 0..MaxOpens
        /\ {generation', surface', pending'} \subseteq 0..MaxGeneration
    BY <1>1 DEF RequestResize, Sound, VulkanTypeOK, VulkanAssumption
  <2>2. UNCHANGED <<imageCount, images, frames, engine, acquired, inFlight, fences, history>>
        /\ configured' = configured
    BY <1>1 DEF RequestResize
  <2> QED
    BY <2>1, <2>2, SlotsStay
<1>2. ASSUME NEW result \in {"OutOfDate", "DeviceLost"}, AcquireFails(result)
      PROVE  Sound' /\ Taken' = Taken /\ Flying' = Flying
  <2>1. {outOfDate', lost'} \subseteq BOOLEAN /\ opens' \in 0..MaxOpens
        /\ {generation', surface', pending'} \subseteq 0..MaxGeneration
    BY <1>2 DEF AcquireFails, Marks, conf, Sound, VulkanTypeOK
  <2>2. UNCHANGED <<imageCount, images, frames, engine, acquired, inFlight, fences, history>>
        /\ configured' = configured
    BY <1>2 DEF AcquireFails, conf
  <2> QED
    BY <2>1, <2>2, SlotsStay
<1> QED
  BY <1>1, <1>2

LEMMA RetiringIsSound ==
    ASSUME VulkanAssumption, Sound, NEW v,
           \/ RetireCompleted(v)
           \/ \E f \in FrameSlots, result \in {"Failed", "DeviceLost"} : RetireFails(v, f, result)
    PROVE  Sound' /\ Taken' = Taken /\ Flying' \subseteq Flying
<1>1. CASE RetireCompleted(v)
  <2>1. v \in completed..submitted /\ RetireFrames(Due(v)) /\ completed' = v
        /\ outOfDate' = outOfDate /\ lost' = lost
    BY <1>1 DEF RetireCompleted, InTimeline, flags
  <2>2. {outOfDate', lost'} \subseteq BOOLEAN /\ Due(v) \in SUBSET Due(v)
    BY <2>1 DEF Sound, VulkanTypeOK
  <2> QED
    BY <2>1, <2>2, RetireIsSound
<1>2. ASSUME NEW f \in FrameSlots, NEW result \in {"Failed", "DeviceLost"}, RetireFails(v, f, result)
      PROVE  Sound' /\ Taken' = Taken /\ Flying' \subseteq Flying
  <2> DEFINE F == {e \in Due(v) : e < f}
  <2>1. v \in completed..submitted /\ RetireFrames(F) /\ completed' = completed
    BY <1>2 DEF RetireFails, InTimeline
  <2>2. {outOfDate', lost'} \subseteq BOOLEAN
    BY <1>2 DEF RetireFails, Marks, Sound, VulkanTypeOK
  <2>3. F \in SUBSET Due(v)
    OBVIOUS
  <2> HIDE DEF F
  <2> QED
    BY <2>1, <2>2, <2>3, RetireIsSound
<1> QED
  BY <1>1, <1>2

LEMMA SoundAtFirst == ASSUME VulkanAssumption, Init PROVE Sound
<1>1. /\ configured = FALSE /\ opens = 0 /\ generation = 0 /\ surface = 0 /\ pending = 0
      /\ imageCount = 0 /\ outOfDate = FALSE /\ lost = FALSE
      /\ images = [i \in 0..0 - 1 |-> NoImage] /\ frames = [f \in FrameSlots |-> NoFrame]
      /\ engine = {} /\ nextSerial = 1 /\ nextFence = 1 /\ acquired = 0 /\ inFlight = 0
      /\ submitted = 0 /\ completed = 0 /\ tokens = {} /\ presents = [s \in Serials |-> 0]
  BY DEF Init, FreshImages, FreshFrames
<1>2. MaxFrames \in Nat \ {0} /\ MaxOpens \in Nat /\ MaxGeneration \in Nat /\ MaxAcquires \in Nat
  BY DEF VulkanAssumption
<1>3. NoFrame \in FrameRecord
  BY <1>2 DEF NoFrame, FrameRecord
<1>4. \A f \in FrameSlots : frames[f] = NoFrame
  BY <1>1
<1>5. Leased = {} /\ Busy = {}
  BY <1>1, <1>4 DEF Leased, Busy, NoFrame
<1>6. VulkanTypeOK
  <2>1. images \in [0..imageCount - 1 -> ImageRecord]
    BY <1>1
  <2>2. frames \in [FrameSlots -> FrameRecord]
    BY <1>1, <1>3
  <2>3. engine \subseteq 0..imageCount - 1 /\ {acquired, inFlight} \subseteq 0..MaxFrames
        /\ nextSerial \in 1..MaxAcquires + 1 /\ nextFence \in 1..MaxAcquires + 1
        /\ {completed, submitted} \subseteq Nat /\ completed <= submitted /\ submitted < nextFence
    BY <1>1, <1>2
  <2>4. presents \in [Serials -> Nat] /\ opens \in 0..MaxOpens
        /\ {generation, surface, pending} \subseteq 0..MaxGeneration
        /\ imageCount \in ImageCounts \cup {0}
    BY <1>1, <1>2
  <2>6. {configured, outOfDate, lost} \subseteq BOOLEAN
    BY <1>1
  <2>5. tokens = {}
    BY <1>1
  <2> QED
    BY <2>1, <2>2, <2>3, <2>4, <2>5, <2>6 DEF VulkanTypeOK, ImageRecord, FrameRecord
<1>7. Tallied
  BY <1>1, <1>2, <1>5, FS_EmptySet DEF Tallied
<1>8. Distinct
  BY <1>5 DEF Distinct
<1>9. Paired
  BY <1>1, <1>4, <1>5 DEF Paired, LeaseHasItsFrame, NoFrame
<1>10. FreshIsReady
  BY <1>4 DEF FreshIsReady, Free, NoFrame
<1> QED
  BY <1>6, <1>7, <1>8, <1>9, <1>10 DEF Sound

LEMMA NothingMoves ==
    ASSUME Sound, UNCHANGED vars
    PROVE  Sound' /\ Taken' = Taken /\ Flying' = Flying
<1>1. UNCHANGED <<conf, flags, images, frames, engine, acquired, inFlight, fences, history>>
  BY DEF vars
<1>2. Leased' = Leased /\ Busy' = Busy
  BY <1>1 DEF Leased, Busy
<1>3. VulkanTypeOK'
  BY <1>1 DEF Sound, VulkanTypeOK, conf, flags, fences, history
<1>4. Tallied' /\ Distinct' /\ Paired' /\ FreshIsReady'
  BY <1>1, <1>2 DEF Sound, Tallied, Distinct, Paired, LeaseHasItsFrame, FreshIsReady, Free,
                    conf, fences, history
<1>5. Taken' = Taken /\ Flying' = Flying
  BY <1>1, <1>2 DEF Taken, Flying
<1> QED
  BY <1>3, <1>4, <1>5 DEF Sound

LEMMA SoundHolds == ASSUME VulkanAssumption PROVE Spec => []Sound
<1>1. Init => Sound
  BY SoundAtFirst
<1>2. ASSUME Sound, [Next]_vars PROVE Sound'
  <2>1. ASSUME NEW g \in 1..MaxGeneration, NEW s \in 1..MaxGeneration, Configure(g, s)
        PROVE  Sound'
    BY <1>2, <2>1, ConfigureIsSound
  <2>2. ASSUME NEW g \in 1..MaxGeneration, Recreate(g)
        PROVE  Sound'
    BY <1>2, <2>2, RecreateIsSound
  <2>3. CASE Shutdown
    BY <1>2, <2>3, ShutdownIsSound
  <2>4. ASSUME NEW i \in engine, Acquire(i)
        PROVE  Sound'
    BY <1>2, <2>4, AcquireIsSound
  <2>5. CASE \/ \E s \in 1..MaxGeneration : RequestResize(s)
             \/ \E result \in {"OutOfDate", "DeviceLost"} : AcquireFails(result)
    BY <1>2, <2>5, FlagsAreSound
  <2>6. ASSUME NEW t \in tokens, NEW result, PresentFailsEarly(t, result) \/ PresentWaitFails(t)
        PROVE  Sound'
    BY <1>2, <2>6, EarlyFailureIsSound
  <2>7. ASSUME NEW t \in tokens, NEW result, Present(t, result)
        PROVE  Sound'
    BY <1>2, <2>7, PresentIsSound
  <2>8. ASSUME NEW v, \/ RetireCompleted(v)
                      \/ \E f \in FrameSlots, result \in {"Failed", "DeviceLost"} : RetireFails(v, f, result)
        PROVE  Sound'
    BY <1>2, <2>8, RetiringIsSound
  <2>9. CASE UNCHANGED vars
    BY <1>2, <2>9, NothingMoves
  <2> QED
    BY <1>2, <2>1, <2>2, <2>3, <2>4, <2>5, <2>6, <2>7, <2>8, <2>9 DEF Next
<1> QED
  BY <1>1, <1>2, PTL DEF Spec

(* The states are well typed for any images a driver makes: counters stay  *)
(* within the frame slots, and fence values within the acquires.           *)
THEOREM VulkanTypeCorrect == ASSUME VulkanAssumption PROVE Spec => []VulkanTypeOK
<1>1. Sound => VulkanTypeOK
  BY DEF Sound
<1> QED
  BY <1>1, SoundHolds, PTL

(* The counters acquire and recreate decide by are the state of the slots, *)
(* every lease has a frame of its own, which is fit for submission until   *)
(* its semaphore is handed to the device, a free frame is fit for a lease, *)
(* and no fence that was retired flies on.  Acquires, submissions, waits   *)
(* for pixels and retirements may fail in between; a lease whose wait for  *)
(* its pixels failed keeps its frame, and is promised no more than that.   *)
THEOREM SlotsAgreeAlways == ASSUME VulkanAssumption PROVE Spec => []SlotsAgree
<1>1. ASSUME Sound PROVE SlotsAgree
  <2>1. CountsExact
    BY <1>1, Sizes, SlotTypes DEF CountsExact, Sound, Tallied
  <2>2. RetiredHasLanded
    <3>1. Flying = {frames[f].value : f \in Busy}
      BY DEF Flying, Busy
    <3> QED
      BY <1>1, <3>1 DEF RetiredHasLanded, Sound, Distinct
  <2> QED
    BY <1>1, <2>1, <2>2 DEF SlotsAgree, Sound, Paired
<1> QED
  BY <1>1, SoundHolds, PTL

(* A present is accepted only from the holder of a lease, and ends it.     *)
THEOREM LeaseIsPresented == ASSUME VulkanAssumption PROVE Spec => OnlyTheLeaseIsPresented
<1>1. ASSUME Sound, [Next]_vars, NEW s \in Serials, presents'[s] # presents[s]
      PROVE  s \in Taken /\ s \notin Taken'
  <2>1. PICK t \in tokens, result \in {"Presented", "OutOfDate", "DeviceLost", "Failed"} :
            Present(t, result)
    <3>1. ASSUME UNCHANGED presents PROVE FALSE
      BY <1>1, <3>1
    <3>2. ~ UNCHANGED vars
      BY <3>1 DEF vars, history
    <3>3. Next
      BY <1>1, <3>2
    <3>4. ASSUME NEW g, NEW r, \/ Configure(g, r) \/ Recreate(g) \/ RequestResize(r) \/ Shutdown
                               \/ Acquire(g) \/ AcquireFails(r) PROVE FALSE
      BY <3>1, <3>4 DEF Configure, Recreate, Publish, Rebuilt, RequestResize, Shutdown,
                        Acquire, AcquireFails, history
    <3>5. ASSUME NEW t, NEW r, NEW f, \/ PresentFailsEarly(t, r) \/ PresentWaitFails(t)
                                      \/ RetireCompleted(t) \/ RetireFails(t, f, r) PROVE FALSE
      BY <3>1, <3>5 DEF PresentFailsEarly, PresentWaitFails, RetireCompleted, RetireFails, RetireFrames, history
    <3> QED
      BY <3>3, <3>4, <3>5 DEF Next
  <2>2. t.serial \in Taken /\ Taken' = Taken \ {t.serial}
    BY <1>1, <2>1, PresentIsSound
  <2>3. presents' = [presents EXCEPT ![t.serial] = @ + 1] /\ presents \in [Serials -> Nat]
    BY <1>1, <2>1 DEF Present, Sound, VulkanTypeOK
  <2>4. s = t.serial
    BY <1>1, <2>3
  <2> QED
    BY <2>2, <2>4
<1>2. Sound /\ [Next]_vars
      => [\A s \in Serials : presents'[s] # presents[s] => s \in Taken /\ s \notin Taken']_vars
  BY <1>1
<1> QED
  BY <1>2, SoundHolds, PTL DEF Spec, OnlyTheLeaseIsPresented

--------------------------------------------------------------------------------
(* The refinement.                                                         *)

LEMMA OpensAnew ==
    ASSUME VulkanAssumption, Sound, NEW g \in 1..MaxGeneration, NEW s \in 1..MaxGeneration,
           Configure(g, s)
    PROVE  Leases!Open
<1>1. /\ ~configured /\ configured' = TRUE /\ generation' = g
      /\ nextSerial' = nextSerial /\ nextFence' = nextFence
  BY DEF Configure, Publish, Rebuilt, fences, history
<1>2. Taken' = {} /\ Flying' = {}
  BY ConfigureIsSound
<1>3. Taken = {} /\ Flying = {}
  BY <1>1, Sizes, FS_EmptySet DEF Sound, Tallied
<1> QED
  BY <1>1, <1>2, <1>3 DEF Leases!Open

LEMMA RenewsDrained ==
    ASSUME VulkanAssumption, Sound, NEW g \in 1..MaxGeneration, Recreate(g)
    PROVE  Leases!Renew
<1>1. /\ configured /\ configured' = TRUE /\ generation' = g /\ g > generation
      /\ nextSerial' = nextSerial /\ nextFence' = nextFence /\ acquired = 0 /\ inFlight = 0
  BY DEF Recreate, Publish, Rebuilt, Drained, fences, history
<1>2. Taken' = {} /\ Flying' = {}
  BY RecreateIsSound
<1>3. Taken = {} /\ Flying = {}
  BY <1>1, Sizes, FS_EmptySet
<1> QED
  BY <1>1, <1>2, <1>3 DEF Leases!Renew

LEMMA ClosesAll ==
    ASSUME VulkanAssumption, Sound, Shutdown
    PROVE  Leases!Close
<1>1. /\ configured' = FALSE /\ generation' = generation
      /\ nextSerial' = nextSerial /\ nextFence' = nextFence
  BY DEF Shutdown, Rebuilt, fences, history
<1>2. generation \in Nat
  BY DEF Sound, VulkanTypeOK, VulkanAssumption
<1> QED
  BY <1>1, <1>2, ShutdownIsSound DEF Leases!Close

(* The promise counts as the swapchain does.                               *)
LEMMA SameCount == ASSUME NEW S PROVE Leases!Cardinality(S) = Cardinality(S)
BY DEF Leases!Cardinality, Cardinality

LEMMA TakesOne ==
    ASSUME VulkanAssumption, Sound, NEW i \in engine, Acquire(i)
    PROVE  Leases!Take
<1>1. /\ configured /\ acquired + inFlight < MaxFrames /\ configured' = configured
      /\ generation' = generation /\ nextSerial' = nextSerial + 1 /\ nextFence' = nextFence
  BY DEF Acquire, MayAcquire, conf, fences
<1>2. nextSerial \in Nat /\ nextSerial' - 1 = (nextSerial - 1) + 1 /\ nextSerial' - 1 = nextSerial
  <2>1. nextSerial \in Nat
    BY SlotTypes DEF Sound
  <2> QED
    BY <1>1, <2>1
<1>3. Taken' = Taken \cup {nextSerial' - 1} /\ Flying' = Flying
  BY <1>2, AcquireIsSound
<1>4. Leases!Cardinality(Taken) + Leases!Cardinality(Flying) < MaxFrames
  BY <1>1, Sizes, SameCount
<1>5. nextFence' - 1 = nextFence - 1
  BY <1>1
<1> QED
  BY <1>1, <1>2, <1>3, <1>4, <1>5 DEF Leases!Take

LEMMA FliesOne ==
    ASSUME VulkanAssumption, Sound, NEW t \in tokens, NEW result, Present(t, result)
    PROVE  \E s \in Taken : Leases!Fly(s)
<1>1. /\ configured' = configured /\ generation' = generation
      /\ nextSerial' = nextSerial /\ nextFence' = nextFence + 1
  BY DEF Present, conf
<1>2. nextFence \in Nat /\ nextFence' - 1 = (nextFence - 1) + 1 /\ nextFence' - 1 = nextFence
  BY <1>1, SlotTypes DEF Sound
<1>3. t.serial \in Taken /\ Taken' = Taken \ {t.serial} /\ Flying' = Flying \cup {nextFence' - 1}
  BY <1>2, PresentIsSound
<1>4. Leases!Fly(t.serial)
  BY <1>1, <1>2, <1>3 DEF Leases!Fly
<1> QED
  BY <1>3, <1>4

(* The Vulkan swapchain implements FrameLeases: each call is one step of   *)
(* the promise, or none that it speaks of.                                 *)
THEOREM VulkanKeepsLeases == ASSUME VulkanAssumption PROVE Spec => KeepsLeases
<1>1. ASSUME Init PROVE Leases!Init
  <2>1. configured = FALSE /\ generation = 0 /\ nextSerial = 1 /\ nextFence = 1
        /\ acquired = 0 /\ inFlight = 0
    BY <1>1 DEF Init
  <2>2. Sound
    BY <1>1, SoundAtFirst
  <2>3. Taken = {} /\ Flying = {}
    BY <2>1, <2>2, Sizes, FS_EmptySet
  <2>4. nextSerial - 1 = 0 /\ nextFence - 1 = 0
    BY <2>1
  <2> QED
    BY <2>1, <2>3, <2>4 DEF Leases!Init
<1>2. ASSUME Sound, [Next]_vars
      PROVE  \/ Leases!Next
             \/ UNCHANGED <<configured, generation, Taken, Flying, nextSerial - 1, nextFence - 1>>
  <2>1. ASSUME NEW g \in 1..MaxGeneration, NEW s \in 1..MaxGeneration, Configure(g, s)
        PROVE  Leases!Next
    BY <1>2, <2>1, OpensAnew DEF Leases!Next
  <2>2. ASSUME NEW g \in 1..MaxGeneration, Recreate(g)
        PROVE  Leases!Next
    BY <1>2, <2>2, RenewsDrained DEF Leases!Next
  <2>3. CASE Shutdown
    BY <1>2, <2>3, ClosesAll DEF Leases!Next
  <2>4. ASSUME NEW i \in engine, Acquire(i)
        PROVE  Leases!Next
    BY <1>2, <2>4, TakesOne DEF Leases!Next
  <2>5. CASE \/ \E s \in 1..MaxGeneration : RequestResize(s)
             \/ \E result \in {"OutOfDate", "DeviceLost"} : AcquireFails(result)
    <3>1. configured' = configured /\ generation' = generation
          /\ nextSerial' = nextSerial /\ nextFence' = nextFence
      BY <2>5 DEF RequestResize, AcquireFails, conf, fences, history
    <3> QED
      BY <1>2, <2>5, <3>1, FlagsAreSound
  <2>6. ASSUME NEW t \in tokens, NEW result, PresentFailsEarly(t, result) \/ PresentWaitFails(t)
        PROVE  UNCHANGED <<configured, generation, Taken, Flying, nextSerial - 1, nextFence - 1>>
    <3>1. configured' = configured /\ generation' = generation
          /\ nextSerial' = nextSerial /\ nextFence' = nextFence
      BY <2>6 DEF PresentFailsEarly, PresentWaitFails, conf, fences, history
    <3> QED
      BY <1>2, <2>6, <3>1, EarlyFailureIsSound
  <2>7. ASSUME NEW t \in tokens, NEW result, Present(t, result)
        PROVE  Leases!Next
    BY <1>2, <2>7, FliesOne DEF Leases!Next
  <2>8. ASSUME NEW v, \/ RetireCompleted(v)
                      \/ \E f \in FrameSlots, result \in {"Failed", "DeviceLost"} : RetireFails(v, f, result)
        PROVE  Leases!Next
    <3>1. configured' = configured /\ generation' = generation
          /\ nextSerial' = nextSerial /\ nextFence' = nextFence
      BY <2>8 DEF RetireCompleted, RetireFails, RetireFrames, conf, history
    <3>2. Taken' = Taken /\ Flying' \subseteq Flying
      BY <1>2, <2>8, RetiringIsSound
    <3> QED
      BY <3>1, <3>2 DEF Leases!Next, Leases!Land
  <2>9. CASE UNCHANGED vars
    <3>1. configured' = configured /\ generation' = generation
          /\ nextSerial' = nextSerial /\ nextFence' = nextFence
      BY <2>9 DEF vars, conf, fences, history
    <3> QED
      BY <1>2, <2>9, <3>1, NothingMoves
  <2> QED
    BY <1>2, <2>1, <2>2, <2>3, <2>4, <2>5, <2>6, <2>7, <2>8, <2>9 DEF Next
<1>3. Sound /\ [Next]_vars
      => [Leases!Next]_<<configured, generation, Taken, Flying, nextSerial - 1, nextFence - 1>>
  BY <1>2
<1> QED
  BY <1>1, <1>3, SoundHolds, PTL DEF Spec, KeepsLeases, Leases!Spec
--------------------------------------------------------------------------------
(* The glyph atlas.                                                        *)
PageSet == 1..MaxPages
AtlasFormats == {Raster[g].format : g \in Glyphs} \cup {"none"}
PageRecord == [gen : Nat, used : Nat, format : AtlasFormats, x : 0..PageWidth, y : Nat,
               row : Nat, area : Nat, live : Nat]
EntryRecord == [page : 0..MaxPages, gen : Nat, x : Nat, y : Nat, used : Nat]
PageTables == [PageSet -> PageRecord]
EntryTables == UNION {[s -> EntryRecord] : s \in SUBSET Glyphs}
Drafts == [ok : BOOLEAN, pages : PageTables, entries : EntryTables,
           pinned : SUBSET PageSet, uploads : Seq(Glyphs)]

OnPage(en, p) == {g \in DOMAIN en : en[g].page = p}
Areas == [g \in Glyphs |-> Raster[g].w * Raster[g].h]

(* An entry is of the generation and the format of its page and lies in a  *)
(* row that is full, or in the row at hand before the next place.          *)
InItsRow(pg, en, g) ==
    LET page == pg[en[g].page] IN
    \/ en[g].y + Raster[g].h + Padding <= page.y
    \/ /\ en[g].y = page.y /\ Raster[g].h <= page.row
       /\ en[g].x + Raster[g].w + Padding <= page.x \/ page.x = PageWidth
OnItsPage(pg, en, g) ==
    LET page == pg[en[g].page] IN
    /\ en[g].page \in PageSet /\ en[g].gen = page.gen /\ page.gen # 0
    /\ Raster[g].format = page.format
    /\ en[g].x + Raster[g].w <= PageWidth /\ en[g].y + Raster[g].h <= PageHeight
EntryHolds(pg, en, g) == IF Empty(g) THEN en[g].page = 0
                         ELSE OnItsPage(pg, en, g) /\ InItsRow(pg, en, g)
EntriesApart(en) == \A g, k \in DOMAIN en :
    g # k /\ en[g].page = en[k].page /\ en[g].page # 0
    => \/ Apart(en[g].x, Raster[g].w, en[k].x, Raster[k].w)
       \/ Apart(en[g].y, Raster[g].h, en[k].y, Raster[k].h)
PageCounted(pg, en, p) == /\ pg[p].live = Cardinality(OnPage(en, p))
                          /\ pg[p].area = SumOf(Areas, OnPage(en, p))

TablesSound(pg, en) ==
    /\ \A g \in DOMAIN en : EntryHolds(pg, en, g)
    /\ EntriesApart(en)
    /\ \A p \in PageSet : PageCounted(pg, en, p) /\ pg[p].y + pg[p].row <= PageHeight

(* What this submission uses, its pages may not be reset any more.         *)
Mine(d, e) == {g \in DOMAIN d.entries : d.entries[g].used = e}
Pins(d, e) ==
    /\ \A g \in Mine(d, e) : Empty(g) \/ d.entries[g].page \in d.pinned
    /\ \A i \in DOMAIN d.uploads : d.uploads[i] \in Mine(d, e) /\ ~Empty(d.uploads[i])
    /\ \A p \in PageSet : d.pages[p].used <= e
    /\ \A g \in DOMAIN d.entries : d.entries[g].used <= e

(* Generations only grow, and a page of the same generation has lost       *)
(* nothing that was on it.                                                 *)
Later(pg, en, pg1, en1) == \A p \in PageSet :
    /\ pg[p].gen <= pg1[p].gen
    /\ pg[p].gen = pg1[p].gen =>
          \A g \in OnPage(en, p) : g \in DOMAIN en1 /\ PlaceOf(en1[g]) = PlaceOf(en[g])

GoodDraft(d, e) == d \in Drafts /\ TablesSound(d.pages, d.entries) /\ Pins(d, e)
(* What a step makes of a draft.                                           *)
Succeeds(d, c, e) == /\ GoodDraft(c, e)
                     /\ Later(d.pages, d.entries, c.pages, c.entries)
                     /\ Mine(d, e) \subseteq Mine(c, e)
--------------------------------------------------------------------------------
(* Choices.                                                                *)
LEMMA LowestIs ==
    ASSUME NEW S \in SUBSET Nat, S # {}
    PROVE  Lowest(S) \in S /\ \A j \in S : Lowest(S) <= j
<1>1. PICK n \in S : \A m \in S : ~(<<m, n>> \in OpToRel(<, Nat))
  BY WFMin, NatLessThanWellFounded
<1>2. \A m \in S : ~(m < n)
  BY <1>1 DEF OpToRel
<1>3. n \in Nat /\ \A m \in S : m \in Nat
  OBVIOUS
<1>4. \A m \in S : n <= m
  BY <1>2, <1>3
<1> QED
  BY <1>4 DEF Lowest

LEMMA OldestIs ==
    ASSUME NEW S \in SUBSET Nat, S # {}, NEW used \in [S -> Nat]
    PROVE  Oldest(S, used) \in S
<1> DEFINE stamps == {used[i] : i \in S}
           first == {i \in S : \A j \in S : used[i] <= used[j]}
<1>1. stamps \in SUBSET Nat /\ stamps # {}
  OBVIOUS
<1>2. PICK i \in S : used[i] = Lowest(stamps)
  BY <1>1, LowestIs
<1>3. \A j \in S : used[i] <= used[j]
  BY <1>1, <1>2, LowestIs
<1>4. first \in SUBSET Nat /\ first # {}
  BY <1>3
<1>5. Lowest(first) \in first
  BY <1>4, LowestIs
<1> QED
  BY <1>5 DEF Oldest

LEMMA GreatestIs ==
    ASSUME NEW S \in SUBSET Nat, IsFiniteSet(S), S # {}
    PROVE  Max(S) \in S
<1> DEFINE HasMax(s) == \E x \in s : \A y \in s : x >= y
           T == {n \in Nat : \A s \in SUBSET S : Cardinality(s) = n + 1 => HasMax(s)}
<1>1. 0 \in T
  <2> SUFFICES ASSUME NEW s \in SUBSET S, Cardinality(s) = 1 PROVE HasMax(s)
    OBVIOUS
  <2> HIDE DEF T, HasMax
  <2>1. PICK x \in s : TRUE
    <3>1. s # {}
      BY PartIs
    <3> QED
      BY <3>1
  <2>2. Cardinality(s \ {x}) = 0
    <3>1. \A y \in s : Cardinality(s \ {y}) = Cardinality(s) - 1
      BY PartIs
    <3> QED
      BY <2>1, <3>1
  <2>3. s \ {x} = {}
    BY <2>2, PartIs
  <2>4. s = {x} /\ x \in Nat
    BY <2>1, <2>3
  <2> QED
    BY <2>4 DEF HasMax
<1>2. ASSUME NEW n \in T PROVE n + 1 \in T
  <2>1. n \in Nat
    OBVIOUS
  <2> SUFFICES ASSUME NEW s \in SUBSET S, Cardinality(s) = n + 2 PROVE HasMax(s)
    BY <2>1
  <2>2. PICK x \in s : TRUE
    <3> HIDE DEF T, HasMax
    <3>1. s # {}
      BY <2>1, PartIs
    <3> QED
      BY <3>1
  <2>3. Cardinality(s \ {x}) = n + 1
    <3> HIDE DEF T, HasMax
    <3>1. \A y \in s : Cardinality(s \ {y}) = Cardinality(s) - 1
      BY PartIs
    <3> QED
      BY <2>1, <2>2, <3>1
  <2>4. PICK y \in s \ {x} : \A z \in s \ {x} : y >= z
    BY <2>3
  <2>5. x \in Nat /\ y \in Nat /\ s \in SUBSET Nat
    BY <2>2
  <2>6. CASE x >= y
    BY <2>2, <2>4, <2>5, <2>6
  <2>7. CASE ~(x >= y)
    BY <2>2, <2>4, <2>5, <2>7
  <2> QED
    BY <2>6, <2>7
<1>3. T = Nat
  <2> HIDE DEF T
  <2>1. T \in SUBSET Nat
    BY DEF T
  <2> QED
    BY <1>1, <1>2, <2>1, Induction
<1>4. Cardinality(S) \in Nat /\ Cardinality(S) # 0 /\ S \in SUBSET S
  BY PartIs
<1>5. Cardinality(S) - 1 \in T /\ (Cardinality(S) - 1) + 1 = Cardinality(S)
  BY <1>3, <1>4
<1>6. HasMax(S)
  BY <1>4, <1>5
<1> QED
  BY <1>6, Zenon DEF Max
--------------------------------------------------------------------------------
LEMMA LaterTransitive ==
    ASSUME NEW a \in PageTables, NEW b \in PageTables, NEW c \in PageTables, NEW x, NEW y, NEW z,
           Later(a, x, b, y), Later(b, y, c, z)
    PROVE  Later(a, x, c, z)
<1> SUFFICES ASSUME NEW p \in PageSet
             PROVE /\ a[p].gen <= c[p].gen
                   /\ a[p].gen = c[p].gen =>
                        \A g \in OnPage(x, p) : g \in DOMAIN z /\ PlaceOf(z[g]) = PlaceOf(x[g])
  BY DEF Later
<1>1. a[p].gen \in Nat /\ b[p].gen \in Nat /\ c[p].gen \in Nat
  BY DEF PageTables, PageRecord
<1>2. a[p].gen <= b[p].gen /\ b[p].gen <= c[p].gen
  BY DEF Later
<1>3. ASSUME a[p].gen = c[p].gen, NEW g \in OnPage(x, p)
      PROVE  g \in DOMAIN z /\ PlaceOf(z[g]) = PlaceOf(x[g])
  <2>1. a[p].gen = b[p].gen /\ b[p].gen = c[p].gen
    BY <1>1, <1>2, <1>3
  <2>2. g \in DOMAIN y /\ PlaceOf(y[g]) = PlaceOf(x[g]) /\ x[g].page = p
    BY <1>3, <2>1 DEF Later, OnPage
  <2>3. g \in OnPage(y, p)
    BY <2>2 DEF PlaceOf, OnPage
  <2> QED
    BY <2>1, <2>2, <2>3 DEF Later
<1> QED
  BY <1>1, <1>2, <1>3

LEMMA LaterReflexive ==
    ASSUME NEW a \in PageTables, NEW x
    PROVE  Later(a, x, a, x)
BY DEF Later, PageTables, PageRecord, OnPage

LEMMA SucceedsBoth ==
    ASSUME NEW b, NEW c, NEW d, NEW e, GoodDraft(b, e), Succeeds(b, c, e), Succeeds(c, d, e)
    PROVE  Succeeds(b, d, e)
<1>1. b.pages \in PageTables /\ c.pages \in PageTables /\ d.pages \in PageTables
  BY DEF Succeeds, GoodDraft, Drafts
<1>2. Later(b.pages, b.entries, d.pages, d.entries)
  BY <1>1, LaterTransitive DEF Succeeds
<1> QED
  BY <1>2 DEF Succeeds

LEMMA FailedSucceeds ==
    ASSUME NEW d, NEW e, GoodDraft(d, e)
    PROVE  Succeeds(d, Failed(d), e) /\ ~Failed(d).ok
<1> DEFINE c == Failed(d)
<1>1. /\ c \in Drafts /\ ~c.ok /\ c.pages = d.pages /\ c.entries = d.entries
      /\ c.pinned = d.pinned /\ c.uploads = d.uploads
  BY DEF GoodDraft, Drafts, Failed
<1> HIDE DEF c
<1>2. Mine(c, e) = Mine(d, e)
  BY <1>1 DEF Mine
<1>3. Later(d.pages, d.entries, c.pages, c.entries)
  BY <1>1, LaterReflexive DEF Drafts
<1>4. TablesSound(c.pages, c.entries)
  BY <1>1 DEF GoodDraft
<1>5. Pins(c, e)
  BY <1>1, <1>2 DEF GoodDraft, Pins
<1> QED
  BY <1>1, <1>2, <1>3, <1>4, <1>5 DEF Succeeds, GoodDraft, c

LEMMA AreasAre ==
    ASSUME AtlasAssumption, NEW g \in Glyphs
    PROVE  Raster[g].w \in Nat /\ Raster[g].h \in Nat /\ Areas[g] \in Nat
<1> DEFINE w == Raster[g].w
           h == Raster[g].h
<1>1. PageWidth \in Nat /\ PageHeight \in Nat
  BY DEF AtlasAssumption
<1>2. IF Empty(g) THEN w = 0 /\ h = 0 ELSE w \in 1..PageWidth /\ h \in 1..PageHeight
  BY DEF AtlasAssumption
<1>3. w \in Nat /\ h \in Nat
  <2> HIDE DEF w, h
  <2>1. CASE Empty(g)
    BY <1>2, <2>1
  <2>2. CASE ~Empty(g)
    BY <1>1, <1>2, <2>2
  <2> QED
    BY <2>1, <2>2
<1>4. \A m, n \in Nat : m * n \in Nat
  OBVIOUS
<1> QED
  BY <1>3, <1>4 DEF Areas

LEMMA EntriesFinite ==
    ASSUME AtlasAssumption, NEW en \in EntryTables, NEW p
    PROVE  /\ DOMAIN en \in SUBSET Glyphs /\ \A g \in DOMAIN en : en[g] \in EntryRecord
           /\ IsFiniteSet(OnPage(en, p)) /\ OnPage(en, p) \in SUBSET Glyphs
           /\ Counts(Areas, OnPage(en, p))
<1>1. PICK s \in SUBSET Glyphs : en \in [s -> EntryRecord]
  BY DEF EntryTables
<1>2. DOMAIN en = s /\ OnPage(en, p) \in SUBSET Glyphs
  BY <1>1 DEF OnPage
<1>3. IsFiniteSet(OnPage(en, p))
  BY <1>2, FS_Subset DEF AtlasAssumption
<1> QED
  BY <1>1, <1>2, <1>3, AreasAre DEF Counts

(* Glyphs this submission does not use go, and pages all of whose glyphs   *)
(* went are blank again.                                                   *)
Blanked(page, old, e) == /\ page.gen = old.gen + 1 /\ page.used = e
                         /\ page.y = 0 /\ page.row = 0 /\ page.area = 0 /\ page.live = 0

LEMMA PruningSucceeds ==
    ASSUME AtlasAssumption, NEW d, NEW e \in Nat, GoodDraft(d, e), NEW c \in Drafts,
           NEW K \in SUBSET DOMAIN d.entries, Mine(d, e) \subseteq K,
           c.entries = Restrict(d.entries, K), c.pinned = d.pinned, c.uploads = d.uploads,
           \A p \in PageSet :
              \/ c.pages[p] = d.pages[p] /\ OnPage(d.entries, p) \subseteq K
              \/ OnPage(d.entries, p) \cap K = {} /\ Blanked(c.pages[p], d.pages[p], e)
    PROVE  Succeeds(d, c, e)
<1>1. /\ DOMAIN c.entries = K /\ \A g \in K : c.entries[g] = d.entries[g]
      /\ \A p : OnPage(c.entries, p) = OnPage(d.entries, p) \cap K
  BY DEF Restrict, OnPage
<1>2. /\ d \in Drafts /\ TablesSound(d.pages, d.entries) /\ Pins(d, e)
      /\ d.pages \in PageTables /\ \A p \in PageSet : d.pages[p].gen \in Nat
  BY DEF GoodDraft, Drafts, PageTables, PageRecord
<1>3. Mine(c, e) = Mine(d, e)
  BY <1>1 DEF Mine
<1>4. ASSUME NEW g \in K PROVE EntryHolds(c.pages, c.entries, g)
  <2>1. EntryHolds(d.pages, d.entries, g) /\ g \in DOMAIN d.entries
    BY <1>2 DEF TablesSound
  <2>2. CASE Empty(g)
    BY <1>1, <2>1, <2>2 DEF EntryHolds
  <2>3. CASE ~Empty(g)
    <3> DEFINE p == d.entries[g].page
    <3>1. p \in PageSet /\ g \in OnPage(d.entries, p)
      BY <2>1, <2>3 DEF EntryHolds, OnItsPage, OnPage
    <3>2. c.pages[p] = d.pages[p]
      BY <3>1
    <3> QED
      BY <1>1, <2>1, <2>3, <3>2 DEF EntryHolds, OnItsPage, InItsRow
  <2> QED
    BY <2>2, <2>3
<1>5. EntriesApart(c.entries)
  BY <1>1, <1>2 DEF TablesSound, EntriesApart
<1>6. ASSUME NEW p \in PageSet
      PROVE  PageCounted(c.pages, c.entries, p) /\ c.pages[p].y + c.pages[p].row <= PageHeight
  <2>1. PageCounted(d.pages, d.entries, p) /\ d.pages[p].y + d.pages[p].row <= PageHeight
    BY <1>2 DEF TablesSound
  <2>2. CASE c.pages[p] = d.pages[p] /\ OnPage(d.entries, p) \subseteq K
    <3>1. OnPage(c.entries, p) = OnPage(d.entries, p)
      BY <1>1, <2>2
    <3> QED
      BY <2>1, <2>2, <3>1 DEF PageCounted
  <2>3. CASE OnPage(d.entries, p) \cap K = {} /\ Blanked(c.pages[p], d.pages[p], e)
    <3>1. OnPage(c.entries, p) = {}
      BY <1>1, <2>3
    <3>2. Cardinality({}) = 0 /\ SumOf(Areas, {}) = 0
      BY FS_EmptySet, SumEmpty
    <3>3. PageHeight \in Nat
      BY DEF AtlasAssumption
    <3> QED
      BY <2>3, <3>1, <3>2, <3>3 DEF PageCounted, Blanked
  <2> QED
    BY <2>2, <2>3
<1>7. Pins(c, e)
  <2>1. \A p \in PageSet : c.pages[p].used <= e
    BY <1>2 DEF Pins, Blanked
  <2>2. \A g \in Mine(c, e) : Empty(g) \/ c.entries[g].page \in c.pinned
    <3>1. \A g \in Mine(c, e) : c.entries[g] = d.entries[g]
      BY <1>1 DEF Mine
    <3> QED
      BY <1>2, <1>3, <3>1 DEF Pins
  <2>3. \A g \in DOMAIN c.entries : c.entries[g].used <= e
    BY <1>1, <1>2 DEF Pins
  <2> QED
    BY <1>2, <1>3, <2>1, <2>2, <2>3 DEF Pins
<1>8. Later(d.pages, d.entries, c.pages, c.entries)
  <2> SUFFICES ASSUME NEW p \in PageSet
               PROVE  /\ d.pages[p].gen <= c.pages[p].gen
                      /\ d.pages[p].gen = c.pages[p].gen =>
                            \A g \in OnPage(d.entries, p) :
                               g \in DOMAIN c.entries /\ PlaceOf(c.entries[g]) = PlaceOf(d.entries[g])
    BY DEF Later
  <2>1. CASE c.pages[p] = d.pages[p] /\ OnPage(d.entries, p) \subseteq K
    BY <1>1, <1>2, <2>1
  <2>2. CASE Blanked(c.pages[p], d.pages[p], e)
    BY <1>2, <2>2 DEF Blanked
  <2> QED
    BY <2>1, <2>2
<1>9. TablesSound(c.pages, c.entries)
  BY <1>1, <1>4, <1>5, <1>6 DEF TablesSound
<1> QED
  BY <1>3, <1>7, <1>8, <1>9 DEF Succeeds, GoodDraft

LEMMA RestrictType ==
    ASSUME NEW en \in EntryTables, NEW K \in SUBSET DOMAIN en
    PROVE  Restrict(en, K) \in EntryTables
<1>1. PICK s \in SUBSET Glyphs : en \in [s -> EntryRecord]
  BY DEF EntryTables
<1>2. K \in SUBSET Glyphs /\ Restrict(en, K) \in [K -> EntryRecord]
  BY <1>1 DEF Restrict
<1> QED
  BY <1>2 DEF EntryTables

LEMMA ResetSucceeds ==
    ASSUME AtlasAssumption, NEW d, NEW e \in Nat, GoodDraft(d, e), NEW p \in PageSet,
           NEW format \in AtlasFormats, \A g \in Mine(d, e) : d.entries[g].page # p
    PROVE  LET c == Reset(d, p, format, e) IN
           /\ Succeeds(d, c, e) /\ c.ok = d.ok
           /\ c.pages[p].gen # 0 /\ c.pages[p].format = format
           /\ c.pages[p].x = 0 /\ c.pages[p].y = 0 /\ c.pages[p].row = 0
           /\ DOMAIN c.entries \subseteq DOMAIN d.entries
<1> DEFINE c == Reset(d, p, format, e)
           K == {g \in DOMAIN d.entries : d.entries[g].page # p}
           page == [Blank EXCEPT !.gen = d.pages[p].gen + 1, !.used = e, !.format = format]
<1>1. d \in Drafts /\ d.pages \in PageTables /\ d.entries \in EntryTables /\ d.pages[p].gen \in Nat
  BY DEF GoodDraft, Drafts, PageTables, PageRecord
<1>2. /\ page.gen = d.pages[p].gen + 1 /\ page.used = e /\ page.format = format /\ page.x = 0
      /\ page.y = 0 /\ page.row = 0 /\ page.area = 0 /\ page.live = 0
      /\ page \in PageRecord
  <2>1. 0 \in 0..PageWidth
    BY DEF AtlasAssumption
  <2> DEFINE n == d.pages[p].gen + 1
             blank == [Blank EXCEPT !.gen = n, !.used = e, !.format = format]
  <2>2. n \in Nat
    BY <1>1
  <2> HIDE DEF n
  <2>3. blank \in PageRecord
    BY <2>1, <2>2 DEF Blank, PageRecord
  <2>4. /\ blank.gen = n /\ blank.used = e /\ blank.format = format /\ blank.x = 0
        /\ blank.y = 0 /\ blank.row = 0 /\ blank.area = 0 /\ blank.live = 0
    BY DEF Blank
  <2> QED
    BY <2>3, <2>4 DEF n
<1> HIDE DEF page
<1>3. /\ c.pages = [d.pages EXCEPT ![p] = page] /\ c.entries = Restrict(d.entries, K)
      /\ c.ok = d.ok /\ c.pinned = d.pinned /\ c.uploads = d.uploads
      /\ c = [ok |-> d.ok, pages |-> c.pages, entries |-> c.entries, pinned |-> d.pinned, uploads |-> d.uploads]
  <2>1. d = [ok |-> d.ok, pages |-> d.pages, entries |-> d.entries, pinned |-> d.pinned,
             uploads |-> d.uploads]
    BY <1>1 DEF Drafts
  <2>2. c = [d EXCEPT !.entries = Restrict(d.entries, K), !.pages = [d.pages EXCEPT ![p] = page]]
    BY Zenon DEF Reset, page
  <2> HIDE DEF c, K
  <2> QED
    BY <2>1, <2>2
<1> HIDE DEF c
<1>4. c.pages \in PageTables /\ c.pages[p] = page /\ \A q \in PageSet \ {p} : c.pages[q] = d.pages[q]
  BY <1>1, <1>2, <1>3 DEF PageTables
<1>5. c \in Drafts
  BY <1>1, <1>3, <1>4, RestrictType DEF Drafts
<1>6. Mine(d, e) \subseteq K /\ K \in SUBSET DOMAIN d.entries
  BY DEF Mine
<1>7. \A q \in PageSet :
         \/ c.pages[q] = d.pages[q] /\ OnPage(d.entries, q) \subseteq K
         \/ OnPage(d.entries, q) \cap K = {} /\ Blanked(c.pages[q], d.pages[q], e)
  BY <1>2, <1>4 DEF OnPage, Blanked
<1>8. Succeeds(d, c, e)
  <2> HIDE DEF K
  <2> QED
    BY <1>3, <1>5, <1>6, <1>7, PruningSucceeds
<1>9. DOMAIN c.entries \subseteq DOMAIN d.entries
  BY <1>3 DEF Restrict
<1>10. page.gen # 0
  BY <1>1, <1>2
<1> QED
  BY <1>2, <1>3, <1>4, <1>8, <1>9, <1>10 DEF c

LEMMA SucceedsItself ==
    ASSUME NEW d, NEW e, GoodDraft(d, e)
    PROVE  Succeeds(d, d, e)
<1>1. d.pages \in PageTables
  BY DEF GoodDraft, Drafts
<1> QED
  BY <1>1, LaterReflexive DEF Succeeds

LEMMA UnpinnedIsFree ==
    ASSUME NEW d, NEW e, GoodDraft(d, e), NEW p \in Unpinned(d)
    PROVE  p \in PageSet /\ \A g \in Mine(d, e) : d.entries[g].page # p
<1>1. p \in PageSet /\ p \notin d.pinned /\ 0 \notin PageSet
  BY DEF Unpinned, PageSet
<1>2. ASSUME NEW g \in Mine(d, e) PROVE d.entries[g].page # p
  <2>1. EntryHolds(d.pages, d.entries, g) /\ (Empty(g) \/ d.entries[g].page \in d.pinned)
    BY DEF GoodDraft, TablesSound, Pins, Mine
  <2> QED
    BY <1>1, <2>1 DEF EntryHolds
<1> QED
  BY <1>1, <1>2

LEMMA FreshIsFree ==
    ASSUME NEW d, NEW e, GoodDraft(d, e), NEW p \in PageSet, d.pages[p].gen = 0
    PROVE  \A g \in DOMAIN d.entries : d.entries[g].page # p
<1> SUFFICES ASSUME NEW g \in DOMAIN d.entries, d.entries[g].page = p PROVE FALSE
  OBVIOUS
<1>1. EntryHolds(d.pages, d.entries, g) /\ p # 0
  BY DEF GoodDraft, TablesSound, PageSet
<1> QED
  BY <1>1 DEF EntryHolds, OnItsPage

LEMMA EntryFreeSucceeds ==
    ASSUME AtlasAssumption, NEW d, NEW e \in Nat, GoodDraft(d, e)
    PROVE  LET c == WithEntryFree(d, e) IN
           Succeeds(d, c, e) /\ DOMAIN c.entries \subseteq DOMAIN d.entries
<1> DEFINE idle == {g \in DOMAIN d.entries : Empty(g) /\ d.entries[g].used # e}
           reset == {p \in Unpinned(d) : InUse(p, d.pages)}
           c == WithEntryFree(d, e)
           idleUse == [i \in idle |-> d.entries[i].used]
           resetUse == [i \in reset |-> d.pages[i].used]
<1>1. /\ d \in Drafts /\ d.pages \in PageTables /\ d.entries \in EntryTables
      /\ DOMAIN d.entries \in SUBSET Glyphs /\ \A g \in DOMAIN d.entries : d.entries[g] \in EntryRecord
      /\ \A p \in PageSet : d.pages[p] \in PageRecord
  BY EntriesFinite DEF GoodDraft, Drafts, PageTables
<1>2. /\ idle \in SUBSET Nat /\ idleUse \in [idle -> Nat]
      /\ reset \in SUBSET Nat /\ resetUse \in [reset -> Nat] /\ reset \subseteq Unpinned(d)
  <2>1. idle \in SUBSET Nat
    BY <1>1 DEF AtlasAssumption
  <2>2. idleUse \in [idle -> Nat]
    BY <1>1 DEF EntryRecord
  <2>3. reset \subseteq Unpinned(d) /\ reset \subseteq PageSet
    BY DEF Unpinned, PageSet
  <2>4. reset \in SUBSET Nat
    BY <2>3 DEF PageSet
  <2>5. resetUse \in [reset -> Nat]
    <3> HIDE DEF reset
    <3> QED
      BY <1>1, <2>3 DEF PageRecord
  <2> HIDE DEF idle, reset, idleUse, resetUse
  <2> QED
    BY <2>1, <2>2, <2>3, <2>4, <2>5
<1>3. c = IF Cardinality(DOMAIN d.entries) < MaxEntries THEN d
          ELSE IF idle # {} THEN [d EXCEPT !.entries = Restrict(@, DOMAIN @ \ {Oldest(idle, idleUse)})]
          ELSE IF reset # {} THEN Reset(d, Oldest(reset, resetUse), d.pages[Oldest(reset, resetUse)].format, e)
          ELSE Failed(d)
  BY Zenon DEF WithEntryFree
<1> HIDE DEF idleUse, resetUse, c, reset
<1>4. CASE c = d
  BY <1>4, SucceedsItself DEF c
<1>5. CASE idle # {} /\ c = [d EXCEPT !.entries = Restrict(@, DOMAIN @ \ {Oldest(idle, idleUse)})]
  <2> DEFINE g == Oldest(idle, idleUse)
             K == DOMAIN d.entries \ {g}
  <2>1. g \in DOMAIN d.entries /\ Empty(g) /\ d.entries[g].used # e
    <3> HIDE DEF idle
    <3>1. g \in idle
      BY <1>2, <1>5, OldestIs
    <3> QED
      BY <3>1 DEF idle
  <2> HIDE DEF g, idle
  <2>2. /\ c.entries = Restrict(d.entries, K) /\ c.pages = d.pages /\ c.ok = d.ok
        /\ c.pinned = d.pinned /\ c.uploads = d.uploads
        /\ c = [ok |-> d.ok, pages |-> d.pages, entries |-> Restrict(d.entries, K),
                pinned |-> d.pinned, uploads |-> d.uploads]
    BY <1>1, <1>5 DEF Drafts, g
  <2>3. K \in SUBSET DOMAIN d.entries /\ Mine(d, e) \subseteq K
    BY <2>1 DEF Mine
  <2>4. d.entries[g].page = 0
    BY <2>1 DEF GoodDraft, TablesSound, EntryHolds
  <2>5. \A p \in PageSet : OnPage(d.entries, p) \subseteq K
    BY <2>4 DEF OnPage, PageSet
  <2> HIDE DEF K
  <2>6. c \in Drafts
    BY <1>1, <2>2, <2>3, RestrictType DEF Drafts
  <2>7. Succeeds(d, c, e)
    BY <2>2, <2>3, <2>5, <2>6, PruningSucceeds
  <2> QED
    BY <2>2, <2>3, <2>7 DEF Restrict, c
<1>6. CASE reset # {} /\ c = Reset(d, Oldest(reset, resetUse), d.pages[Oldest(reset, resetUse)].format, e)
  <2> DEFINE p == Oldest(reset, resetUse)
  <2>1. p \in Unpinned(d)
    BY <1>2, <1>6, OldestIs
  <2> HIDE DEF p
  <2>2. p \in PageSet /\ \A g \in Mine(d, e) : d.entries[g].page # p
    BY <2>1, UnpinnedIsFree
  <2>3. d.pages[p].format \in AtlasFormats
    BY <1>1, <2>2 DEF PageRecord
  <2>4. Succeeds(d, Reset(d, p, d.pages[p].format, e), e)
        /\ DOMAIN Reset(d, p, d.pages[p].format, e).entries \subseteq DOMAIN d.entries
    BY <2>2, <2>3, ResetSucceeds
  <2> QED
    BY <1>6, <2>4 DEF p, c
<1>7. CASE c = Failed(d)
  <2>1. c.entries = d.entries
    BY <1>1, <1>7 DEF Failed, Drafts
  <2> QED
    BY <1>7, <2>1, FailedSucceeds DEF c
<1> QED
  BY <1>3, <1>4, <1>5, <1>6, <1>7 DEF c

LEMMA PageFoundSucceeds ==
    ASSUME AtlasAssumption, NEW d, NEW e \in Nat, GoodDraft(d, e), NEW g \in Glyphs, ~Empty(g)
    PROVE  LET f == WithPage(d, g, e) IN
           /\ Succeeds(d, f.draft, e) /\ DOMAIN f.draft.entries \subseteq DOMAIN d.entries
           /\ f.draft.ok => /\ f.page \in PageSet /\ f.draft.pages[f.page].gen # 0
                            /\ f.draft.pages[f.page].format = Raster[g].format
                            /\ HasRoom(f.draft.pages[f.page], g)
<1> DEFINE roomy == {p \in PageSet : /\ d.pages[p].format = Raster[g].format
                                     /\ InUse(p, d.pages) /\ HasRoom(d.pages[p], g)}
           fresh == {p \in PageSet : ~InUse(p, d.pages)}
           idleUse == [i \in Unpinned(d) |-> d.pages[i].used]
           chosen == IF fresh # {} THEN Lowest(fresh) ELSE Oldest(Unpinned(d), idleUse)
           f == WithPage(d, g, e)
           format == Raster[g].format
<1>1. d \in Drafts /\ d.pages \in PageTables /\ \A p \in PageSet : d.pages[p] \in PageRecord
  BY DEF GoodDraft, Drafts, PageTables
<1>2. /\ roomy \in SUBSET Nat /\ fresh \in SUBSET Nat /\ Unpinned(d) \in SUBSET Nat
      /\ idleUse \in [Unpinned(d) -> Nat]
  BY <1>1 DEF PageRecord, Unpinned, PageSet
<1>3. f = IF roomy # {} THEN [draft |-> d, page |-> Lowest(roomy)]
          ELSE IF fresh \cup Unpinned(d) = {} THEN [draft |-> Failed(d), page |-> 0]
          ELSE [draft |-> Reset(d, chosen, format, e), page |-> chosen]
  BY Zenon DEF WithPage, PageSet
<1> HIDE DEF idleUse, f
<1>4. CASE roomy # {} /\ f = [draft |-> d, page |-> Lowest(roomy)]
  <2>1. Lowest(roomy) \in roomy
    <3> HIDE DEF roomy
    <3> QED
      BY <1>2, <1>4, LowestIs
  <2>2. f.draft = d /\ f.page \in roomy
    BY <1>4, <2>1
  <2> QED
    BY <2>2, SucceedsItself DEF InUse, f
<1>5. CASE f = [draft |-> Failed(d), page |-> 0]
  <2>1. Failed(d).entries = d.entries /\ f.draft = Failed(d)
    BY <1>1, <1>5 DEF Failed, Drafts
  <2> QED
    BY <2>1, FailedSucceeds DEF f
<1>6. CASE /\ fresh \cup Unpinned(d) # {}
           /\ f = [draft |-> Reset(d, chosen, format, e), page |-> chosen]
  <2>1. chosen \in PageSet /\ \A k \in Mine(d, e) : d.entries[k].page # chosen
    <3>1. CASE fresh # {}
      <4>1. chosen \in fresh
        <5> HIDE DEF fresh
        <5> QED
          BY <1>2, <3>1, LowestIs
      <4> HIDE DEF chosen
      <4>2. chosen \in PageSet /\ d.pages[chosen].gen = 0
        BY <4>1 DEF InUse
      <4> QED
        BY <4>2, FreshIsFree DEF Mine
    <3>2. CASE fresh = {}
      <4> HIDE DEF fresh
      <4>1. chosen \in Unpinned(d)
        BY <1>2, <1>6, <3>2, OldestIs
      <4> HIDE DEF chosen
      <4> QED
        BY <4>1, UnpinnedIsFree
    <3> QED
      BY <3>1, <3>2
  <2> HIDE DEF chosen
  <2>2. format \in AtlasFormats
    BY DEF AtlasFormats
  <2> DEFINE c == Reset(d, chosen, format, e)
  <2>3. /\ Succeeds(d, c, e) /\ DOMAIN c.entries \subseteq DOMAIN d.entries
        /\ c.pages[chosen].gen # 0 /\ c.pages[chosen].format = format
        /\ c.pages[chosen].x = 0 /\ c.pages[chosen].y = 0 /\ c.pages[chosen].row = 0
    BY <2>1, <2>2, ResetSucceeds
  <2> HIDE DEF c
  <2>6. HasRoom(c.pages[chosen], g)
    <3>1. Raster[g].h \in 0..PageHeight /\ PageHeight \in Nat
      BY DEF AtlasAssumption
    <3>2. Place(c.pages[chosen], g).y = 0
      BY <2>3 DEF Place
    <3> QED
      BY <3>1, <3>2 DEF HasRoom
  <2>7. f.draft = c /\ f.page = chosen
    BY <1>6 DEF c
  <2> QED
    BY <2>1, <2>3, <2>6, <2>7 DEF f
<1> QED
  <2> HIDE DEF roomy, fresh, chosen
  <2> QED
    BY <1>3, <1>4, <1>5, <1>6 DEF f

LEMMA RasterFits ==
    ASSUME AtlasAssumption, NEW g \in Glyphs, ~Empty(g)
    PROVE  /\ PageWidth \in Nat /\ PageHeight \in Nat /\ Padding \in Nat
           /\ Raster[g].w \in Nat /\ Raster[g].h \in Nat
           /\ 1 <= Raster[g].w /\ Raster[g].w <= PageWidth
           /\ 1 <= Raster[g].h /\ Raster[g].h <= PageHeight
<1>1. PageWidth \in Nat /\ PageHeight \in Nat /\ Padding \in 0..(PageWidth - 1)
  BY DEF AtlasAssumption
<1>2. Raster[g].w \in 1..PageWidth /\ Raster[g].h \in 1..PageHeight
  BY DEF AtlasAssumption
<1> QED
  BY <1>1, <1>2

(* The next place lies within the page, beside or below all that is there. *)
PlaceFitting(page, g, at) ==
    /\ at.x \in Nat /\ at.y \in Nat /\ at.row \in Nat /\ at.next \in 0..PageWidth
    /\ at.x + Raster[g].w <= PageWidth /\ at.y + Raster[g].h <= PageHeight
    /\ at.y + at.row <= PageHeight /\ Raster[g].h <= at.row
    /\ at.x + Raster[g].w + Padding <= at.next \/ at.next = PageWidth
    /\ \/ at.x = page.x /\ at.y = page.y /\ page.row <= at.row /\ page.x # PageWidth
       \/ at.y = page.y + page.row + Padding

LEMMA PlaceFits ==
    ASSUME AtlasAssumption, NEW page \in PageRecord, page.y + page.row <= PageHeight,
           NEW g \in Glyphs, ~Empty(g), HasRoom(page, g)
    PROVE  PlaceFitting(page, g, Place(page, g))
<1> DEFINE w == Raster[g].w
           h == Raster[g].h
           newRow == page.x # 0 /\ w > PageWidth - page.x
           at == Place(page, g)
<1>1. /\ PageWidth \in Nat /\ PageHeight \in Nat /\ Padding \in Nat
      /\ w \in Nat /\ h \in Nat /\ 1 <= w /\ w <= PageWidth /\ 1 <= h /\ h <= PageHeight
  BY RasterFits
<1>2. page.x \in Nat /\ page.x <= PageWidth /\ page.y \in Nat /\ page.row \in Nat
  BY <1>1 DEF PageRecord
<1>3. /\ at.x = IF newRow THEN 0 ELSE page.x
      /\ at.y = IF newRow THEN page.y + page.row + Padding ELSE page.y
      /\ at.row = IF (IF newRow THEN 0 ELSE page.row) > h THEN (IF newRow THEN 0 ELSE page.row) ELSE h
      /\ at.next = IF at.x + w + Padding < PageWidth THEN at.x + w + Padding ELSE PageWidth
  BY DEF Place
<1>4. at.y + h <= PageHeight
  BY DEF HasRoom
<1> HIDE DEF at, w, h
<1>5. CASE newRow
  <2>1. at.x = 0 /\ at.y = page.y + page.row + Padding /\ at.row = h
    BY <1>1, <1>3, <1>5
  <2> HIDE DEF newRow
  <2> QED
    BY <1>1, <1>2, <1>3, <1>4, <2>1 DEF at, w, h, PlaceFitting
<1>6. CASE ~newRow
  <2>1. at.x = page.x /\ at.y = page.y /\ at.row = IF page.row > h THEN page.row ELSE h
    BY <1>3, <1>6
  <2>2. page.x + w <= PageWidth
    BY <1>1, <1>2, <1>6
  <2> HIDE DEF newRow
  <2> QED
    BY <1>1, <1>2, <1>3, <1>4, <2>1, <2>2 DEF at, w, h, PlaceFitting
<1> QED
  BY <1>5, <1>6

LEMMA EnteredIs ==
    ASSUME NEW en \in EntryTables, NEW g \in Glyphs, g \notin DOMAIN en, NEW entry \in EntryRecord,
           NEW table, table = Entered(en, g, entry)
    PROVE  /\ table \in EntryTables /\ DOMAIN table = DOMAIN en \cup {g}
           /\ table[g] = entry /\ \A k \in DOMAIN en : table[k] = en[k]
<1>1. PICK s \in SUBSET Glyphs : en \in [s -> EntryRecord]
  BY DEF EntryTables
<1>2. s \cup {g} \in SUBSET Glyphs /\ table \in [s \cup {g} -> EntryRecord]
  BY <1>1 DEF Entered
<1>3. table \in EntryTables
  BY <1>2 DEF EntryTables
<1> QED
  BY <1>1, <1>3 DEF Entered

(* An empty glyph takes an entry and no place.                             *)
LEMMA EmptyEnteredSucceeds ==
    ASSUME AtlasAssumption, NEW d, NEW e \in Nat, GoodDraft(d, e),
           NEW g \in Glyphs \ DOMAIN d.entries, Empty(g)
    PROVE  LET c == [d EXCEPT !.entries =
                        Entered(@, g, [page |-> 0, gen |-> 0, x |-> 0, y |-> 0, used |-> e])] IN
           Succeeds(d, c, e) /\ g \in Mine(c, e)
<1> DEFINE entry == [page |-> 0, gen |-> 0, x |-> 0, y |-> 0, used |-> e]
           c == [d EXCEPT !.entries = Entered(@, g, entry)]
<1>1. d \in Drafts /\ d.entries \in EntryTables /\ d.pages \in PageTables
  BY DEF GoodDraft, Drafts
<1>2. entry \in EntryRecord /\ entry.page = 0 /\ entry.used = e
  BY DEF EntryRecord, AtlasAssumption
<1> HIDE DEF entry
<1>3. /\ c.entries = Entered(d.entries, g, entry) /\ c.pages = d.pages
      /\ c.pinned = d.pinned /\ c.uploads = d.uploads
      /\ c = [ok |-> d.ok, pages |-> d.pages, entries |-> c.entries, pinned |-> d.pinned, uploads |-> d.uploads]
  BY <1>1 DEF Drafts
<1> HIDE DEF c
<1>4. /\ c.entries \in EntryTables /\ DOMAIN c.entries = DOMAIN d.entries \cup {g}
      /\ c.entries[g] = entry /\ \A k \in DOMAIN d.entries : c.entries[k] = d.entries[k]
  BY <1>1, <1>2, <1>3, EnteredIs
<1>5. c \in Drafts
  BY <1>1, <1>3, <1>4 DEF Drafts
<1>6. Mine(c, e) = Mine(d, e) \cup {g}
  BY <1>2, <1>4 DEF Mine
<1>7. \A p \in PageSet : OnPage(c.entries, p) = OnPage(d.entries, p)
  BY <1>2, <1>4 DEF OnPage, PageSet
<1>8. TablesSound(c.pages, c.entries)
  <2>1. \A k \in DOMAIN c.entries : EntryHolds(c.pages, c.entries, k)
    <3>1. EntryHolds(c.pages, c.entries, g)
      BY <1>2, <1>4 DEF EntryHolds
    <3>2. ASSUME NEW k \in DOMAIN d.entries PROVE EntryHolds(c.pages, c.entries, k)
      <4>1. EntryHolds(d.pages, d.entries, k) /\ c.entries[k] = d.entries[k]
        BY <1>4 DEF GoodDraft, TablesSound
      <4> QED
        BY <1>3, <4>1 DEF EntryHolds, OnItsPage, InItsRow
    <3> QED
      BY <1>4, <3>1, <3>2
  <2>2. EntriesApart(c.entries)
    BY <1>2, <1>4 DEF GoodDraft, TablesSound, EntriesApart
  <2>3. \A p \in PageSet : PageCounted(c.pages, c.entries, p) /\ c.pages[p].y + c.pages[p].row <= PageHeight
    BY <1>3, <1>7 DEF GoodDraft, TablesSound, PageCounted
  <2> QED
    BY <2>1, <2>2, <2>3 DEF TablesSound
<1>9. Pins(c, e)
  <2>1. \A k \in Mine(d, e) : c.entries[k] = d.entries[k]
    BY <1>4 DEF Mine
  <2>2. \A k \in DOMAIN c.entries : c.entries[k].used <= e
    BY <1>2, <1>4 DEF GoodDraft, Pins
  <2> QED
    BY <1>3, <1>6, <2>1, <2>2 DEF GoodDraft, Pins
<1>10. Later(d.pages, d.entries, c.pages, c.entries)
  <2>1. \A p \in PageSet : d.pages[p].gen <= d.pages[p].gen
    BY <1>1 DEF PageTables, PageRecord
  <2>2. \A k \in DOMAIN d.entries : k \in DOMAIN c.entries /\ c.entries[k] = d.entries[k]
    BY <1>4
  <2> QED
    BY <1>3, <2>1, <2>2 DEF Later, OnPage
<1> QED
  BY <1>5, <1>6, <1>8, <1>9, <1>10 DEF Succeeds, GoodDraft, c, entry

(* A glyph placed on a page with room leaves the others where they are.    *)
PlacedOn(c, d, g, p, at, e) ==
    /\ DOMAIN c.entries = DOMAIN d.entries \cup {g}
    /\ \A k \in DOMAIN d.entries : c.entries[k] = d.entries[k]
    /\ c.entries[g].page = p /\ c.entries[g].gen = d.pages[p].gen
    /\ c.entries[g].x = at.x /\ c.entries[g].y = at.y /\ c.entries[g].used = e
    /\ c.pinned = d.pinned \cup {p} /\ c.uploads = Append(d.uploads, g)
PageFilled(c, d, g, p, at, e) ==
    /\ \A q \in PageSet \ {p} : c.pages[q] = d.pages[q]
    /\ c.pages[p].gen = d.pages[p].gen /\ c.pages[p].format = d.pages[p].format
    /\ c.pages[p].x = at.next /\ c.pages[p].y = at.y /\ c.pages[p].row = at.row
    /\ c.pages[p].area = d.pages[p].area + Areas[g]
    /\ c.pages[p].live = d.pages[p].live + 1 /\ c.pages[p].used = e

LEMMA PlacingSucceeds ==
    ASSUME AtlasAssumption, NEW d, NEW e \in Nat, GoodDraft(d, e),
           NEW g \in Glyphs, g \notin DOMAIN d.entries, ~Empty(g), NEW p \in PageSet,
           d.pages[p].gen # 0, d.pages[p].format = Raster[g].format,
           NEW at, PlaceFitting(d.pages[p], g, at),
           NEW c \in Drafts, PlacedOn(c, d, g, p, at, e), PageFilled(c, d, g, p, at, e)
    PROVE  Succeeds(d, c, e) /\ g \in Mine(c, e)
<1> DEFINE old == d.pages[p]
<1> HIDE DEF old
<1>1. /\ d \in Drafts /\ d.entries \in EntryTables /\ d.pages \in PageTables /\ old \in PageRecord
      /\ d.uploads \in Seq(Glyphs) /\ \A k \in DOMAIN d.entries : d.entries[k] \in EntryRecord
      /\ DOMAIN d.entries \in SUBSET Glyphs
  BY EntriesFinite DEF GoodDraft, Drafts, PageTables, old
<1>2. /\ old.gen \in Nat /\ old.area \in Nat /\ old.live \in Nat /\ old.x \in Nat
      /\ old.y \in Nat /\ old.row \in Nat
  BY <1>1, RasterFits DEF PageRecord
<1>3. old.y + old.row <= PageHeight /\ PageCounted(d.pages, d.entries, p)
  BY DEF GoodDraft, TablesSound, old
<1>4. /\ at.x \in Nat /\ at.y \in Nat /\ at.row \in Nat /\ at.next \in 0..PageWidth
      /\ at.x + Raster[g].w <= PageWidth /\ at.y + Raster[g].h <= PageHeight
      /\ at.y + at.row <= PageHeight /\ Raster[g].h <= at.row
      /\ at.x + Raster[g].w + Padding <= at.next \/ at.next = PageWidth
      /\ \/ at.x = old.x /\ at.y = old.y /\ old.row <= at.row /\ old.x # PageWidth
         \/ at.y = old.y + old.row + Padding
  BY DEF PlaceFitting, old
<1>5. /\ c.entries[g].page = p /\ c.entries[g].gen = old.gen /\ c.entries[g].x = at.x
      /\ c.entries[g].y = at.y /\ c.entries[g].used = e
      /\ DOMAIN c.entries = DOMAIN d.entries \cup {g}
      /\ \A k \in DOMAIN d.entries : c.entries[k] = d.entries[k]
  BY DEF PlacedOn, old
<1>6. /\ c.pages[p].gen = old.gen /\ c.pages[p].format = old.format /\ c.pages[p].x = at.next
      /\ c.pages[p].y = at.y /\ c.pages[p].row = at.row /\ c.pages[p].area = old.area + Areas[g]
      /\ c.pages[p].live = old.live + 1 /\ c.pages[p].used = e
      /\ \A q \in PageSet \ {p} : c.pages[q] = d.pages[q]
  BY DEF PageFilled, old
<1>9. Mine(c, e) = Mine(d, e) \cup {g}
  BY <1>5 DEF Mine
<1>10. /\ OnPage(c.entries, p) = OnPage(d.entries, p) \cup {g} /\ g \notin OnPage(d.entries, p)
       /\ \A q \in PageSet \ {p} : OnPage(c.entries, q) = OnPage(d.entries, q)
  <2>1. OnPage(c.entries, p) = OnPage(d.entries, p) \cup {g} /\ g \notin OnPage(d.entries, p)
    BY <1>5 DEF OnPage
  <2>2. ASSUME NEW q \in PageSet \ {p} PROVE OnPage(c.entries, q) = OnPage(d.entries, q)
    <3>1. c.entries[g].page # q
      BY <1>5
    <3> HIDE DEF PageSet
    <3> QED
      BY <1>5, <3>1 DEF OnPage
  <2> QED
    BY <2>1, <2>2
<1>11. \A k \in OnPage(d.entries, p) : ~Empty(k) /\ OnItsPage(d.pages, d.entries, k) /\ InItsRow(d.pages, d.entries, k)
  <2>1. \A k \in DOMAIN d.entries : EntryHolds(d.pages, d.entries, k)
    BY DEF GoodDraft, TablesSound
  <2>2. p # 0
    BY DEF PageSet
  <2> QED
    BY <2>1, <2>2 DEF OnPage, EntryHolds
<1>12. /\ Padding \in Nat /\ PageWidth \in Nat /\ PageHeight \in Nat
       /\ \A k \in Glyphs : ~Empty(k) => Raster[k].w \in Nat /\ Raster[k].h \in Nat
  BY RasterFits DEF AtlasAssumption
<1>13. ASSUME NEW k \in OnPage(d.entries, p)
       PROVE  /\ InItsRow(c.pages, c.entries, k)
              /\ \/ Apart(at.x, Raster[g].w, d.entries[k].x, Raster[k].w)
                 \/ Apart(at.y, Raster[g].h, d.entries[k].y, Raster[k].h)
  <2> DEFINE x == d.entries[k].x
             y == d.entries[k].y
             w == Raster[k].w
             h == Raster[k].h
  <2>1. k \in DOMAIN d.entries /\ d.entries[k].page = p /\ ~Empty(k) /\ k \in Glyphs
    BY <1>1, <1>11 DEF OnPage
  <2>2. x \in Nat /\ y \in Nat /\ w \in Nat /\ h \in Nat
    BY <1>1, <1>12, <2>1 DEF EntryRecord
  <2>3. \/ y + h + Padding <= old.y
        \/ y = old.y /\ h <= old.row /\ (x + w + Padding <= old.x \/ old.x = PageWidth)
    BY <1>11, <2>1 DEF InItsRow, old
  <2>4. x + w <= PageWidth
    BY <1>11 DEF OnItsPage
  <2> HIDE DEF x, y, w, h
  <2>5. \/ y + h + Padding <= at.y
        \/ y = at.y /\ h <= at.row /\ (x + w + Padding <= at.next \/ at.next = PageWidth)
    <3>1. Raster[g].w \in Nat
      BY <1>12
    <3> QED
      BY <1>2, <1>4, <1>12, <2>2, <2>3, <3>1
  <2>6. y + h + Padding <= at.y \/ x + w + Padding <= at.x
    BY <1>2, <1>4, <1>12, <2>2, <2>3
  <2>7. InItsRow(c.pages, c.entries, k)
    BY <1>5, <1>6, <2>1, <2>5 DEF InItsRow, x, y, w, h
  <2> QED
    BY <2>6, <2>7 DEF Apart, x, y, w, h
<1>14. EntryHolds(c.pages, c.entries, g)
  BY <1>4, <1>5, <1>6 DEF EntryHolds, OnItsPage, InItsRow, old
<1>15. ASSUME NEW k \in DOMAIN d.entries PROVE EntryHolds(c.pages, c.entries, k)
  <2>1. EntryHolds(d.pages, d.entries, k) /\ c.entries[k] = d.entries[k]
    BY <1>5 DEF GoodDraft, TablesSound
  <2>2. CASE k \in OnPage(d.entries, p)
    BY <1>6, <1>11, <1>13, <2>1, <2>2 DEF EntryHolds, OnItsPage, OnPage, old
  <2>3. CASE k \notin OnPage(d.entries, p)
    <3>1. d.entries[k].page # p
      BY <2>3 DEF OnPage
    <3> QED
      BY <1>6, <2>1, <3>1 DEF EntryHolds, OnItsPage, InItsRow
  <2> QED
    BY <2>2, <2>3
<1>16. EntriesApart(c.entries)
  <2>1. EntriesApart(d.entries)
    BY DEF GoodDraft, TablesSound
  <2>2. ASSUME NEW k \in DOMAIN d.entries, d.entries[k].page = p
        PROVE  \/ Apart(at.x, Raster[g].w, d.entries[k].x, Raster[k].w)
               \/ Apart(at.y, Raster[g].h, d.entries[k].y, Raster[k].h)
    BY <1>13, <2>2 DEF OnPage
  <2>3. \A a, m, b, n : Apart(a, m, b, n) <=> Apart(b, n, a, m)
    BY DEF Apart
  <2> SUFFICES ASSUME NEW i \in DOMAIN c.entries, NEW k \in DOMAIN c.entries, i # k,
                      c.entries[i].page = c.entries[k].page, c.entries[i].page # 0
               PROVE  \/ Apart(c.entries[i].x, Raster[i].w, c.entries[k].x, Raster[k].w)
                      \/ Apart(c.entries[i].y, Raster[i].h, c.entries[k].y, Raster[k].h)
    BY DEF EntriesApart
  <2>4. CASE i = g
    BY <1>5, <2>2, <2>4
  <2>5. CASE k = g
    BY <1>5, <2>2, <2>3, <2>5
  <2>6. CASE i # g /\ k # g
    BY <1>5, <2>1, <2>6 DEF EntriesApart
  <2> QED
    BY <2>4, <2>5, <2>6
<1>17. ASSUME NEW q \in PageSet
       PROVE  PageCounted(c.pages, c.entries, q) /\ c.pages[q].y + c.pages[q].row <= PageHeight
  <2>1. CASE q # p
    BY <1>6, <1>10, <2>1 DEF GoodDraft, TablesSound, PageCounted
  <2>2. CASE q = p
    <3> DEFINE S == OnPage(d.entries, p)
               R == OnPage(c.entries, p)
    <3>1. c.entries \in EntryTables
      BY DEF Drafts
    <3>2. IsFiniteSet(S) /\ IsFiniteSet(R) /\ Counts(Areas, R)
      BY <1>1, <3>1, EntriesFinite
    <3>3. g \in R /\ R \ {g} = S /\ R = S \cup {g}
      BY <1>10
    <3>4. Cardinality(R) = Cardinality(S) + 1
      BY <1>10, <3>2, FS_AddElement
    <3>5. SumOf(Areas, R) = Areas[g] + SumOf(Areas, S)
      BY <3>2, <3>3, SumRemove
    <3>6. Areas[g] \in Nat
      BY <3>2, <3>3 DEF Counts
    <3>7. old.live = Cardinality(S) /\ old.area = SumOf(Areas, S)
      BY <1>3 DEF PageCounted, old
    <3> HIDE DEF S, R
    <3>8. c.pages[p].live = Cardinality(R) /\ c.pages[p].area = SumOf(Areas, R)
      BY <1>2, <1>6, <3>4, <3>5, <3>6, <3>7
    <3> QED
      BY <1>4, <1>6, <2>2, <3>8 DEF PageCounted, R
  <2> QED
    BY <2>1, <2>2
<1>18. Pins(c, e)
  <2>0. c.pinned = d.pinned \cup {p} /\ c.uploads = Append(d.uploads, g)
    BY DEF PlacedOn
  <2>1. \A k \in Mine(d, e) : c.entries[k] = d.entries[k]
    BY <1>5 DEF Mine
  <2>2. \A k \in Mine(c, e) : Empty(k) \/ c.entries[k].page \in c.pinned
    BY <1>5, <1>9, <2>0, <2>1 DEF GoodDraft, Pins
  <2>3. \A i \in DOMAIN c.uploads : c.uploads[i] \in Mine(c, e) /\ ~Empty(c.uploads[i])
    <3>1. /\ DOMAIN c.uploads = 1..(Len(d.uploads) + 1) /\ DOMAIN d.uploads = 1..Len(d.uploads)
          /\ \A i \in 1..Len(d.uploads) : c.uploads[i] = d.uploads[i]
          /\ c.uploads[Len(d.uploads) + 1] = g /\ Len(d.uploads) \in Nat
      BY <1>1, <2>0
    <3>2. \A i \in DOMAIN d.uploads : d.uploads[i] \in Mine(d, e) /\ ~Empty(d.uploads[i])
      BY DEF GoodDraft, Pins
    <3> QED
      BY <1>9, <3>1, <3>2
  <2>4. \A q \in PageSet : c.pages[q].used <= e
    BY <1>6 DEF GoodDraft, Pins
  <2>5. \A k \in DOMAIN c.entries : c.entries[k].used <= e
    BY <1>5 DEF GoodDraft, Pins
  <2> QED
    BY <2>2, <2>3, <2>4, <2>5 DEF Pins
<1>19. Later(d.pages, d.entries, c.pages, c.entries)
  <2>1. \A q \in PageSet : d.pages[q].gen \in Nat /\ c.pages[q].gen = d.pages[q].gen
    BY <1>1, <1>6 DEF PageTables, PageRecord, old
  <2> QED
    BY <1>5, <2>1 DEF Later, OnPage
<1>20. TablesSound(c.pages, c.entries)
  BY <1>5, <1>14, <1>15, <1>16, <1>17 DEF TablesSound
<1> QED
  BY <1>9, <1>18, <1>19, <1>20 DEF Succeeds, GoodDraft

LEMMA GlyphPlacedSucceeds ==
    ASSUME AtlasAssumption, NEW d, NEW e \in Nat, GoodDraft(d, e),
           NEW g \in Glyphs, g \notin DOMAIN d.entries, ~Empty(g)
    PROVE  LET c == WithGlyph(d, g, e) IN
           Succeeds(d, c, e) /\ (c.ok => g \in Mine(c, e))
<1> DEFINE f == WithPage(d, g, e)
           b == f.draft
           p == f.page
           at == Place(b.pages[p], g)
           entry == [page |-> p, gen |-> b.pages[p].gen, x |-> at.x, y |-> at.y, used |-> e]
           page == Filled(b.pages[p], g, at, e)
           c == [ok |-> TRUE, pages |-> [b.pages EXCEPT ![p] = Filled(@, g, at, e)],
                 entries |-> Entered(b.entries, g, entry),
                 pinned |-> b.pinned \cup {p}, uploads |-> Append(b.uploads, g)]
<1>1. /\ Succeeds(d, b, e) /\ DOMAIN b.entries \subseteq DOMAIN d.entries
      /\ b.ok => /\ p \in PageSet /\ b.pages[p].gen # 0
                 /\ b.pages[p].format = Raster[g].format /\ HasRoom(b.pages[p], g)
  BY PageFoundSucceeds
<1>2. WithGlyph(d, g, e) = IF ~b.ok THEN b ELSE c
  BY DEF WithGlyph
<1> HIDE DEF f
<1>3. CASE ~b.ok
  BY <1>1, <1>2, <1>3
<1>4. CASE b.ok
  <2>1. /\ p \in PageSet /\ b.pages[p].gen # 0 /\ b.pages[p].format = Raster[g].format
        /\ HasRoom(b.pages[p], g) /\ GoodDraft(b, e) /\ g \notin DOMAIN b.entries
    BY <1>1, <1>4 DEF Succeeds
  <2> HIDE DEF b, p, c
  <2>2. /\ b \in Drafts /\ b.pages \in PageTables /\ b.entries \in EntryTables /\ b.uploads \in Seq(Glyphs)
        /\ b.pages[p] \in PageRecord /\ b.pages[p].y + b.pages[p].row <= PageHeight
        /\ b.ok \in BOOLEAN /\ b.pinned \in SUBSET PageSet
    BY <2>1 DEF GoodDraft, Drafts, PageTables, TablesSound
  <2>3. PlaceFitting(b.pages[p], g, at)
    BY <2>1, <2>2, PlaceFits
  <2> HIDE DEF at
  <2>4. /\ entry.page = p /\ entry.gen = b.pages[p].gen /\ entry.x = at.x /\ entry.y = at.y
        /\ entry.used = e /\ entry \in EntryRecord
    <3>1. p \in 0..MaxPages /\ b.pages[p].gen \in Nat /\ at.x \in Nat /\ at.y \in Nat
      BY <2>1, <2>2, <2>3 DEF PageSet, AtlasAssumption, PageRecord, PlaceFitting
    <3> QED
      BY <3>1 DEF EntryRecord
  <2>5. Areas[g] = Raster[g].w * Raster[g].h /\ Areas[g] \in Nat
    <3>1. Raster[g].w \in Nat /\ Raster[g].h \in Nat
      BY RasterFits
    <3>2. \A m, n \in Nat : m * n \in Nat
      OBVIOUS
    <3> QED
      BY <3>1, <3>2 DEF Areas
  <2>6. /\ page.gen = b.pages[p].gen /\ page.format = b.pages[p].format /\ page.x = at.next
        /\ page.y = at.y /\ page.row = at.row /\ page.area = b.pages[p].area + Areas[g]
        /\ page.live = b.pages[p].live + 1 /\ page.used = e /\ page \in PageRecord
    <3>1. /\ page.gen = b.pages[p].gen /\ page.format = b.pages[p].format /\ page.x = at.next
          /\ page.y = at.y /\ page.row = at.row /\ page.area = b.pages[p].area + Areas[g]
          /\ page.live = b.pages[p].live + 1 /\ page.used = e
      BY <2>5 DEF Filled
    <3>2. at.next \in 0..PageWidth /\ at.y \in Nat /\ at.row \in Nat
      BY <2>3 DEF PlaceFitting
    <3>3. b.pages[p].area \in Nat /\ b.pages[p].live \in Nat /\ b.pages[p].gen \in Nat
          /\ b.pages[p].format \in AtlasFormats
      BY <2>2 DEF PageRecord
    <3>4. b.pages[p].area + Areas[g] \in Nat /\ b.pages[p].live + 1 \in Nat
      BY <2>5, <3>3
    <3>5. page = [gen |-> page.gen, used |-> page.used, format |-> page.format, x |-> page.x, y |-> page.y,
                  row |-> page.row, area |-> page.area, live |-> page.live]
      BY Zenon DEF Filled
    <3> HIDE DEF page
    <3>6. page \in PageRecord
      BY <3>1, <3>2, <3>3, <3>4, <3>5 DEF PageRecord
    <3> QED
      BY <3>1, <3>6
  <2> HIDE DEF entry, page
  <2> DEFINE pg == [b.pages EXCEPT ![p] = page]
             en == Entered(b.entries, g, entry)
             ups == Append(b.uploads, g)
             pins == b.pinned \cup {p}
  <2>7. ups \in Seq(Glyphs) /\ pins \in SUBSET PageSet
    BY <2>1, <2>2
  <2>8. /\ en \in EntryTables /\ DOMAIN en = DOMAIN b.entries \cup {g}
        /\ en[g] = entry /\ \A k \in DOMAIN b.entries : en[k] = b.entries[k]
    <3>1. b.entries \in EntryTables /\ g \notin DOMAIN b.entries /\ entry \in EntryRecord
      BY <2>1, <2>2, <2>4
    <3>2. en \in EntryTables
      BY <3>1, EnteredIs
    <3>3. /\ DOMAIN en = DOMAIN b.entries \cup {g} /\ en[g] = entry
          /\ \A k \in DOMAIN b.entries : en[k] = b.entries[k]
      BY <3>1 DEF Entered
    <3> QED
      BY <3>2, <3>3
  <2>9. pg \in PageTables /\ pg[p] = page /\ \A q \in PageSet \ {p} : pg[q] = b.pages[q]
    BY <2>1, <2>2, <2>6 DEF PageTables
  <2>0. c = [ok |-> TRUE, pages |-> pg, entries |-> en, pinned |-> pins, uploads |-> ups]
    BY DEF c, page
  <2> HIDE DEF pg, en, ups, pins
  <2>10. c \in Drafts
    BY <2>0, <2>7, <2>8, <2>9 DEF Drafts
  <2>11. PlacedOn(c, b, g, p, at, e)
    BY <2>0, <2>4, <2>8 DEF PlacedOn, pins, ups
  <2>12. PageFilled(c, b, g, p, at, e)
    BY <2>0, <2>6, <2>9 DEF PageFilled
  <2>13. Succeeds(b, c, e) /\ g \in Mine(c, e)
    BY <2>1, <2>3, <2>10, <2>11, <2>12, PlacingSucceeds
  <2>14. Succeeds(d, c, e)
    BY <1>1, <2>13, SucceedsBoth DEF b
  <2> QED
    BY <1>2, <1>4, <2>13, <2>14
<1> QED
  BY <1>3, <1>4

LEMMA MissSucceeds ==
    ASSUME AtlasAssumption, NEW d, NEW e \in Nat, GoodDraft(d, e),
           NEW g \in Glyphs, g \notin DOMAIN d.entries
    PROVE  LET c == Miss(d, g, e) IN
           Succeeds(d, c, e) /\ (c.ok => g \in Mine(c, e))
<1> DEFINE b == WithEntryFree(d, e)
           entry == [page |-> 0, gen |-> 0, x |-> 0, y |-> 0, used |-> e]
           c == [b EXCEPT !.entries = Entered(@, g, entry)]
<1>1. Succeeds(d, b, e) /\ DOMAIN b.entries \subseteq DOMAIN d.entries
  BY EntryFreeSucceeds
<1>2. Miss(d, g, e) = IF ~b.ok THEN b ELSE IF Empty(g) THEN c ELSE WithGlyph(b, g, e)
  BY Zenon DEF Miss
<1> HIDE DEF b
<1>3. GoodDraft(b, e) /\ g \notin DOMAIN b.entries
  BY <1>1 DEF Succeeds
<1>4. CASE ~b.ok
  BY <1>1, <1>2, <1>4
<1>5. CASE b.ok /\ Empty(g)
  <2>1. Succeeds(b, c, e) /\ g \in Mine(c, e)
    BY <1>3, <1>5, EmptyEnteredSucceeds
  <2> HIDE DEF c
  <2>2. Succeeds(d, c, e)
    BY <1>1, <2>1, SucceedsBoth
  <2> QED
    BY <1>2, <1>5, <2>1, <2>2
<1>6. CASE b.ok /\ ~Empty(g)
  <2> DEFINE n == WithGlyph(b, g, e)
  <2>1. Succeeds(b, n, e) /\ (n.ok => g \in Mine(n, e))
    BY <1>3, <1>6, GlyphPlacedSucceeds
  <2> HIDE DEF n
  <2>2. Succeeds(d, n, e)
    BY <1>1, <2>1, SucceedsBoth
  <2> QED
    BY <1>2, <1>6, <2>1, <2>2 DEF n
<1> QED
  BY <1>4, <1>5, <1>6

(* A glyph that is there is used again.                                    *)
UsedAgain(c, d, g, e) ==
    /\ DOMAIN c.entries = DOMAIN d.entries /\ c.entries[g].used = e
    /\ PlaceOf(c.entries[g]) = PlaceOf(d.entries[g])
    /\ \A k \in DOMAIN d.entries \ {g} : c.entries[k] = d.entries[k]
    /\ Empty(g) \/ c.entries[g].page \in c.pinned
    /\ d.pinned \subseteq c.pinned /\ c.uploads = d.uploads
    /\ \A q \in PageSet :
          /\ c.pages[q].gen = d.pages[q].gen /\ c.pages[q].format = d.pages[q].format
          /\ c.pages[q].x = d.pages[q].x /\ c.pages[q].y = d.pages[q].y
          /\ c.pages[q].row = d.pages[q].row /\ c.pages[q].area = d.pages[q].area
          /\ c.pages[q].live = d.pages[q].live /\ c.pages[q].used <= e

LEMMA UseSucceeds ==
    ASSUME NEW d, NEW e \in Nat, GoodDraft(d, e), NEW g \in DOMAIN d.entries,
           NEW c \in Drafts, UsedAgain(c, d, g, e)
    PROVE  Succeeds(d, c, e) /\ g \in Mine(c, e)
<1>1. \A k \in DOMAIN d.entries :
         /\ c.entries[k].page = d.entries[k].page /\ c.entries[k].gen = d.entries[k].gen
         /\ c.entries[k].x = d.entries[k].x /\ c.entries[k].y = d.entries[k].y
  BY DEF UsedAgain, PlaceOf
<1>2. \A p : OnPage(c.entries, p) = OnPage(d.entries, p)
  BY <1>1 DEF OnPage, UsedAgain
<1>3. Mine(c, e) = Mine(d, e) \cup {g}
  BY DEF Mine, UsedAgain
<1>4. TablesSound(d.pages, d.entries) /\ d.pages \in PageTables
  BY DEF GoodDraft, Drafts
<1>5. ASSUME NEW k \in DOMAIN c.entries PROVE EntryHolds(c.pages, c.entries, k)
  <2>1. k \in DOMAIN d.entries /\ EntryHolds(d.pages, d.entries, k)
    BY <1>4 DEF UsedAgain, TablesSound
  <2>2. CASE Empty(k)
    BY <1>1, <2>1, <2>2 DEF EntryHolds
  <2>3. CASE ~Empty(k)
    <3> DEFINE p == d.entries[k].page
    <3>1. p \in PageSet /\ c.entries[k].page = p
      BY <1>1, <2>1, <2>3 DEF EntryHolds, OnItsPage
    <3>2. /\ c.pages[p].gen = d.pages[p].gen /\ c.pages[p].format = d.pages[p].format
          /\ c.pages[p].x = d.pages[p].x /\ c.pages[p].y = d.pages[p].y
          /\ c.pages[p].row = d.pages[p].row
      BY <3>1 DEF UsedAgain
    <3> QED
      BY <1>1, <2>1, <2>3, <3>1, <3>2 DEF EntryHolds, OnItsPage, InItsRow
  <2> QED
    BY <2>2, <2>3
<1>6. EntriesApart(c.entries)
  BY <1>1, <1>4 DEF EntriesApart, TablesSound, UsedAgain
<1>7. \A p \in PageSet : PageCounted(c.pages, c.entries, p) /\ c.pages[p].y + c.pages[p].row <= PageHeight
  BY <1>2, <1>4 DEF PageCounted, TablesSound, UsedAgain
<1>8. TablesSound(c.pages, c.entries)
  BY <1>5, <1>6, <1>7 DEF TablesSound
<1>9. Pins(c, e)
  <2>1. \A k \in Mine(d, e) : Empty(k) \/ d.entries[k].page \in d.pinned
    BY DEF GoodDraft, Pins
  <2>2. \A k \in Mine(c, e) : Empty(k) \/ c.entries[k].page \in c.pinned
    BY <1>1, <1>3, <2>1 DEF UsedAgain, Mine
  <2>3. \A k \in DOMAIN c.entries : c.entries[k].used <= e
    BY DEF GoodDraft, Pins, UsedAgain
  <2> QED
    BY <1>3, <2>2, <2>3 DEF GoodDraft, Pins, UsedAgain
<1>10. Later(d.pages, d.entries, c.pages, c.entries)
  <2>1. \A p \in PageSet : d.pages[p].gen <= c.pages[p].gen
    BY <1>4 DEF UsedAgain, PageTables, PageRecord
  <2>2. \A k \in DOMAIN d.entries : k \in DOMAIN c.entries /\ PlaceOf(c.entries[k]) = PlaceOf(d.entries[k])
    BY <1>1 DEF UsedAgain, PlaceOf
  <2> QED
    BY <2>1, <2>2 DEF Later, OnPage
<1> QED
  BY <1>3, <1>8, <1>9, <1>10 DEF Succeeds, GoodDraft

LEMMA HitSucceeds ==
    ASSUME AtlasAssumption, NEW d, NEW e \in Nat, GoodDraft(d, e), NEW g \in DOMAIN d.entries
    PROVE  LET c == Hit(d, g, e) IN
           Succeeds(d, c, e) /\ (c.ok => g \in Mine(c, e))
<1> DEFINE p == d.entries[g].page
           used == [d.entries EXCEPT ![g].used = e]
           pg == [d.pages EXCEPT ![p].used = e]
           c == Hit(d, g, e)
<1>1. /\ d \in Drafts /\ d.entries \in EntryTables /\ d.pages \in PageTables
      /\ d.entries[g] \in EntryRecord /\ EntryHolds(d.pages, d.entries, g)
      /\ \A q \in PageSet : d.pages[q].used <= e
  BY EntriesFinite DEF GoodDraft, Drafts, TablesSound, Pins
<1>2. /\ used \in EntryTables /\ DOMAIN used = DOMAIN d.entries /\ used[g].used = e
      /\ PlaceOf(used[g]) = PlaceOf(d.entries[g]) /\ used[g].page = p
      /\ \A k \in DOMAIN d.entries \ {g} : used[k] = d.entries[k]
  <2>1. PICK s \in SUBSET Glyphs : d.entries \in [s -> EntryRecord]
    BY <1>1 DEF EntryTables
  <2>2. g \in s /\ used = [d.entries EXCEPT ![g] = [d.entries[g] EXCEPT !.used = e]]
    BY <2>1
  <2> DEFINE entry == [d.entries[g] EXCEPT !.used = e]
  <2>3. /\ entry \in EntryRecord /\ entry.used = e /\ entry.page = p
        /\ PlaceOf(entry) = PlaceOf(d.entries[g])
    BY <1>1 DEF EntryRecord, PlaceOf
  <2> HIDE DEF entry
  <2>4. used \in [s -> EntryRecord] /\ used[g] = entry
    BY <2>1, <2>2, <2>3 DEF entry
  <2>5. used \in EntryTables
    BY <2>4 DEF EntryTables
  <2> QED
    BY <2>1, <2>3, <2>4, <2>5
<1>3. CASE Empty(g)
  <2>1. c = [d EXCEPT !.entries = used]
    BY <1>3 DEF Hit
  <2> HIDE DEF c, used
  <2>2. /\ c.entries = used /\ c.pages = d.pages /\ c.pinned = d.pinned /\ c.uploads = d.uploads
        /\ c = [ok |-> d.ok, pages |-> d.pages, entries |-> used, pinned |-> d.pinned, uploads |-> d.uploads]
    BY <1>1, <2>1 DEF Drafts
  <2>3. c \in Drafts
    BY <1>1, <1>2, <2>2 DEF Drafts
  <2>4. UsedAgain(c, d, g, e)
    BY <1>1, <1>2, <1>3, <2>2 DEF UsedAgain
  <2> QED
    BY <2>3, <2>4, UseSucceeds DEF c
<1>4. CASE ~Empty(g) /\ ~Resident(d, g)
  BY <1>4, FailedSucceeds DEF Hit
<1>5. CASE ~Empty(g) /\ Resident(d, g)
  <2>1. c = [d EXCEPT !.entries = used, !.pinned = d.pinned \cup {p}, !.pages = pg]
    BY <1>5 DEF Hit
  <2>2. p \in PageSet
    BY <1>1, <1>5 DEF EntryHolds, OnItsPage
  <2>3. /\ pg \in PageTables /\ \A q \in PageSet :
            /\ pg[q].gen = d.pages[q].gen /\ pg[q].format = d.pages[q].format
            /\ pg[q].x = d.pages[q].x /\ pg[q].y = d.pages[q].y
            /\ pg[q].row = d.pages[q].row /\ pg[q].area = d.pages[q].area
            /\ pg[q].live = d.pages[q].live /\ pg[q].used <= e
    <3> DEFINE page == [d.pages[p] EXCEPT !.used = e]
    <3>1. d.pages[p] \in PageRecord /\ pg = [d.pages EXCEPT ![p] = page]
      BY <1>1, <2>2 DEF PageTables
    <3>2. /\ page \in PageRecord /\ page.used = e
          /\ page.gen = d.pages[p].gen /\ page.format = d.pages[p].format
          /\ page.x = d.pages[p].x /\ page.y = d.pages[p].y
          /\ page.row = d.pages[p].row /\ page.area = d.pages[p].area
          /\ page.live = d.pages[p].live
      BY <3>1 DEF PageRecord
    <3> HIDE DEF page
    <3>3. pg \in PageTables /\ pg[p] = page /\ \A q \in PageSet \ {p} : pg[q] = d.pages[q]
      BY <1>1, <2>2, <3>1, <3>2 DEF PageTables
    <3>4. \A q \in PageSet : d.pages[q].used <= e
      BY <1>1
    <3>5. e <= e
      OBVIOUS
    <3> HIDE DEF pg, p, used, c
    <3> QED
      BY <3>2, <3>3, <3>4, <3>5
  <2> HIDE DEF c, used, pg, p
  <2>4. /\ c.entries = used /\ c.pages = pg /\ c.pinned = d.pinned \cup {p} /\ c.uploads = d.uploads
        /\ c = [ok |-> d.ok, pages |-> pg, entries |-> used, pinned |-> d.pinned \cup {p}, uploads |-> d.uploads]
    BY <1>1, <2>1 DEF Drafts
  <2>5. c \in Drafts
    BY <1>1, <1>2, <2>2, <2>3, <2>4 DEF Drafts
  <2>6. UsedAgain(c, d, g, e)
    BY <1>2, <2>3, <2>4 DEF UsedAgain
  <2> QED
    BY <2>5, <2>6, UseSucceeds DEF c
<1> QED
  BY <1>3, <1>4, <1>5

LEMMA KeyedSucceeds ==
    ASSUME AtlasAssumption, NEW d, NEW e \in Nat, GoodDraft(d, e), NEW g \in Glyphs
    PROVE  LET c == Keyed(d, g, e) IN
           /\ Succeeds(d, c, e) /\ (c.ok => d.ok /\ g \in Mine(c, e))
<1>1. CASE ~d.ok
  BY <1>1, SucceedsItself DEF Keyed
<1>2. CASE d.ok /\ g \in DOMAIN d.entries
  <2>1. Keyed(d, g, e) = Hit(d, g, e)
    BY <1>2 DEF Keyed
  <2> QED
    BY <1>2, <2>1, HitSucceeds
<1>3. CASE d.ok /\ g \notin DOMAIN d.entries
  <2>1. Keyed(d, g, e) = Miss(d, g, e)
    BY <1>3 DEF Keyed
  <2> QED
    BY <1>3, <2>1, MissSucceeds
<1> QED
  BY <1>1, <1>2, <1>3

(* Only a glyph placed anew is uploaded.                                   *)
LEMMA EntryFreeUploads ==
    ASSUME NEW d \in Drafts, NEW e PROVE WithEntryFree(d, e).uploads = d.uploads
<1>1. \A c : c = Failed(d) => c.uploads = d.uploads
  BY DEF Failed, Drafts
<1>2. \A p, format : Reset(d, p, format, e).uploads = d.uploads
  BY DEF Reset, Drafts
<1>3. \A f : [d EXCEPT !.entries = f].uploads = d.uploads
  BY DEF Drafts
<1> QED
  BY <1>1, <1>2, <1>3 DEF WithEntryFree

LEMMA AppendedIn ==
    ASSUME NEW S, NEW u \in Seq(S), NEW g \in S, NEW r, \A i \in DOMAIN u : u[i] \in r
    PROVE  \A i \in DOMAIN Append(u, g) : Append(u, g)[i] \in r \cup {g}
<1>1. /\ Len(u) \in Nat /\ DOMAIN u = 1..Len(u) /\ DOMAIN Append(u, g) = 1..(Len(u) + 1)
      /\ \A i \in 1..Len(u) : Append(u, g)[i] = u[i]
      /\ Append(u, g)[Len(u) + 1] = g
  OBVIOUS
<1> QED
  BY <1>1

LEMMA KeyedUploads ==
    ASSUME AtlasAssumption, NEW d, NEW e \in Nat, GoodDraft(d, e), NEW g \in Glyphs
    PROVE  Keyed(d, g, e).uploads \in {d.uploads, Append(d.uploads, g)}
<1>1. d \in Drafts
  BY DEF GoodDraft
<1>2. Hit(d, g, e).uploads = d.uploads
  <2>1. \A f : [d EXCEPT !.entries = f].uploads = d.uploads
    BY <1>1 DEF Drafts
  <2>2. \A f, s, pg : [d EXCEPT !.entries = f, !.pinned = s, !.pages = pg].uploads = d.uploads
    BY <1>1 DEF Drafts
  <2>3. Failed(d).uploads = d.uploads
    BY <1>1 DEF Failed, Drafts
  <2> QED
    BY <2>1, <2>2, <2>3 DEF Hit
<1>3. ASSUME g \notin DOMAIN d.entries
      PROVE  Miss(d, g, e).uploads \in {d.uploads, Append(d.uploads, g)}
  <2> DEFINE b == WithEntryFree(d, e)
             f == WithPage(b, g, e)
  <2>1. b \in Drafts /\ b.uploads = d.uploads
    BY <1>1, EntryFreeUploads, EntryFreeSucceeds DEF Succeeds, GoodDraft
  <2>2. Miss(d, g, e) = IF ~b.ok THEN b
                        ELSE IF Empty(g)
                        THEN [b EXCEPT !.entries =
                                Entered(@, g, [page |-> 0, gen |-> 0, x |-> 0, y |-> 0, used |-> e])]
                        ELSE WithGlyph(b, g, e)
    BY Zenon DEF Miss
  <2> HIDE DEF b
  <2>3. \A table : [b EXCEPT !.entries = table].uploads = d.uploads
    BY <2>1 DEF Drafts
  <2>4. f.draft.uploads = d.uploads
    <3>1. Failed(b).uploads = d.uploads
      BY <2>1 DEF Failed, Drafts
    <3>2. \A p, format : Reset(b, p, format, e).uploads = d.uploads
      BY <2>1 DEF Reset, Drafts
    <3> QED
      BY <2>1, <3>1, <3>2 DEF WithPage
  <2>5. WithGlyph(b, g, e).uploads \in {f.draft.uploads, Append(f.draft.uploads, g)}
    BY DEF WithGlyph
  <2> HIDE DEF f
  <2> QED
    BY <2>1, <2>2, <2>3, <2>4, <2>5
<1> QED
  BY <1>2, <1>3 DEF Keyed
--------------------------------------------------------------------------------
Beginning == [ok |-> TRUE, pages |-> pages, entries |-> entries, pinned |-> {}, uploads |-> <<>>]

(* What is staged for a working set follows from what is there, and all of *)
(* the working set is among what it uses.                                  *)
LEMMA StagedSucceeds ==
    ASSUME AtlasAssumption, NEW e \in Nat, GoodDraft(Beginning, e), NEW working \in SUBSET Glyphs
    PROVE  LET d == Staged(working, e) IN
           /\ Succeeds(Beginning, d, e) /\ (d.ok => working \subseteq Mine(d, e))
           /\ \A i \in DOMAIN d.uploads : d.uploads[i] \in working
<1> DEFINE V == {d \in Drafts : GoodDraft(d, e)}
           F == [x \in working \X V |-> Keyed(x[2], x[1], e)]
           P == [s \in SUBSET working |-> Max(s)]
           after(g, s) == IF s = {} THEN Beginning ELSE Keyed(g[s \ {Max(s)}], Max(s), e)
           it == CHOOSE iter : iter = [s \in SUBSET working |-> after(iter, s)]
           base == Beginning
<1>1. IsFiniteSet(working) /\ working \in SUBSET Nat
  BY FS_Subset DEF AtlasAssumption
<1>2. Beginning \in V
  BY DEF GoodDraft
<1>3. \A s \in SUBSET working : s # {} => Max(s) \in s
  <2> TAKE s \in SUBSET working
  <2> HAVE s # {}
  <2>1. s \in SUBSET Nat /\ IsFiniteSet(s)
    BY <1>1, FS_Subset
  <2> QED
    BY <2>1, GreatestIs
<1>4. Chooses(P, working)
  BY <1>3 DEF Chooses
<1>5. F \in [working \X V -> V]
  <2> SUFFICES ASSUME NEW g \in working, NEW d \in V PROVE Keyed(d, g, e) \in V
    OBVIOUS
  <2>1. GoodDraft(d, e) /\ g \in Glyphs
    OBVIOUS
  <2>2. GoodDraft(Keyed(d, g, e), e)
    BY <2>1, KeyedSucceeds DEF Succeeds
  <2> QED
    BY <2>2 DEF GoodDraft
<1>6. it = [s \in SUBSET working |-> after(it, s)]
  <2> HIDE DEF V, F, P, base
  <2>1. base \in V
    BY <1>2 DEF base
  <2>2. PICK g \in [SUBSET working -> V] : ComputesAlong(g, F, base, working, P)
    BY <1>1, <1>4, <1>5, <2>1, FoldAlong
  <2>3. ASSUME NEW s \in SUBSET working PROVE g[s] = after(g, s)
    <3>1. CASE s = {}
      BY <2>2, <3>1 DEF ComputesAlong, base
    <3>2. CASE s # {}
      <4>1. Max(s) \in working /\ g[s \ {Max(s)}] \in V /\ P[s] = Max(s)
        BY <1>3, <3>2 DEF P
      <4>2. g[s] = F[<<Max(s), g[s \ {Max(s)}]>>]
        BY <2>2, <3>2, <4>1 DEF ComputesAlong
      <4> QED
        BY <3>2, <4>1, <4>2 DEF F
    <3> QED
      BY <3>1, <3>2
  <2>4. g = [s \in SUBSET working |-> after(g, s)]
    <3> HIDE DEF after
    <3> QED
      BY <2>3
  <2> QED
    BY <2>4, Zenon
<1>7. Staged(working, e) = it[working]
  BY Zenon DEF Staged, MapThenFoldSet, Beginning
<1> DEFINE Done(s) == /\ Succeeds(Beginning, it[s], e) /\ (it[s].ok => s \subseteq Mine(it[s], e))
                      /\ \A i \in DOMAIN it[s].uploads : it[s].uploads[i] \in s
           T == {n \in Nat : \A s \in SUBSET working : Cardinality(s) = n => Done(s)}
<1> HIDE DEF it, V, F, P, Done
<1>8. 0 \in T
  <2> SUFFICES ASSUME NEW s \in SUBSET working, Cardinality(s) = 0 PROVE Done(s)
    OBVIOUS
  <2>1. s = {}
    BY <1>1, PartIs
  <2>2. it[s] = Beginning
    BY <1>6, <2>1
  <2>3. DOMAIN Beginning.uploads = {}
    BY DEF Beginning
  <2> QED
    BY <1>2, <2>1, <2>2, <2>3, SucceedsItself DEF Done, V
<1>9. ASSUME NEW n \in T PROVE n + 1 \in T
  <2>1. n \in Nat
    OBVIOUS
  <2> SUFFICES ASSUME NEW s \in SUBSET working, Cardinality(s) = n + 1 PROVE Done(s)
    BY <2>1
  <2> DEFINE g == Max(s)
             r == s \ {g}
             b == it[r]
             c == Keyed(b, g, e)
  <2>2. s # {}
    BY <1>1, <2>1, PartIs
  <2>3. g \in s /\ g \in Glyphs
    BY <1>3, <2>2
  <2>4. r \in SUBSET working /\ Cardinality(r) = n
    <3>1. \A y \in s : Cardinality(s \ {y}) = Cardinality(s) - 1
      BY <1>1, PartIs
    <3> HIDE DEF g, T
    <3> QED
      BY <2>1, <2>3, <3>1
  <2>5. it[s] = c
    BY <1>6, <2>2
  <2>6. Done(r)
    BY <2>4
  <2> HIDE DEF g, T
  <2>7. r \cup {g} = s
    BY <2>3
  <2> HIDE DEF r
  <2>8. /\ Succeeds(Beginning, b, e) /\ (b.ok => r \subseteq Mine(b, e))
        /\ \A i \in DOMAIN b.uploads : b.uploads[i] \in r
    BY <2>6 DEF Done
  <2> HIDE DEF b
  <2>9. Succeeds(b, c, e) /\ (c.ok => b.ok /\ g \in Mine(c, e))
    BY <2>3, <2>8, KeyedSucceeds DEF Succeeds
  <2>12. c.uploads \in {b.uploads, Append(b.uploads, g)} /\ b.uploads \in Seq(Glyphs)
    BY <2>3, <2>8, KeyedUploads DEF Succeeds, GoodDraft, Drafts
  <2> HIDE DEF c
  <2>10. Succeeds(Beginning, c, e)
    BY <2>8, <2>9, SucceedsBoth
  <2>11. c.ok => s \subseteq Mine(c, e)
    BY <2>7, <2>8, <2>9 DEF Succeeds
  <2>13. \A i \in DOMAIN c.uploads : c.uploads[i] \in s
    <3>1. CASE c.uploads = b.uploads
      BY <2>7, <2>8, <3>1
    <3>2. CASE c.uploads = Append(b.uploads, g)
      <4>1. \A i \in DOMAIN c.uploads : c.uploads[i] \in r \cup {g}
        BY <2>3, <2>8, <2>12, <3>2, AppendedIn
      <4> QED
        BY <2>7, <4>1
    <3> QED
      BY <2>12, <3>1, <3>2
  <2> QED
    BY <2>5, <2>10, <2>11, <2>13 DEF Done
<1>10. T = Nat
  <2> HIDE DEF T
  <2>1. T \in SUBSET Nat
    BY DEF T
  <2> QED
    BY <1>8, <1>9, <2>1, Induction
<1>11. working \in SUBSET working /\ Cardinality(working) \in Nat
  BY <1>1, PartIs
<1>12. Done(working)
  BY <1>10, <1>11
<1> QED
  BY <1>7, <1>12 DEF Done
--------------------------------------------------------------------------------
(* The inductive invariant.                                                *)
PlaceTables == UNION {[s -> [page : PageSet, gen : Nat, x : Nat, y : Nat]] : s \in SUBSET Glyphs}
Submission == [atlas : 0..2, at : 0..MaxEpoch, places : PlaceTables, uploads : Seq(Glyphs)]

(* A page is of the generation a submission names or of a later one, and   *)
(* in the first case the glyph is still there.                             *)
Kept(s, pg, en) == \A g \in DOMAIN s.places :
    LET named == s.places[g] IN
    /\ named.gen <= pg[named.page].gen
    /\ named.gen = pg[named.page].gen => g \in DOMAIN en /\ PlaceOf(en[g]) = named
SubmissionHolds(s) ==
    /\ s.atlas <= atlas
    /\ s.atlas = atlas => s.at <= epoch /\ Kept(s, pages, entries)
    /\ \A i \in DOMAIN s.uploads : s.uploads[i] \in DOMAIN s.places

UsedBefore == /\ \A p \in PageSet : pages[p].used <= epoch
              /\ \A g \in DOMAIN entries : entries[g].used <= epoch
AtlasTypes == /\ pages \in PageTables /\ entries \in EntryTables /\ atlas \in 1..2
              /\ epoch \in 0..MaxEpoch /\ held \in [Holders -> Submission]
AtlasInv == /\ AtlasTypes /\ TablesSound(pages, entries) /\ UsedBefore
            /\ \A t \in Holders : SubmissionHolds(held[t])

LEMMA KeptLater ==
    ASSUME NEW s \in Submission, NEW pg \in PageTables, NEW pg1 \in PageTables, NEW en, NEW en1,
           Kept(s, pg, en), Later(pg, en, pg1, en1)
    PROVE  Kept(s, pg1, en1)
<1> SUFFICES ASSUME NEW g \in DOMAIN s.places
             PROVE  LET named == s.places[g] IN
                    /\ named.gen <= pg1[named.page].gen
                    /\ named.gen = pg1[named.page].gen => g \in DOMAIN en1 /\ PlaceOf(en1[g]) = named
  BY DEF Kept
<1> DEFINE named == s.places[g]
           p == named.page
<1>1. p \in PageSet /\ named.gen \in Nat
  BY DEF Submission, PlaceTables
<1> HIDE DEF named
<1>2. pg[p].gen \in Nat /\ pg1[p].gen \in Nat
  BY <1>1 DEF PageTables, PageRecord
<1>3. named.gen <= pg[p].gen /\ pg[p].gen <= pg1[p].gen
  BY <1>1 DEF Kept, Later, named
<1>4. ASSUME named.gen = pg1[p].gen PROVE g \in DOMAIN en1 /\ PlaceOf(en1[g]) = named
  <2>1. named.gen = pg[p].gen /\ pg[p].gen = pg1[p].gen
    BY <1>1, <1>2, <1>3, <1>4
  <2>2. g \in DOMAIN en /\ PlaceOf(en[g]) = named
    BY <2>1 DEF Kept, named
  <2>3. g \in OnPage(en, p)
    BY <2>2 DEF OnPage, PlaceOf
  <2> QED
    BY <1>1, <2>1, <2>2, <2>3 DEF Later
<1> QED
  BY <1>1, <1>2, <1>3, <1>4 DEF named

(* Tables without entries.                                                 *)
LEMMA NewTables ==
    ASSUME AtlasAssumption
    PROVE  /\ NoPages \in PageTables /\ \A p \in PageSet : NoPages[p] = Blank
           /\ NoEntries \in EntryTables /\ DOMAIN NoEntries = {} /\ TablesSound(NoPages, NoEntries)
<1>1. NoPages \in PageTables /\ \A p \in PageSet : NoPages[p] = Blank
  <2>1. 0 \in 0..PageWidth
    BY DEF AtlasAssumption
  <2>2. Blank \in PageRecord
    BY <2>1 DEF Blank, PageRecord, AtlasFormats
  <2> QED
    BY <2>2 DEF NoPages, PageTables, PageSet
<1>2. NoEntries \in EntryTables /\ DOMAIN NoEntries = {}
  <2>1. NoEntries \in [{} -> EntryRecord]
    BY DEF NoEntries
  <2> QED
    BY <2>1 DEF EntryTables
<1>3. TablesSound(NoPages, NoEntries)
  <2>1. \A p : OnPage(NoEntries, p) = {}
    BY <1>2 DEF OnPage
  <2>2. Cardinality({}) = 0 /\ SumOf(Areas, {}) = 0
    BY FS_EmptySet, SumEmpty
  <2>3. PageHeight \in Nat
    BY DEF AtlasAssumption
  <2>4. ASSUME NEW p \in PageSet
        PROVE  PageCounted(NoPages, NoEntries, p) /\ NoPages[p].y + NoPages[p].row <= PageHeight
    <3>1. /\ NoPages[p].live = 0 /\ NoPages[p].area = 0
          /\ NoPages[p].y = 0 /\ NoPages[p].row = 0
      BY <1>1 DEF Blank
    <3> QED
      BY <2>1, <2>2, <2>3, <3>1 DEF PageCounted
  <2>5. EntriesApart(NoEntries)
    BY <1>2 DEF EntriesApart
  <2> QED
    BY <1>2, <2>4, <2>5 DEF TablesSound
<1> QED
  BY <1>1, <1>2, <1>3

LEMMA NothingHeld ==
    ASSUME AtlasAssumption
    PROVE  Nothing \in Submission /\ Nothing.atlas = 0 /\ DOMAIN Nothing.uploads = {}
<1>1. NoEntries \in [{} -> [page : PageSet, gen : Nat, x : Nat, y : Nat]]
  BY DEF NoEntries
<1>2. NoEntries \in PlaceTables
  BY <1>1 DEF PlaceTables
<1>3. 0 \in 0..MaxEpoch
  BY DEF AtlasAssumption
<1> HIDE DEF NoEntries
<1> QED
  BY <1>2, <1>3 DEF Nothing, Submission

LEMMA AtlasInitially == ASSUME AtlasAssumption, AtlasInit PROVE AtlasInv
<1>1. MaxEpoch \in Nat
  BY DEF AtlasAssumption
<1>2. AtlasTypes
  BY <1>1, NewTables, NothingHeld DEF AtlasInit, AtlasTypes
<1>3. UsedBefore
  BY NewTables DEF AtlasInit, UsedBefore, Blank
<1>4. \A t \in Holders : SubmissionHolds(held[t])
  BY NothingHeld DEF AtlasInit, SubmissionHolds
<1> QED
  BY <1>2, <1>3, <1>4, NewTables DEF AtlasInit, AtlasInv

LEMMA BeginningGood ==
    ASSUME AtlasAssumption, AtlasInv PROVE GoodDraft(Beginning, epoch + 1)
<1>1. epoch \in Nat
  BY DEF AtlasInv, AtlasTypes, AtlasAssumption
<1>2. /\ Beginning.pages = pages /\ Beginning.entries = entries
      /\ Beginning.pinned = {} /\ Beginning.uploads = <<>>
  BY DEF Beginning
<1>3. Beginning \in Drafts
  BY DEF Beginning, Drafts, AtlasInv, AtlasTypes
<1>4. \A g \in DOMAIN entries : entries[g].used \in Nat
  BY EntriesFinite DEF AtlasInv, AtlasTypes, EntryRecord
<1>5. \A p \in PageSet : pages[p].used \in Nat
  BY DEF AtlasInv, AtlasTypes, PageTables, PageRecord
<1>6. Mine(Beginning, epoch + 1) = {}
  BY <1>1, <1>2, <1>4 DEF Mine, AtlasInv, UsedBefore
<1>7. Pins(Beginning, epoch + 1)
  BY <1>1, <1>2, <1>4, <1>5, <1>6 DEF Pins, AtlasInv, UsedBefore
<1> QED
  BY <1>2, <1>3, <1>7 DEF GoodDraft, AtlasInv

(* What prepare publishes: the tables it staged, and a submission that     *)
(* names the places of the glyphs of the working set.                      *)
LEMMA SubmittedHolds ==
    ASSUME AtlasAssumption, NEW e \in 0..MaxEpoch, NEW a \in 1..2, NEW d, GoodDraft(d, e),
           NEW working \in SUBSET Glyphs, working \subseteq Mine(d, e),
           \A i \in DOMAIN d.uploads : d.uploads[i] \in working,
           NEW s, s = [atlas |-> a, at |-> e,
                       places |-> [g \in {k \in working : ~Empty(k)} |-> PlaceOf(d.entries[g])],
                       uploads |-> d.uploads]
    PROVE  /\ s \in Submission /\ Kept(s, d.pages, d.entries)
           /\ \A i \in DOMAIN s.uploads : s.uploads[i] \in DOMAIN s.places
<1> DEFINE named == {k \in working : ~Empty(k)}
           places == [g \in named |-> PlaceOf(d.entries[g])]
<1>1. /\ d \in Drafts /\ d.entries \in EntryTables /\ d.pages \in PageTables /\ d.uploads \in Seq(Glyphs)
  BY DEF GoodDraft, Drafts
<1>2. ASSUME NEW g \in named
      PROVE  /\ g \in DOMAIN d.entries /\ d.entries[g] \in EntryRecord
             /\ d.entries[g].page \in PageSet
             /\ d.entries[g].gen = d.pages[d.entries[g].page].gen
  <2>1. g \in DOMAIN d.entries
    BY DEF Mine
  <2>2. EntryHolds(d.pages, d.entries, g)
    BY <2>1 DEF GoodDraft, TablesSound
  <2> QED
    BY <1>1, <2>1, <2>2, EntriesFinite DEF EntryHolds, OnItsPage
<1>3. places \in PlaceTables
  <2>1. \A g \in named : PlaceOf(d.entries[g]) \in [page : PageSet, gen : Nat, x : Nat, y : Nat]
    BY <1>2 DEF PlaceOf, EntryRecord
  <2>2. named \in SUBSET Glyphs
    OBVIOUS
  <2> HIDE DEF named
  <2>3. places \in [named -> [page : PageSet, gen : Nat, x : Nat, y : Nat]]
    BY <2>1
  <2> QED
    BY <2>2, <2>3 DEF PlaceTables
<1>4. s.places = places /\ DOMAIN s.places = named /\ s.uploads = d.uploads
  OBVIOUS
<1>5. s \in Submission
  <2> HIDE DEF places
  <2>1. s = [atlas |-> a, at |-> e, places |-> places, uploads |-> d.uploads]
    BY DEF places
  <2> QED
    BY <1>1, <1>3, <2>1 DEF Submission
<1>6. Kept(s, d.pages, d.entries)
  <2> SUFFICES ASSUME NEW g \in named
               PROVE  LET at == s.places[g] IN
                      /\ at.gen <= d.pages[at.page].gen
                      /\ g \in DOMAIN d.entries /\ PlaceOf(d.entries[g]) = at
    BY <1>4 DEF Kept
  <2>1. s.places[g] = PlaceOf(d.entries[g])
    BY <1>4
  <2>2. s.places[g].page = d.entries[g].page /\ s.places[g].gen = d.entries[g].gen
    BY <2>1 DEF PlaceOf
  <2>3. d.entries[g].gen \in Nat
    BY <1>2 DEF EntryRecord
  <2> QED
    BY <1>2, <2>1, <2>2, <2>3
<1>7. \A i \in DOMAIN s.uploads : s.uploads[i] \in DOMAIN s.places
  BY <1>4 DEF GoodDraft, Pins
<1> QED
  BY <1>5, <1>6, <1>7

(* An atlas action that replaces the tables by later ones leaves what any  *)
(* other submission names.                                                 *)
LEMMA PrepareKeeps ==
    ASSUME AtlasAssumption, AtlasInv, NEW t \in Holders, NEW working \in SUBSET Glyphs,
           Prepare(t, working)
    PROVE  AtlasInv' /\ Later(pages, entries, pages', entries')
<1> DEFINE e == epoch + 1
           d == Staged(working, e)
           s == [atlas |-> atlas, at |-> e,
                 places |-> [g \in {k \in working : ~Empty(k)} |-> PlaceOf(d.entries[g])],
                 uploads |-> d.uploads]
<1>1. /\ epoch \in Nat /\ MaxEpoch \in Nat /\ epoch <= MaxEpoch /\ atlas \in 1..2
      /\ pages \in PageTables /\ held \in [Holders -> Submission]
  BY DEF AtlasInv, AtlasTypes, AtlasAssumption
<1>2. /\ epoch < MaxEpoch /\ d.ok /\ pages' = d.pages /\ entries' = d.entries /\ epoch' = e
      /\ atlas' = atlas /\ held' = [held EXCEPT ![t] = s]
  BY DEF Prepare
<1>3. e \in Nat /\ e \in 0..MaxEpoch /\ epoch <= e
  BY <1>1, <1>2
<1>4. /\ Succeeds(Beginning, d, e) /\ working \subseteq Mine(d, e)
      /\ \A i \in DOMAIN d.uploads : d.uploads[i] \in working
  BY <1>2, <1>3, BeginningGood, StagedSucceeds
<1> HIDE DEF d
<1>5. GoodDraft(d, e) /\ d.pages \in PageTables /\ d.entries \in EntryTables
  BY <1>4 DEF Succeeds, GoodDraft, Drafts
<1>6. Later(pages, entries, d.pages, d.entries)
  BY <1>4 DEF Succeeds, Beginning
<1>7. /\ s \in Submission /\ Kept(s, d.pages, d.entries)
      /\ \A i \in DOMAIN s.uploads : s.uploads[i] \in DOMAIN s.places
  BY <1>1, <1>3, <1>4, <1>5, SubmittedHolds
<1>8. s.atlas = atlas /\ s.at = e
  OBVIOUS
<1> HIDE DEF s, e
<1>9. AtlasTypes'
  BY <1>1, <1>2, <1>3, <1>5, <1>7 DEF AtlasTypes
<1>10. UsedBefore'
  BY <1>2, <1>5 DEF UsedBefore, GoodDraft, Pins
<1>11. ASSUME NEW u \in Holders PROVE SubmissionHolds(held[u])'
  <2>1. CASE u = t
    <3>1. held'[u] = s
      BY <1>1, <1>2, <2>1
    <3> QED
      BY <1>1, <1>2, <1>3, <1>7, <1>8, <3>1 DEF SubmissionHolds
  <2>2. CASE u # t
    <3>1. held'[u] = held[u] /\ held[u] \in Submission /\ SubmissionHolds(held[u])
      BY <1>1, <1>2, <2>2 DEF AtlasInv
    <3>2. held[u].atlas = atlas => held[u].at <= e /\ Kept(held[u], d.pages, d.entries)
      <4>1. held[u].at \in Nat
        BY <1>1, <3>1 DEF Submission
      <4>2. held[u].atlas = atlas => held[u].at <= epoch /\ Kept(held[u], pages, entries)
        BY <3>1 DEF SubmissionHolds
      <4> QED
        BY <1>1, <1>3, <1>5, <1>6, <3>1, <4>1, <4>2, KeptLater
    <3> QED
      BY <1>2, <3>1, <3>2 DEF SubmissionHolds
  <2> QED
    BY <2>1, <2>2
<1>12. TablesSound(pages', entries')
  BY <1>2, <1>5 DEF GoodDraft
<1>13. AtlasInv'
  BY <1>9, <1>10, <1>11, <1>12 DEF AtlasInv
<1> QED
  BY <1>2, <1>6, <1>13

LEMMA FailingKeeps ==
    ASSUME AtlasAssumption, AtlasInv, NEW t \in Holders, PrepareFails(t) PROVE AtlasInv'
<1>1. /\ pages' = pages /\ entries' = entries /\ atlas' = atlas /\ epoch' = epoch
      /\ held' = [held EXCEPT ![t] = Nothing]
  BY DEF PrepareFails, cache
<1>2. Nothing \in Submission /\ Nothing.atlas = 0 /\ DOMAIN Nothing.uploads = {}
  BY NothingHeld
<1> HIDE DEF Nothing
<1>3. AtlasTypes'
  BY <1>1, <1>2 DEF AtlasInv, AtlasTypes
<1>4. UsedBefore'
  BY <1>1 DEF AtlasInv, UsedBefore
<1>5. ASSUME NEW u \in Holders PROVE SubmissionHolds(held[u])'
  <2>1. held'[u] = IF u = t THEN Nothing ELSE held[u]
    BY <1>1 DEF AtlasInv, AtlasTypes
  <2>2. SubmissionHolds(held[u]) /\ atlas \in 1..2
    BY DEF AtlasInv, AtlasTypes
  <2> QED
    BY <1>1, <1>2, <2>1, <2>2 DEF SubmissionHolds
<1> QED
  BY <1>1, <1>3, <1>4, <1>5 DEF AtlasInv

LEMMA ClearingKeeps == ASSUME AtlasAssumption, AtlasInv, Clear PROVE AtlasInv'
<1>1. /\ pages' = NoPages /\ entries' = NoEntries /\ atlas' = atlas + 1 /\ epoch' = 0
      /\ held' = held /\ atlas \in 1..2 /\ atlas < 2
  BY DEF Clear, AtlasInv, AtlasTypes
<1>2. MaxEpoch \in Nat
  BY DEF AtlasAssumption
<1>3. AtlasTypes'
  BY <1>1, <1>2, NewTables DEF AtlasInv, AtlasTypes
<1>4. UsedBefore'
  BY <1>1, NewTables DEF UsedBefore, Blank
<1>5. ASSUME NEW u \in Holders PROVE SubmissionHolds(held[u])'
  <2>1. held[u] \in Submission /\ SubmissionHolds(held[u])
    BY DEF AtlasInv, AtlasTypes
  <2>2. held[u].atlas \in Nat
    BY <2>1 DEF Submission
  <2> QED
    BY <1>1, <2>1, <2>2 DEF SubmissionHolds
<1>6. TablesSound(pages', entries')
  BY <1>1, NewTables
<1> QED
  BY <1>3, <1>4, <1>5, <1>6 DEF AtlasInv

LEMMA AtlasStepKeeps ==
    ASSUME AtlasAssumption, AtlasInv, [AtlasNext]_atlasVars PROVE AtlasInv'
<1>1. CASE UNCHANGED atlasVars
  <2>1. /\ pages' = pages /\ entries' = entries /\ atlas' = atlas /\ epoch' = epoch /\ held' = held
    BY <1>1 DEF atlasVars
  <2>2. AtlasTypes' /\ UsedBefore'
    BY <2>1 DEF AtlasInv, AtlasTypes, UsedBefore
  <2>3. \A u \in Holders : SubmissionHolds(held[u])'
    BY <2>1 DEF AtlasInv, SubmissionHolds
  <2> QED
    BY <2>1, <2>2, <2>3 DEF AtlasInv
<1>2. ASSUME NEW t \in Holders, NEW working \in SUBSET Glyphs \ {{}}, Prepare(t, working)
      PROVE  AtlasInv'
  BY <1>2, PrepareKeeps
<1>3. ASSUME NEW t \in Holders, PrepareFails(t) PROVE AtlasInv'
  BY <1>3, FailingKeeps
<1>4. CASE Clear
  BY <1>4, ClearingKeeps
<1> QED
  BY <1>1, <1>2, <1>3, <1>4 DEF AtlasNext
--------------------------------------------------------------------------------
(* The area a page keeps is summed over its entries.                       *)
LEMMA AreaIsSum ==
    ASSUME AtlasAssumption, NEW S \in SUBSET Glyphs
    PROVE  MapThenSumSet(LAMBDA g : Raster[g].w * Raster[g].h, S) = SumOf(Areas, S)
<1> DEFINE it == CHOOSE it : it = [s \in SUBSET S |->
                    IF s = {} THEN 0 ELSE Raster[Pick(s)].w * Raster[Pick(s)].h + it[s \ {Pick(s)}]]
           f == Summed(Areas, S)
<1>1. MapThenSumSet(LAMBDA g : Raster[g].w * Raster[g].h, S) = it[S]
  BY Zenon DEF MapThenSumSet, MapThenFoldSet, Pick
<1>2. IsFiniteSet(S) /\ Counts(Areas, S)
  <2>1. IsFiniteSet(Glyphs)
    BY DEF AtlasAssumption
  <2> QED
    BY <2>1, AreasAre, FS_Subset DEF Counts
<1>3. Sums(f, Areas, S)
  BY <1>2, SummedIs
<1>4. \A s \in SUBSET S : s # {} => Areas[Pick(s)] = Raster[Pick(s)].w * Raster[Pick(s)].h
  BY PickIs DEF Areas
<1> HIDE DEF f
<1>5. f = [s \in SUBSET S |->
             IF s = {} THEN 0 ELSE Raster[Pick(s)].w * Raster[Pick(s)].h + f[s \ {Pick(s)}]]
  BY <1>3, <1>4 DEF Sums
<1>6. it = [s \in SUBSET S |->
              IF s = {} THEN 0 ELSE Raster[Pick(s)].w * Raster[Pick(s)].h + it[s \ {Pick(s)}]]
  BY <1>5, Zenon
<1> HIDE DEF it
<1>7. Adds(it, Areas, S)
  BY <1>4, <1>6 DEF Adds
<1>8. it[S] = SumOf(Areas, S)
  BY <1>2, <1>7, SumIs
<1> QED
  BY <1>1, <1>8

LEMMA InvIsExact ==
    ASSUME AtlasAssumption, AtlasInv
    PROVE  AtlasTypeOK /\ TableExact /\ PlacesDisjoint /\ CurrentIsThere
<1>1. /\ pages \in PageTables /\ entries \in EntryTables /\ held \in [Holders -> Submission]
      /\ TablesSound(pages, entries) /\ \A t \in Holders : SubmissionHolds(held[t])
  BY DEF AtlasInv, AtlasTypes
<1>2. \A p : On(p) = OnPage(entries, p)
  BY DEF On, OnPage
<1>3. DOMAIN entries \in SUBSET Glyphs
  BY <1>1, EntriesFinite
<1>4. AtlasTypeOK
  <2>1. \A p \in PageSet : /\ pages[p].x \in 0..PageWidth /\ pages[p].y + pages[p].row <= PageHeight
                           /\ pages[p].used <= epoch
    BY <1>1 DEF PageTables, PageRecord, TablesSound, AtlasInv, UsedBefore
  <2>2. ASSUME NEW t \in Holders
        PROVE  DOMAIN held[t].places \subseteq Glyphs /\ Range(held[t].uploads) \subseteq DOMAIN held[t].places
    <3>1. held[t] \in Submission /\ SubmissionHolds(held[t])
      BY <1>1
    <3>2. DOMAIN held[t].places \subseteq Glyphs
      BY <3>1 DEF Submission, PlaceTables
    <3> QED
      BY <3>1, <3>2 DEF SubmissionHolds, Range
  <2> QED
    BY <1>3, <2>1, <2>2 DEF AtlasTypeOK, AtlasInv, AtlasTypes, PageSet
<1>5. ASSUME NEW p \in PageSet, NEW g \in OnPage(entries, p)
      PROVE  ~Empty(g) /\ OnItsPage(pages, entries, g) /\ entries[g].page = p /\ g \in DOMAIN entries
  <2>1. g \in DOMAIN entries /\ entries[g].page = p /\ p # 0
    BY DEF OnPage, PageSet
  <2> QED
    BY <1>1, <2>1 DEF TablesSound, EntryHolds
<1>6. TableExact
  <2> SUFFICES ASSUME NEW p \in PageSet
               PROVE  /\ \A g \in On(p) : /\ entries[g].gen = pages[p].gen
                                          /\ Raster[g].format = pages[p].format
                      /\ pages[p].live = Cardinality(On(p))
                      /\ pages[p].area = MapThenSumSet(LAMBDA g : Raster[g].w * Raster[g].h, On(p))
    BY Zenon DEF TableExact, PageSet
  <2>1. \A g \in On(p) : entries[g].gen = pages[p].gen /\ Raster[g].format = pages[p].format
    BY <1>2, <1>5 DEF OnItsPage
  <2>2. pages[p].live = Cardinality(On(p)) /\ pages[p].area = SumOf(Areas, On(p))
    BY <1>1, <1>2 DEF TablesSound, PageCounted
  <2>3. On(p) \in SUBSET Glyphs
    BY <1>3 DEF On
  <2>4. MapThenSumSet(LAMBDA g : Raster[g].w * Raster[g].h, On(p)) = SumOf(Areas, On(p))
    BY <2>3, AreaIsSum
  <2> QED
    BY <2>1, <2>2, <2>4, Zenon
<1>7. PlacesDisjoint
  <2> SUFFICES ASSUME NEW p \in PageSet, NEW g \in On(p)
               PROVE  /\ entries[g].x + Raster[g].w <= PageWidth
                      /\ entries[g].y + Raster[g].h <= PageHeight
                      /\ \A k \in On(p) \ {g} :
                           \/ Apart(entries[g].x, Raster[g].w, entries[k].x, Raster[k].w)
                           \/ Apart(entries[g].y, Raster[g].h, entries[k].y, Raster[k].h)
    BY DEF PlacesDisjoint, PageSet
  <2>1. OnItsPage(pages, entries, g) /\ entries[g].page = p
    BY <1>2, <1>5
  <2>2. ASSUME NEW k \in On(p) \ {g}
        PROVE  \/ Apart(entries[g].x, Raster[g].w, entries[k].x, Raster[k].w)
               \/ Apart(entries[g].y, Raster[g].h, entries[k].y, Raster[k].h)
    <3>1. g \in DOMAIN entries /\ k \in DOMAIN entries /\ entries[k].page = p /\ p # 0
      BY DEF On, PageSet
    <3> QED
      BY <1>1, <2>1, <3>1 DEF TablesSound, EntriesApart
  <2> QED
    BY <2>1, <2>2 DEF OnItsPage
<1>8. CurrentIsThere
  <2> SUFFICES ASSUME NEW t \in Holders, Current(held[t]), NEW g \in DOMAIN held[t].places
               PROVE  g \in DOMAIN entries /\ PlaceOf(entries[g]) = held[t].places[g]
    BY DEF CurrentIsThere
  <2>1. Kept(held[t], pages, entries)
    BY <1>1 DEF SubmissionHolds, Current
  <2>2. pages[held[t].places[g].page].gen = held[t].places[g].gen
    BY DEF Current
  <2> QED
    BY <2>1, <2>2 DEF Kept
<1> QED
  BY <1>4, <1>6, <1>7, <1>8

LEMMA StepKeepsStale ==
    ASSUME AtlasAssumption, AtlasInv, [AtlasNext]_atlasVars, NEW u \in Holders,
           held[u].atlas # 0, held'[u] = held[u], ~Current(held[u])
    PROVE  ~Current(held[u])'
<1> DEFINE s == held[u]
<1>1. s \in Submission /\ SubmissionHolds(s) /\ atlas \in 1..2 /\ epoch \in Nat /\ pages \in PageTables
  BY DEF AtlasInv, AtlasTypes, AtlasAssumption
<1> HIDE DEF s
<1>2. s.atlas \in Nat /\ s.at \in Nat /\ s.atlas <= atlas
  BY <1>1 DEF Submission, SubmissionHolds
<1>3. ASSUME atlas' = atlas + 1 PROVE ~Current(held[u])'
  BY <1>1, <1>2, <1>3 DEF Current, s
<1>4. ASSUME atlas' = atlas, pages' \in PageTables, Later(pages, entries, pages', entries')
      PROVE  ~Current(held[u])'
  <2>1. CASE s.atlas # atlas
    BY <1>4, <2>1 DEF Current, s
  <2>2. CASE s.atlas = atlas
    <3>1. PICK g \in DOMAIN s.places : pages[s.places[g].page].gen # s.places[g].gen
      BY <2>2 DEF Current, s
    <3> DEFINE p == s.places[g].page
               n == s.places[g].gen
    <3>2. p \in PageSet /\ n \in Nat
      BY <1>1 DEF Submission, PlaceTables
    <3>3. pages[p].gen \in Nat /\ pages'[p].gen \in Nat
      BY <1>1, <1>4, <3>2 DEF PageTables, PageRecord
    <3>4. n <= pages[p].gen
      BY <1>1, <2>2 DEF SubmissionHolds, Kept
    <3>5. pages[p].gen <= pages'[p].gen
      BY <1>4, <3>2 DEF Later
    <3> HIDE DEF p, n
    <3>6. pages'[p].gen # n
      BY <3>1, <3>2, <3>3, <3>4, <3>5 DEF p, n
    <3> QED
      BY <3>6 DEF Current, s, p, n
  <2> QED
    BY <2>1, <2>2
<1>5. ASSUME pages' = pages, atlas' = atlas PROVE ~Current(held[u])'
  BY <1>5 DEF Current
<1>6. ASSUME NEW t \in Holders, NEW working \in SUBSET Glyphs \ {{}}, Prepare(t, working)
      PROVE  ~Current(held[u])'
  <2>1. AtlasInv' /\ Later(pages, entries, pages', entries') /\ atlas' = atlas
    BY <1>6, PrepareKeeps DEF Prepare
  <2> QED
    BY <1>4, <2>1 DEF AtlasInv, AtlasTypes
<1>7. CASE UNCHANGED atlasVars
  BY <1>5, <1>7 DEF atlasVars
<1>8. ASSUME NEW t \in Holders, PrepareFails(t) PROVE ~Current(held[u])'
  BY <1>5, <1>8 DEF PrepareFails, cache
<1>9. CASE Clear
  BY <1>3, <1>9 DEF Clear
<1> QED
  BY <1>6, <1>7, <1>8, <1>9 DEF AtlasNext

(* The tables are sound, nothing was used after the last preparation, and  *)
(* every submission held of this atlas names generations that were, with   *)
(* its glyphs still there where the generation still is.                   *)
THEOREM AtlasInvariant == ASSUME AtlasAssumption PROVE AtlasSpec => []AtlasInv
<1>1. AtlasInit => AtlasInv
  BY AtlasInitially
<1>2. AtlasInv /\ [AtlasNext]_atlasVars => AtlasInv'
  BY AtlasStepKeeps
<1> QED
  BY <1>1, <1>2, PTL DEF AtlasSpec

(* Whatever is placed, used, given up, reset or cleared, every entry is of *)
(* the generation and the format of its page, the counts a page keeps by   *)
(* hand are those of its entries, no two glyphs overlap, and a submission  *)
(* that passes for current names places where its glyphs still are.        *)
THEOREM AtlasIsExact ==
    ASSUME AtlasAssumption
    PROVE  AtlasSpec => [](AtlasTypeOK /\ TableExact /\ PlacesDisjoint /\ CurrentIsThere)
<1>1. AtlasInv => AtlasTypeOK /\ TableExact /\ PlacesDisjoint /\ CurrentIsThere
  BY InvIsExact
<1> QED
  BY <1>1, AtlasInvariant, PTL

(* A submission found out of date stays so: a page's generation only grows *)
(* within an atlas, and a cleared atlas is another one.                    *)
THEOREM StaleNeverRevives == ASSUME AtlasAssumption PROVE AtlasSpec => StaleStaysStale
<1>1. AtlasInv /\ [AtlasNext]_atlasVars
      => [\A t \in Holders : held[t].atlas # 0 /\ held'[t] = held[t] /\ ~Current(held[t])
                             => ~Current(held[t])']_atlasVars
  BY StepKeepsStale
<1> QED
  BY <1>1, AtlasInvariant, PTL DEF AtlasSpec, StaleStaysStale
--------------------------------------------------------------------------------
(* Places of a sequence.                                                    *)
LEMMA PlacesFinite ==
    ASSUME NEW m \in Nat, NEW S \in SUBSET (1..m)
    PROVE  IsFiniteSet(1..m) /\ Cardinality(1..m) = m /\ IsFiniteSet(S) /\ Cardinality(S) \in 0..m
<1>1. IsFiniteSet(1..m) /\ Cardinality(1..m) = IF 1 > m THEN 0 ELSE m - 1 + 1
  BY FS_Interval
<1>2. Cardinality(1..m) = m
  BY <1>1
<1>3. IsFiniteSet(S) /\ Cardinality(S) <= Cardinality(1..m) /\ Cardinality(S) \in Nat
  BY <1>1, PartIs
<1> QED
  BY <1>1, <1>2, <1>3

(* A set as a sequence has every element once.                             *)
LEMMA SetInSequence ==
    ASSUME NEW S, IsFiniteSet(S)
    PROVE  LET s == SetToSeq(S) IN
           /\ s \in Seq(S) /\ Len(s) = Cardinality(S) /\ Cardinality(S) \in Nat
           /\ \A i, j \in 1..Len(s) : s[i] = s[j] => i = j
           /\ \A x \in S : \E j \in 1..Len(s) : s[j] = x
<1> DEFINE n == Cardinality(S)
           s == SetToSeq(S)
<1>1. n \in Nat /\ ExistsBijection(1..n, S)
  BY FS_CardinalityType
<1>2. PICK f \in [1..n -> S] : IsInjective(f)
  BY <1>1 DEF ExistsBijection, Bijection, Injection, IsInjective
<1>3. s \in [1..n -> S] /\ IsInjective(s)
  BY <1>2, Zenon DEF SetToSeq
<1> HIDE DEF s
<1>4. s \in Seq(S) /\ Len(s) = n
  BY <1>1, <1>3
<1>5. IsFiniteSet(1..n) /\ Cardinality(1..n) = n
  BY <1>1, PlacesFinite
<1>6. s \in Injection(1..n, S)
  BY <1>3 DEF Injection, IsInjective
<1>7. s \in Surjection(1..n, S)
  BY <1>5, <1>6, FS_Injection
<1> QED
  BY <1>1, <1>3, <1>4, <1>7 DEF Surjection, IsInjective, s

(* A set of numbers without a gap from 1 on.                               *)
LEMMA PrefixIs ==
    ASSUME NEW m \in Nat, NEW S \in SUBSET (1..m), \A i \in S : \A j \in 1..(i - 1) : j \in S
    PROVE  Cardinality(S) \in 0..m /\ S = 1..Cardinality(S)
<1>1. IsFiniteSet(1..m) /\ IsFiniteSet(S) /\ Cardinality(S) \in 0..m
  BY PlacesFinite
<1>2. CASE S = {}
  <2>1. Cardinality(S) = 0
    BY <1>2, FS_EmptySet
  <2> QED
    BY <1>1, <1>2, <2>1
<1>3. CASE S # {}
  <2>1. S \in SUBSET Nat
    OBVIOUS
  <2>2. PICK x \in S : \A y \in S : x >= y
    <3> DEFINE T == {m - y : y \in S}
    <3>1. T \in SUBSET Nat /\ T # {}
      <4>1. \A y \in S : m - y \in Nat
        OBVIOUS
      <4> QED
        BY <1>3, <4>1
    <3>2. Lowest(T) \in T /\ \A j \in T : Lowest(T) <= j
      BY <3>1, LowestIs
    <3>3. PICK x \in S : Lowest(T) = m - x
      BY <3>2
    <3>4. \A y \in S : m - x <= m - y
      BY <3>2, <3>3
    <3> QED
      BY <2>1, <3>4
  <2>3. x \in Nat /\ x >= 1 /\ \A y \in S : y \in 1..x
    BY <2>1, <2>2
  <2>4. \A y \in 1..x : y \in S
    <3>1. \A j \in 1..(x - 1) : j \in S
      BY <2>2
    <3> QED
      BY <2>2, <2>3, <3>1
  <2>5. S = 1..x
    BY <2>3, <2>4
  <2>6. Cardinality(1..x) = x
    BY <2>3, PlacesFinite
  <2> QED
    BY <1>1, <2>5, <2>6
<1> QED
  BY <1>2, <1>3

(* What is left of a set of places when the first k go.                    *)
LEMMA ShiftedPlaces ==
    ASSUME NEW m \in Nat, NEW k \in 0..m, NEW A \in SUBSET (1..m)
    PROVE  LET left == {j \in 1..(m - k) : k + j \in A}
               gone == {j \in 1..k : j \in A}
           IN /\ IsFiniteSet(A) /\ Cardinality(A) \in Nat /\ Cardinality(gone) \in Nat
              /\ Cardinality(left) = Cardinality(A) - Cardinality(gone)
<1> DEFINE left == {j \in 1..(m - k) : k + j \in A}
           gone == {j \in 1..k : j \in A}
           f == [j \in left |-> k + j]
<1>1. IsFiniteSet(A) /\ Cardinality(A) \in Nat /\ IsFiniteSet(gone) /\ Cardinality(gone) \in Nat
  <2>1. IsFiniteSet(A) /\ Cardinality(A) \in Nat
    BY PlacesFinite
  <2>2. gone \in SUBSET A
    OBVIOUS
  <2> HIDE DEF gone
  <2> QED
    BY <2>1, <2>2, PartIs
<1>2. A \cap gone = gone /\ IsFiniteSet(A \ gone) /\ Cardinality(A \ gone) = Cardinality(A) - Cardinality(gone)
  <2>1. A \cap gone = gone
    OBVIOUS
  <2> QED
    BY <1>1, <2>1, FS_Difference
<1>3. f \in Bijection(left, A \ gone)
  <2>1. \A j \in left : k + j \in A \ gone
    OBVIOUS
  <2>2. \A x \in A \ gone : x - k \in left /\ k + (x - k) = x
    OBVIOUS
  <2>3. \A i, j \in left : k + i = k + j => i = j
    OBVIOUS
  <2> HIDE DEF left, gone
  <2> QED
    BY <2>1, <2>2, <2>3 DEF Bijection, Injection, Surjection, IsInjective
<1>4. ExistsBijection(A \ gone, left)
  <2> HIDE DEF left, gone, f
  <2>1. IsFiniteSet(left)
    BY <1>2, <1>3, FS_Injection DEF Bijection
  <2> QED
    BY <1>2, <1>3, <2>1, FS_Bijection, FS_SameCardinalityBij DEF ExistsBijection
<1>5. Cardinality(left) = Cardinality(A \ gone)
  <2> HIDE DEF left, gone, f
  <2> QED
    BY <1>2, <1>4, FS_Bijection
<1> QED
  BY <1>1, <1>2, <1>5

(* ... and when one place after them comes.                                *)
LEMMA PlaceAdded ==
    ASSUME NEW m \in Nat, NEW A \in SUBSET (1..m), NEW x \in Nat, x > m
    PROVE  /\ Cardinality(A \cup {x}) = Cardinality(A) + 1 /\ Cardinality(A) \in Nat
           /\ Cardinality(A \cup {}) = Cardinality(A)
<1>1. IsFiniteSet(A) /\ Cardinality(A) \in Nat /\ x \notin A
  BY PlacesFinite
<1>2. A \cup {} = A
  OBVIOUS
<1>3. Cardinality(A \cup {x}) = Cardinality(A) + 1
  BY <1>1, FS_AddElement
<1> QED
  BY <1>1, <1>2, <1>3
--------------------------------------------------------------------------------
(* The pins of frames.                                                     *)
HasCounts(frs) == Len(frs) \in Nat /\ \A i \in 1..Len(frs) : frs[i].count \in Nat

LEMMA PinsOfIs ==
    ASSUME NEW frs, HasCounts(frs)
    PROVE  /\ PinsOf(frs, 0) = 0
           /\ \A n \in 0..Len(frs) : PinsOf(frs, n) \in Nat
           /\ \A n \in 1..Len(frs) : PinsOf(frs, n) = PinsOf(frs, n - 1) + frs[n].count
<1> DEFINE v == [i \in 1..Len(frs) |-> frs[i].count]
           S(n) == 1..n
<1>1. ASSUME NEW n \in 0..Len(frs)
      PROVE  PinsOf(frs, n) = SumOf(v, S(n)) /\ IsFiniteSet(S(n)) /\ Counts(v, S(n))
  <2> DEFINE it == CHOOSE it : it = [s \in SUBSET S(n) |->
                       IF s = {} THEN 0 ELSE frs[Pick(s)].count + it[s \ {Pick(s)}]]
             f == Summed(v, S(n))
  <2>1. PinsOf(frs, n) = it[S(n)]
    BY Zenon DEF PinsOf, MapThenSumSet, MapThenFoldSet, Pick
  <2>2. IsFiniteSet(S(n)) /\ Counts(v, S(n))
    <3>1. n \in Nat
      BY DEF HasCounts
    <3>2. IsFiniteSet(1..n)
      BY <3>1, PlacesFinite
    <3>3. \A x \in 1..n : v[x] \in Nat
      BY DEF HasCounts
    <3> QED
      BY <3>2, <3>3 DEF Counts
  <2>3. Sums(f, v, S(n))
    BY <2>2, SummedIs
  <2>4. ASSUME NEW s \in SUBSET S(n), s # {} PROVE v[Pick(s)] = frs[Pick(s)].count
    <3>1. Pick(s) \in s
      BY <2>4, PickIs
    <3>2. Pick(s) \in 1..n /\ n \in 0..Len(frs) /\ Len(frs) \in Nat
      BY <3>1 DEF HasCounts
    <3>3. Pick(s) \in 1..Len(frs)
      BY <3>2
    <3> QED
      BY <3>3
  <2> HIDE DEF f, v, S
  <2>5. f = [s \in SUBSET S(n) |-> IF s = {} THEN 0 ELSE frs[Pick(s)].count + f[s \ {Pick(s)}]]
    BY <2>3, <2>4 DEF Sums
  <2>6. it = [s \in SUBSET S(n) |-> IF s = {} THEN 0 ELSE frs[Pick(s)].count + it[s \ {Pick(s)}]]
    BY <2>5, Zenon
  <2> HIDE DEF it
  <2>7. Adds(it, v, S(n))
    BY <2>4, <2>6 DEF Adds
  <2>8. it[S(n)] = SumOf(v, S(n))
    BY <2>2, <2>7, SumIs
  <2> QED
    BY <2>1, <2>2, <2>8
<1>2. PinsOf(frs, 0) = 0
  <2>1. S(0) = {} /\ 0 \in 0..Len(frs)
    BY DEF HasCounts
  <2> HIDE DEF S, v
  <2> QED
    BY <1>1, <2>1, SumEmpty
<1>3. ASSUME NEW n \in 1..Len(frs) PROVE PinsOf(frs, n) = PinsOf(frs, n - 1) + frs[n].count
  <2>1. n \in S(n) /\ S(n) \ {n} = S(n - 1) /\ n \in 0..Len(frs) /\ n - 1 \in 0..Len(frs)
        /\ v[n] = frs[n].count /\ frs[n].count \in Nat
    BY DEF HasCounts
  <2> HIDE DEF S, v
  <2>2. IsFiniteSet(S(n)) /\ Counts(v, S(n)) /\ IsFiniteSet(S(n - 1)) /\ Counts(v, S(n - 1))
    BY <1>1, <2>1
  <2>3. SumOf(v, S(n)) = v[n] + SumOf(v, S(n) \ {n})
    BY <2>1, <2>2, SumRemove
  <2> QED
    <3>1. PinsOf(frs, n) = SumOf(v, S(n)) /\ PinsOf(frs, n - 1) = SumOf(v, S(n - 1))
      BY <1>1, <2>1
    <3>2. SumOf(v, S(n - 1)) \in Nat
      BY <2>2, SumType
    <3>3. SumOf(v, S(n)) = frs[n].count + SumOf(v, S(n - 1))
      BY <2>1, <2>3
    <3>4. PinsOf(frs, n) = frs[n].count + PinsOf(frs, n - 1) /\ PinsOf(frs, n - 1) \in Nat
      BY <3>1, <3>2, <3>3
    <3> QED
      BY <2>1, <3>4
<1>4. \A n \in 0..Len(frs) : PinsOf(frs, n) \in Nat
  <2> HIDE DEF S, v
  <2> QED
    BY <1>1, SumType
<1> QED
  BY <1>2, <1>3, <1>4

LEMMA PinsOfGrows ==
    ASSUME NEW frs, HasCounts(frs), NEW m \in 0..Len(frs), NEW n \in m..Len(frs)
    PROVE  PinsOf(frs, m) <= PinsOf(frs, n)
<1> DEFINE T == {k \in Nat : m + k <= Len(frs) => PinsOf(frs, m) <= PinsOf(frs, m + k)}
<1>0. Len(frs) \in Nat
  BY DEF HasCounts
<1>1. 0 \in T
  BY <1>0, PinsOfIs
<1>2. ASSUME NEW k \in T PROVE k + 1 \in T
  <2> SUFFICES ASSUME m + (k + 1) <= Len(frs) PROVE PinsOf(frs, m) <= PinsOf(frs, m + (k + 1))
    OBVIOUS
  <2> DEFINE j == m + k
  <2>1. /\ j \in 0..Len(frs) /\ j + 1 \in 1..Len(frs) /\ m + (k + 1) = j + 1 /\ (j + 1) - 1 = j
        /\ m + k <= Len(frs)
    BY <1>0
  <2>2. PinsOf(frs, m) <= PinsOf(frs, j)
    BY <2>1
  <2> HIDE DEF j, T
  <2>3. PinsOf(frs, j + 1) = PinsOf(frs, j) + frs[j + 1].count /\ frs[j + 1].count \in Nat
    BY <2>1, PinsOfIs DEF HasCounts
  <2>4. PinsOf(frs, j) \in Nat /\ PinsOf(frs, m) \in Nat
    BY <2>1, PinsOfIs
  <2> QED
    BY <2>1, <2>2, <2>3, <2>4
<1>3. T = Nat
  <2> HIDE DEF T
  <2>1. T \in SUBSET Nat
    BY DEF T
  <2> QED
    BY <1>1, <1>2, <2>1, Induction
<1>4. n - m \in Nat /\ m + (n - m) = n /\ n <= Len(frs)
  BY <1>0
<1> QED
  BY <1>3, <1>4

(* When the first n frames go, their pins go.                              *)
LEMMA PinsOfShifted ==
    ASSUME NEW frs, HasCounts(frs), NEW n \in 0..Len(frs), NEW rest, HasCounts(rest),
           Len(rest) = Len(frs) - n,
           \A i \in 1..Len(rest) : rest[i].count = frs[n + i].count,
           NEW m \in 0..Len(rest)
    PROVE  PinsOf(rest, m) = PinsOf(frs, n + m) - PinsOf(frs, n)
<1> DEFINE T == {k \in Nat : k <= Len(rest) => PinsOf(rest, k) = PinsOf(frs, n + k) - PinsOf(frs, n)}
<1>0. Len(frs) \in Nat /\ Len(rest) \in Nat
  BY DEF HasCounts
<1>1. 0 \in T
  <2>1. PinsOf(rest, 0) = 0 /\ PinsOf(frs, n) \in Nat /\ n + 0 = n
    BY <1>0, PinsOfIs
  <2> QED
    BY <2>1
<1>2. ASSUME NEW k \in T PROVE k + 1 \in T
  <2> SUFFICES ASSUME k + 1 <= Len(rest)
               PROVE  PinsOf(rest, k + 1) = PinsOf(frs, n + (k + 1)) - PinsOf(frs, n)
    OBVIOUS
  <2> DEFINE j == n + k
  <2>1. /\ j \in 0..Len(frs) /\ j + 1 \in 1..Len(frs) /\ n + (k + 1) = j + 1 /\ (j + 1) - 1 = j
        /\ k <= Len(rest) /\ k + 1 \in 1..Len(rest) /\ (k + 1) - 1 = k /\ k \in 0..Len(rest)
    BY <1>0
  <2>2. PinsOf(rest, k) = PinsOf(frs, j) - PinsOf(frs, n)
    BY <2>1
  <2>3. rest[k + 1].count = frs[j + 1].count
    BY <2>1
  <2> HIDE DEF j, T
  <2>4. PinsOf(frs, j + 1) = PinsOf(frs, j) + frs[j + 1].count /\ frs[j + 1].count \in Nat
    BY <2>1, PinsOfIs DEF HasCounts
  <2>5. PinsOf(rest, k + 1) = PinsOf(rest, k) + rest[k + 1].count
    BY <2>1, PinsOfIs
  <2>6. PinsOf(frs, j) \in Nat /\ PinsOf(frs, n) \in Nat
    BY <2>1, PinsOfIs
  <2> QED
    BY <2>1, <2>2, <2>3, <2>4, <2>5, <2>6
<1>3. T = Nat
  <2> HIDE DEF T
  <2>1. T \in SUBSET Nat
    BY DEF T
  <2> QED
    BY <1>1, <1>2, <2>1, Induction
<1>4. m \in T /\ m <= Len(rest)
  BY <1>0, <1>3
<1> QED
  BY <1>4

(* Pins depend on the counts alone.                                        *)
LEMMA PinsOfSame ==
    ASSUME NEW frs, HasCounts(frs), NEW more, HasCounts(more), NEW n \in 0..Len(frs),
           n <= Len(more), \A i \in 1..n : more[i].count = frs[i].count
    PROVE  PinsOf(more, n) = PinsOf(frs, n)
<1> DEFINE T == {k \in Nat : k <= n => PinsOf(more, k) = PinsOf(frs, k)}
<1>0. Len(frs) \in Nat /\ Len(more) \in Nat
  BY DEF HasCounts
<1>1. 0 \in T
  BY PinsOfIs
<1>2. ASSUME NEW k \in T PROVE k + 1 \in T
  <2> SUFFICES ASSUME k + 1 <= n PROVE PinsOf(more, k + 1) = PinsOf(frs, k + 1)
    OBVIOUS
  <2>1. /\ k + 1 \in 1..Len(frs) /\ k + 1 \in 1..Len(more) /\ (k + 1) - 1 = k /\ k <= n
        /\ k + 1 \in 1..n
    BY <1>0
  <2>2. PinsOf(more, k) = PinsOf(frs, k)
    BY <2>1
  <2> HIDE DEF T
  <2> QED
    BY <2>1, <2>2, PinsOfIs
<1>3. T = Nat
  <2> HIDE DEF T
  <2>1. T \in SUBSET Nat
    BY DEF T
  <2> QED
    BY <1>1, <1>2, <2>1, Induction
<1>4. n \in T
  BY <1>0, <1>3
<1> QED
  BY <1>4
--------------------------------------------------------------------------------
(* Folds over a sequence take its places in order.                         *)
LEMMA PrefixMax ==
    ASSUME NEW k \in Nat
    PROVE  Max(1..(k + 1)) = k + 1 /\ (1..(k + 1)) \ {k + 1} = 1..k
<1> DEFINE S == 1..(k + 1)
<1>1. \E x \in S : \A y \in S : x >= y
  <2>1. k + 1 \in S /\ \A y \in S : k + 1 >= y
    OBVIOUS
  <2> QED
    BY <2>1
<1>2. Max(S) \in S /\ \A y \in S : Max(S) >= y
  <2> HIDE DEF S
  <2> QED
    BY <1>1, Zenon DEF Max
<1>3. k + 1 \in S
  OBVIOUS
<1>4. Max(S) >= k + 1 /\ Max(S) <= k + 1 /\ Max(S) \in Nat
  BY <1>2, <1>3
<1> QED
  BY <1>4

InOrder(n) == [s \in SUBSET (1..n) |-> Max(s)]
LEMMA TakenInOrder ==
    ASSUME NEW n \in Nat
    PROVE  /\ Chooses(InOrder(n), 1..n)
           /\ \A s \in SUBSET (1..n) : s # {} => Max(s) \in s
<1>1. ASSUME NEW s \in SUBSET (1..n), s # {} PROVE Max(s) \in s
  <2>1. IsFiniteSet(s) /\ s \in SUBSET Nat
    BY PlacesFinite
  <2> QED
    BY <1>1, <2>1, GreatestIs
<1> QED
  BY <1>1 DEF Chooses, InOrder

(* The batches of a submission.                                            *)
BatchRecord == [page : PageSet, gen : Nat, glyphs : SUBSET Glyphs]
Batched(s, done, g) ==
    LET p == s.places[g]
        same == done # <<>> /\ Last(done).page = p.page
    IN IF same THEN [done EXCEPT ![Len(done)].glyphs = @ \cup {g}]
       ELSE Append(done, [page |-> p.page, gen |-> p.gen, glyphs |-> {g}])
OneGeneration(s) == \A g, k \in DOMAIN s.places :
    s.places[g].page = s.places[k].page => s.places[g].gen = s.places[k].gen
(* A batch is of glyphs of the submission, on its page.                    *)
OfPage(s, b) ==
    /\ \E g \in b.glyphs : TRUE
    /\ \A g \in b.glyphs : /\ g \in DOMAIN s.places
                           /\ s.places[g].page = b.page /\ s.places[g].gen = b.gen

LEMMA BatchedIs ==
    ASSUME NEW s \in Submission, OneGeneration(s), NEW done \in Seq(BatchRecord),
           \A i \in 1..Len(done) : OfPage(s, done[i]), NEW g \in DOMAIN s.places
    PROVE  LET c == Batched(s, done, g) IN
           /\ c \in Seq(BatchRecord) /\ \A i \in 1..Len(c) : OfPage(s, c[i])
           /\ \E i \in 1..Len(c) : g \in c[i].glyphs
           /\ Len(done) <= Len(c)
           /\ \A i \in 1..Len(done) : done[i].glyphs \subseteq c[i].glyphs
<1> DEFINE c == Batched(s, done, g)
           p == s.places[g]
           n == Len(done)
<1>1. p.page \in PageSet /\ p.gen \in Nat /\ g \in Glyphs
  BY DEF Submission, PlaceTables
<1>2. n \in Nat /\ \A i \in 1..n : done[i] \in BatchRecord
  OBVIOUS
<1> HIDE DEF p
<1>3. CASE done # <<>> /\ Last(done).page = p.page
  <2>1. n >= 1 /\ done[n].page = p.page
    BY <1>2, <1>3 DEF Last
  <2> DEFINE b == [done[n] EXCEPT !.glyphs = @ \cup {g}]
  <2>2. c = [done EXCEPT ![n] = b]
    BY <1>3 DEF Batched, p
  <2>3. b \in BatchRecord /\ b.page = done[n].page /\ b.gen = done[n].gen
        /\ b.glyphs = done[n].glyphs \cup {g}
    BY <1>1, <1>2, <2>1 DEF BatchRecord
  <2>4. OfPage(s, done[n])
    BY <1>2, <2>1
  <2> HIDE DEF b, c
  <2>5. PICK k \in done[n].glyphs : TRUE
    BY <2>4 DEF OfPage
  <2>6. s.places[k].page = p.page /\ s.places[k].gen = done[n].gen /\ k \in DOMAIN s.places
    BY <2>1, <2>4, <2>5 DEF OfPage
  <2>7. p.gen = done[n].gen
    BY <2>6 DEF OneGeneration, p
  <2>8. OfPage(s, b)
    BY <2>1, <2>3, <2>4, <2>7 DEF OfPage, p
  <2>9. Len(c) = n /\ c \in Seq(BatchRecord) /\ c[n] = b /\ \A i \in 1..n : i # n => c[i] = done[i]
    BY <1>2, <2>1, <2>2, <2>3
  <2>10. \A i \in 1..n : OfPage(s, c[i])
    BY <1>2, <2>8, <2>9
  <2>11. \A i \in 1..n : done[i].glyphs \subseteq c[i].glyphs
    BY <2>3, <2>9
  <2>12. n \in 1..n /\ g \in c[n].glyphs
    BY <1>2, <2>1, <2>3, <2>9
  <2> QED
    BY <1>2, <2>9, <2>10, <2>11, <2>12 DEF c
<1>4. CASE ~(done # <<>> /\ Last(done).page = p.page)
  <2> DEFINE b == [page |-> p.page, gen |-> p.gen, glyphs |-> {g}]
  <2>1. c = Append(done, b)
    BY <1>4, Zenon DEF Batched, p
  <2>2. b \in BatchRecord
    BY <1>1 DEF BatchRecord
  <2>3. OfPage(s, b)
    BY DEF OfPage, p
  <2>4. g \in b.glyphs
    OBVIOUS
  <2> HIDE DEF b, c
  <2>5. c \in Seq(BatchRecord) /\ Len(c) = n + 1 /\ c[n + 1] = b /\ \A i \in 1..n : c[i] = done[i]
    BY <1>2, <2>1, <2>2
  <2>6. \A i \in 1..(n + 1) : OfPage(s, c[i])
    <3>1. \A i \in 1..(n + 1) : i \in 1..n \/ i = n + 1
      BY <1>2
    <3> QED
      BY <2>3, <2>5, <3>1
  <2>7. n + 1 \in 1..(n + 1) /\ n <= n + 1
    BY <1>2
  <2> QED
    BY <2>4, <2>5, <2>6, <2>7 DEF c
<1> QED
  BY <1>3, <1>4

(* They hold all the glyphs to upload.                                     *)
LEMMA BatchesAre ==
    ASSUME NEW s \in Submission, OneGeneration(s),
           \A i \in DOMAIN s.uploads : s.uploads[i] \in DOMAIN s.places
    PROVE  LET bs == BatchesOf(s) IN
           /\ bs \in Seq(BatchRecord) /\ \A i \in 1..Len(bs) : OfPage(s, bs[i])
           /\ \A j \in DOMAIN s.uploads : \E i \in 1..Len(bs) : s.uploads[j] \in bs[i].glyphs
<1> DEFINE n == Len(s.uploads)
           V == {d \in Seq(BatchRecord) : \A i \in 1..Len(d) : OfPage(s, d[i])}
           F == [x \in (1..n) \X V |-> Batched(s, x[2], s.uploads[x[1]])]
           after(h, r) == IF r = {} THEN <<>> ELSE Batched(s, h[r \ {Max(r)}], s.uploads[Max(r)])
           it == CHOOSE iter : iter = [r \in SUBSET (DOMAIN s.uploads) |-> after(iter, r)]
<1>1. n \in Nat /\ DOMAIN s.uploads = 1..n
  BY DEF Submission
<1>2. <<>> \in V
  OBVIOUS
<1>3. F \in [(1..n) \X V -> V]
  <2> SUFFICES ASSUME NEW i \in 1..n, NEW d \in V PROVE Batched(s, d, s.uploads[i]) \in V
    OBVIOUS
  <2> HIDE DEF n
  <2> QED
    BY <1>1, BatchedIs
<1>4. BatchesOf(s) = it[DOMAIN s.uploads]
  BY Zenon DEF BatchesOf, FoldLeft, MapThenFoldSet, Batched
<1>5. it = [r \in SUBSET (1..n) |-> after(it, r)]
  <2> HIDE DEF V, F
  <2>1. PICK h \in [SUBSET (1..n) -> V] : ComputesAlong(h, F, <<>>, 1..n, InOrder(n))
    <3>1. IsFiniteSet(1..n)
      BY <1>1, PlacesFinite
    <3> HIDE DEF n
    <3> QED
      BY <1>1, <1>2, <1>3, <3>1, TakenInOrder, FoldAlong
  <2>2. ASSUME NEW r \in SUBSET (1..n) PROVE h[r] = after(h, r)
    <3>1. CASE r = {}
      BY <2>1, <3>1 DEF ComputesAlong
    <3>2. CASE r # {}
      <4>1. Max(r) \in 1..n /\ h[r \ {Max(r)}] \in V /\ InOrder(n)[r] = Max(r)
        BY <1>1, <3>2, TakenInOrder DEF InOrder
      <4>2. h[r] = F[<<Max(r), h[r \ {Max(r)}]>>]
        BY <2>1, <3>2, <4>1 DEF ComputesAlong
      <4> QED
        BY <3>2, <4>1, <4>2 DEF F
    <3> QED
      BY <3>1, <3>2
  <2>3. h = [r \in SUBSET (1..n) |-> after(h, r)]
    <3> HIDE DEF after
    <3> QED
      BY <2>2
  <2>4. \E iter : iter = [r \in SUBSET (DOMAIN s.uploads) |-> after(iter, r)]
    <3> HIDE DEF after, n
    <3> QED
      BY <1>1, <2>3
  <2>5. it = [r \in SUBSET (DOMAIN s.uploads) |-> after(it, r)]
    BY <2>4, Zenon
  <2> HIDE DEF it, after, n
  <2> QED
    BY <1>1, <2>5
<1> DEFINE Done(k) == /\ it[1..k] \in V
                      /\ \A j \in 1..k : \E i \in 1..Len(it[1..k]) : s.uploads[j] \in it[1..k][i].glyphs
           T == {k \in Nat : k <= n => Done(k)}
<1> HIDE DEF it, F
<1>6. 0 \in T
  <2>1. 1..0 = {} /\ 1..0 \in SUBSET (1..n)
    OBVIOUS
  <2>2. it[1..0] = <<>>
    BY <1>5, <2>1
  <2> QED
    BY <1>2, <2>1, <2>2
<1>7. ASSUME NEW k \in T PROVE k + 1 \in T
  <2>1. k \in Nat
    OBVIOUS
  <2> SUFFICES ASSUME k + 1 <= n PROVE Done(k + 1)
    BY <2>1
  <2> DEFINE b == it[1..k]
             g == s.uploads[k + 1]
             c == it[1..(k + 1)]
  <2>2. Done(k) /\ k + 1 \in 1..n
    BY <1>1, <2>1
  <2>3. c = Batched(s, b, g)
    <3> DEFINE r == 1..(k + 1)
    <3>1. r \in SUBSET (1..n) /\ r # {}
      BY <1>1, <2>1
    <3>2. Max(r) = k + 1 /\ r \ {Max(r)} = 1..k
      BY <2>1, PrefixMax
    <3> HIDE DEF r
    <3>3. it[r] = Batched(s, it[r \ {Max(r)}], s.uploads[Max(r)])
      BY <1>5, <3>1
    <3> QED
      BY <3>2, <3>3 DEF r
  <2>4. b \in V /\ g \in DOMAIN s.places
    BY <1>1, <2>2
  <2>5. \A j \in 1..k : \E i \in 1..Len(b) : s.uploads[j] \in b[i].glyphs
    BY <2>2
  <2> HIDE DEF b, g, T, Done
  <2>6. /\ c \in V /\ \E i \in 1..Len(c) : g \in c[i].glyphs
        /\ Len(b) <= Len(c) /\ Len(b) \in Nat /\ Len(c) \in Nat
        /\ \A i \in 1..Len(b) : b[i].glyphs \subseteq c[i].glyphs
    BY <2>3, <2>4, BatchedIs
  <2> HIDE DEF c, V
  <2>7. \A j \in 1..(k + 1) : \E i \in 1..Len(c) : s.uploads[j] \in c[i].glyphs
    <3> TAKE j \in 1..(k + 1)
    <3>1. CASE j = k + 1
      BY <2>6, <3>1 DEF g
    <3>2. CASE j # k + 1
      <4>1. j \in 1..k
        BY <2>1, <3>2
      <4>2. PICK i \in 1..Len(b) : s.uploads[j] \in b[i].glyphs
        BY <2>5, <4>1
      <4>3. i \in 1..Len(c)
        BY <2>6, <4>2
      <4> QED
        BY <2>6, <4>2, <4>3
    <3> QED
      BY <3>1, <3>2
  <2> QED
    BY <2>6, <2>7 DEF Done, c
<1>8. T = Nat
  <2> HIDE DEF T
  <2>1. T \in SUBSET Nat
    BY DEF T
  <2> QED
    BY <1>6, <1>7, <2>1, Induction
<1>9. Done(n)
  <2> HIDE DEF n, Done
  <2>1. n <= n => Done(n)
    BY <1>1, <1>8
  <2> QED
    BY <1>1, <2>1
<1> HIDE DEF n
<1> QED
  BY <1>1, <1>4, <1>9
--------------------------------------------------------------------------------
(* The scheduler's table of pages: a page is in it once, and the count of  *)
(* pins it keeps is right.                                                 *)
TableRecord == [page : PageSet, gen : Nat, ready : Nat, pins : Nat]
ReceiptRecord == [page : PageSet, gen : Nat, fence : Nat]
Tables == [ok : BOOLEAN, pages : Seq(TableRecord)]
OnePage(pgs) == \A i, j \in 1..Len(pgs) : pgs[i].page = pgs[j].page => i = j
Fit(pgs, pins) ==
    /\ \A i \in 1..Len(pgs) : pgs[i].pins = Cardinality({j \in 1..Len(pins) : pins[j] = i})
    /\ \A j \in 1..Len(pins) : pins[j] \in 1..Len(pgs)
TableHolds(pgs, pins) == OnePage(pgs) /\ Fit(pgs, pins) /\ Len(pgs) <= MaxResident

LEMMA MaxOfTwo ==
    ASSUME NEW a \in Nat, NEW b \in Nat
    PROVE  Max({a, b}) \in Nat
<1>1. {a, b} \in SUBSET Nat /\ {a, b} # {}
  OBVIOUS
<1>2. IsFiniteSet({a, b})
  <2>1. IsFiniteSet({a}) /\ IsFiniteSet({a} \cup {b}) /\ {a} \cup {b} = {a, b}
    BY FS_Singleton, FS_AddElement
  <2> QED
    BY <2>1
<1>3. Max({a, b}) \in {a, b}
  BY <1>1, <1>2, GreatestIs
<1> QED
  BY <1>3

LEMMA SynchronizeIs ==
    ASSUME MaxResident \in Nat, NEW pins \in Seq(Nat), NEW done \in Tables, NEW u \in ReceiptRecord,
           done.ok => TableHolds(done.pages, pins)
    PROVE  LET c == Synchronize(done, u) IN
           c \in Tables /\ (c.ok => done.ok /\ TableHolds(c.pages, pins))
<1> DEFINE c == Synchronize(done, u)
           pgs == done.pages
           n == Len(pgs)
           at == ResidentAt(pgs, u.page)
           page == [page |-> u.page, gen |-> u.gen, ready |-> u.fence, pins |-> 0]
<1>1. /\ n \in Nat /\ pgs \in Seq(TableRecord) /\ \A i \in 1..n : pgs[i] \in TableRecord
      /\ done.ok \in BOOLEAN
  BY DEF Tables
<1>2. page \in TableRecord /\ page.page = u.page /\ page.pins = 0
  BY DEF TableRecord, ReceiptRecord
<1>3. at = {i \in 1..n : pgs[i].page = u.page}
  BY <1>1 DEF ResidentAt, Where
<1>4. CASE ~done.ok
  <2>1. c = done
    BY <1>4 DEF Synchronize
  <2> QED
    BY <1>4, <2>1
<1>5. CASE done.ok /\ at = {}
  <2>1. c = [ok |-> n < MaxResident, pages |-> Append(pgs, page)]
    BY <1>5, Zenon DEF Synchronize
  <2> HIDE DEF page, c, at, pgs
  <2> DEFINE q == Append(pgs, page)
  <2>2. q \in Seq(TableRecord) /\ Len(q) = n + 1 /\ q[n + 1] = page /\ \A i \in 1..n : q[i] = pgs[i]
    BY <1>1, <1>2
  <2> HIDE DEF q
  <2>3. c \in Tables /\ c.pages = q /\ (c.ok <=> n < MaxResident)
    <3>1. c = [ok |-> n < MaxResident, pages |-> q] /\ (n < MaxResident) \in BOOLEAN
      BY <2>1 DEF q
    <3> QED
      BY <2>2, <3>1 DEF Tables
  <2>4. \A i \in 1..(n + 1) : i \in 1..n \/ i = n + 1
    BY <1>1
  <2>5. TableHolds(pgs, pins)
    BY <1>5 DEF pgs
  <2>6. OnePage(q)
    <3>1. \A i \in 1..n : pgs[i].page # u.page
      BY <1>3, <1>5
    <3>2. \A i, j \in 1..n : q[i].page = q[j].page => i = j
      BY <2>2, <2>5 DEF OnePage, TableHolds
    <3>3. q[n + 1].page = u.page /\ \A i \in 1..n : q[i].page # u.page
      BY <1>2, <2>2, <3>1
    <3> QED
      BY <2>2, <2>4, <3>2, <3>3 DEF OnePage
  <2>7. Fit(q, pins)
    <3>1. \A j \in 1..Len(pins) : pins[j] \in 1..n /\ pins[j] # n + 1 /\ pins[j] \in 1..(n + 1)
      BY <1>1, <2>5 DEF Fit, TableHolds
    <3>2. {j \in 1..Len(pins) : pins[j] = n + 1} = {}
      BY <3>1
    <3>3. Cardinality({j \in 1..Len(pins) : pins[j] = n + 1}) = 0
      BY <3>2, FS_EmptySet
    <3>4. \A i \in 1..(n + 1) : q[i].pins = Cardinality({j \in 1..Len(pins) : pins[j] = i})
      <4> TAKE i \in 1..(n + 1)
      <4>1. CASE i \in 1..n
        BY <2>2, <2>5, <4>1 DEF Fit, TableHolds
      <4>2. CASE i = n + 1
        BY <1>2, <2>2, <3>3, <4>2
      <4> QED
        BY <2>4, <4>1, <4>2
    <3> QED
      BY <2>2, <3>1, <3>4 DEF Fit
  <2>8. n < MaxResident => n + 1 <= MaxResident
    BY <1>1
  <2> QED
    BY <1>5, <2>2, <2>3, <2>6, <2>7, <2>8 DEF TableHolds, c
<1>6. CASE done.ok /\ at # {}
  <2> DEFINE i == CHOOSE i \in at : TRUE
             old == pgs[i]
  <2>1. i \in at
    BY <1>6
  <2> HIDE DEF i
  <2>2. i \in 1..n /\ old \in TableRecord /\ old.page = u.page
    BY <1>1, <1>3, <2>1
  <2>3. c = IF old.gen = u.gen
            THEN [done EXCEPT !.pages[i].ready = Max({@, u.fence})]
            ELSE [ok |-> old.pins = 0, pages |-> [pgs EXCEPT ![i] = page]]
    BY <1>6, Zenon DEF Synchronize, i
  <2>4. PICK new \in TableRecord :
            /\ new.page = old.page /\ c.pages = [pgs EXCEPT ![i] = new]
            /\ c \in Tables /\ (c.ok => new.pins = old.pins)
    <3>1. CASE old.gen = u.gen
      <4> DEFINE new == [old EXCEPT !.ready = Max({@, u.fence})]
      <4>1. old.ready \in Nat /\ u.fence \in Nat
        BY <2>2 DEF TableRecord, ReceiptRecord
      <4>2. Max({old.ready, u.fence}) \in Nat
        BY <4>1, MaxOfTwo
      <4>3. new \in TableRecord /\ new.page = old.page /\ new.pins = old.pins
        BY <2>2, <4>2 DEF TableRecord
      <4>4. c = [done EXCEPT !.pages = [pgs EXCEPT ![i] = new]]
        BY <1>1, <2>2, <2>3, <3>1 DEF Tables
      <4> HIDE DEF new, c
      <4>5. [pgs EXCEPT ![i] = new] \in Seq(TableRecord)
        BY <1>1, <2>2, <4>3
      <4>6. c \in Tables /\ c.pages = [pgs EXCEPT ![i] = new]
        BY <4>4, <4>5 DEF Tables
      <4> QED
        BY <4>3, <4>6
    <3>2. CASE old.gen # u.gen
      <4>1. c = [ok |-> old.pins = 0, pages |-> [pgs EXCEPT ![i] = page]]
        BY <2>3, <3>2
      <4> HIDE DEF page, c
      <4>2. [pgs EXCEPT ![i] = page] \in Seq(TableRecord)
        BY <1>1, <1>2, <2>2
      <4>3. c \in Tables /\ c.pages = [pgs EXCEPT ![i] = page] /\ (c.ok <=> old.pins = 0)
        BY <4>1, <4>2 DEF Tables
      <4> QED
        BY <1>2, <2>2, <4>3
    <3> QED
      BY <3>1, <3>2
  <2>5. TableHolds(pgs, pins)
    BY <1>6
  <2> HIDE DEF c, at
  <2>6. /\ c.pages[i] = new /\ Len(c.pages) = n /\ c.pages \in Seq(TableRecord)
        /\ \A j \in 1..n : j # i => c.pages[j] = pgs[j]
    BY <1>1, <2>2, <2>4
  <2>7. \A j \in 1..n : c.pages[j].page = pgs[j].page
    BY <2>4, <2>6
  <2>8. c.ok => \A j \in 1..n : c.pages[j].pins = pgs[j].pins
    BY <2>4, <2>6
  <2> HIDE DEF pgs
  <2>9. OnePage(c.pages)
    BY <2>5, <2>6, <2>7 DEF OnePage, TableHolds
  <2>10. c.ok => Fit(c.pages, pins)
    BY <2>5, <2>6, <2>8 DEF Fit, TableHolds
  <2> QED
    BY <1>6, <2>4, <2>5, <2>6, <2>9, <2>10 DEF TableHolds, c
<1> QED
  BY <1>1, <1>4, <1>5, <1>6

LEMMA EnteringIs ==
    ASSUME MaxResident \in Nat, NEW pins \in Seq(Nat), NEW table \in Tables,
           NEW uploads \in Seq(ReceiptRecord), table.ok => TableHolds(table.pages, pins)
    PROVE  LET c == Entering(table, uploads) IN
           c \in Tables /\ (c.ok => TableHolds(c.pages, pins))
<1> DEFINE n == Len(uploads)
           V == {c \in Tables : c.ok => TableHolds(c.pages, pins)}
           F == [x \in (1..n) \X V |-> Synchronize(x[2], uploads[x[1]])]
           after(h, r) == IF r = {} THEN table ELSE Synchronize(h[r \ {Max(r)}], uploads[Max(r)])
           it == CHOOSE iter : iter = [r \in SUBSET (DOMAIN uploads) |-> after(iter, r)]
<1>1. n \in Nat /\ DOMAIN uploads = 1..n
  OBVIOUS
<1>2. table \in V
  OBVIOUS
<1>3. F \in [(1..n) \X V -> V]
  <2> SUFFICES ASSUME NEW i \in 1..n, NEW d \in V PROVE Synchronize(d, uploads[i]) \in V
    OBVIOUS
  <2>1. uploads[i] \in ReceiptRecord
    BY <1>1
  <2>2. d \in Tables /\ (d.ok => TableHolds(d.pages, pins))
    OBVIOUS
  <2> HIDE DEF n
  <2>3. Synchronize(d, uploads[i]) \in Tables
    BY <2>1, <2>2, SynchronizeIs
  <2>4. Synchronize(d, uploads[i]).ok => TableHolds(Synchronize(d, uploads[i]).pages, pins)
    BY <2>1, <2>2, SynchronizeIs
  <2> QED
    BY <2>3, <2>4
<1>4. Entering(table, uploads) = it[DOMAIN uploads]
  BY Zenon DEF Entering, FoldLeft, MapThenFoldSet
<1>5. it = [r \in SUBSET (1..n) |-> after(it, r)]
  <2> HIDE DEF V, F
  <2>1. PICK h \in [SUBSET (1..n) -> V] : ComputesAlong(h, F, table, 1..n, InOrder(n))
    <3>1. IsFiniteSet(1..n)
      BY <1>1, PlacesFinite
    <3> HIDE DEF n
    <3> QED
      BY <1>1, <1>2, <1>3, <3>1, TakenInOrder, FoldAlong
  <2>2. ASSUME NEW r \in SUBSET (1..n) PROVE h[r] = after(h, r)
    <3>1. CASE r = {}
      BY <2>1, <3>1 DEF ComputesAlong
    <3>2. CASE r # {}
      <4>1. Max(r) \in 1..n /\ h[r \ {Max(r)}] \in V /\ InOrder(n)[r] = Max(r)
        BY <1>1, <3>2, TakenInOrder DEF InOrder
      <4>2. h[r] = F[<<Max(r), h[r \ {Max(r)}]>>]
        BY <2>1, <3>2, <4>1 DEF ComputesAlong
      <4> QED
        BY <3>2, <4>1, <4>2 DEF F
    <3> QED
      BY <3>1, <3>2
  <2>3. h = [r \in SUBSET (1..n) |-> after(h, r)]
    <3> HIDE DEF after
    <3> QED
      BY <2>2
  <2>4. \E iter : iter = [r \in SUBSET (DOMAIN uploads) |-> after(iter, r)]
    <3> HIDE DEF after, n
    <3> QED
      BY <1>1, <2>3
  <2>5. it = [r \in SUBSET (DOMAIN uploads) |-> after(it, r)]
    BY <2>4, Zenon
  <2> HIDE DEF it, after, n
  <2> QED
    BY <1>1, <2>5
<1> DEFINE T == {k \in Nat : k <= n => it[1..k] \in V}
<1> HIDE DEF it
<1>6. 0 \in T
  <2>1. 1..0 = {} /\ 1..0 \in SUBSET (1..n)
    OBVIOUS
  <2>2. it[1..0] = table
    BY <1>5, <2>1
  <2> QED
    BY <1>2, <2>2
<1>7. ASSUME NEW k \in T PROVE k + 1 \in T
  <2>1. k \in Nat
    OBVIOUS
  <2> SUFFICES ASSUME k + 1 <= n PROVE it[1..(k + 1)] \in V
    BY <2>1
  <2> HIDE DEF V
  <2> DEFINE r == 1..(k + 1)
  <2>2. it[1..k] \in V /\ k + 1 \in 1..n /\ r \in SUBSET (1..n) /\ r # {}
    <3>1. k <= n /\ k + 1 \in 1..n /\ \A i \in r : i \in 1..n
      BY <1>1, <2>1
    <3>2. it[1..k] \in V
      BY <3>1
    <3>3. k + 1 \in r
      BY <2>1
    <3> QED
      BY <3>1, <3>2, <3>3
  <2>3. Max(r) = k + 1 /\ r \ {Max(r)} = 1..k
    BY <2>1, PrefixMax
  <2> HIDE DEF r
  <2>4. it[r] = Synchronize(it[r \ {Max(r)}], uploads[Max(r)])
    BY <1>5, <2>2
  <2>5. F[<<k + 1, it[1..k]>>] \in V /\ F[<<k + 1, it[1..k]>>] = Synchronize(it[1..k], uploads[k + 1])
    <3> HIDE DEF n, T
    <3>1. <<k + 1, it[1..k]>> \in (1..n) \X V
      BY <2>2
    <3>2. F[<<k + 1, it[1..k]>>] = Synchronize(it[1..k], uploads[k + 1])
      BY <3>1
    <3> HIDE DEF F
    <3> QED
      BY <1>3, <3>1, <3>2
  <2> HIDE DEF F
  <2> QED
    BY <2>3, <2>4, <2>5 DEF r
<1> HIDE DEF F
<1>8. T = Nat
  <2> HIDE DEF T
  <2>1. T \in SUBSET Nat
    BY DEF T
  <2> QED
    BY <1>6, <1>7, <2>1, Induction
<1>9. it[1..n] \in V
  <2> HIDE DEF n, V
  <2>1. n <= n => it[1..n] \in V
    BY <1>1, <1>8
  <2> QED
    BY <1>1, <2>1
<1> HIDE DEF n
<1> QED
  BY <1>1, <1>4, <1>9
--------------------------------------------------------------------------------
(* Frames and the pins they hold: one frame comes, ...                     *)
LEMMA FramesAdded ==
    ASSUME NEW frs, HasCounts(frs), NEW more, HasCounts(more), Len(more) = Len(frs) + 1,
           DOMAIN frs = 1..Len(frs), DOMAIN more = 1..Len(more),
           \A i \in 1..Len(frs) : more[i] = frs[i],
           NEW m, NEW n, m \in Nat, m = PinsOf(frs, Len(frs)),
           \A i \in DOMAIN frs : frs[i].first = PinsOf(frs, i - 1),
           more[Len(more)].first = m, n = m + more[Len(more)].count
    PROVE  n = PinsOf(more, Len(more)) /\ \A i \in DOMAIN more : more[i].first = PinsOf(more, i - 1)
<1> DEFINE l == Len(frs)
<1>1. l \in Nat /\ Len(more) = l + 1 /\ l + 1 \in 1..Len(more) /\ (l + 1) - 1 = l
  BY DEF HasCounts
<1>2. ASSUME NEW i \in 0..l PROVE PinsOf(more, i) = PinsOf(frs, i)
  <2>1. i <= Len(more) /\ \A j \in 1..i : j \in 1..l
    BY <1>1
  <2> QED
    BY <2>1, PinsOfSame
<1>3. PinsOf(more, l + 1) = PinsOf(more, l) + more[l + 1].count
  BY <1>1, PinsOfIs
<1>4. PinsOf(more, l) = m
  BY <1>1, <1>2
<1>5. ASSUME NEW i \in DOMAIN more PROVE more[i].first = PinsOf(more, i - 1)
  <2>1. CASE i = l + 1
    BY <1>1, <1>4, <2>1
  <2>2. CASE i # l + 1
    <3>1. i \in 1..l /\ i - 1 \in 0..l
      BY <1>1, <2>2
    <3> QED
      BY <1>2, <3>1
  <2> QED
    BY <2>1, <2>2
<1> QED
  BY <1>1, <1>3, <1>4, <1>5

LEMMA ContiguousAdded ==
    ASSUME NEW frs, HasCounts(frs), NEW more, HasCounts(more), Len(more) = Len(frs) + 1,
           DOMAIN frs = 1..Len(frs), DOMAIN more = 1..Len(more),
           \A i \in 1..Len(frs) : more[i] = frs[i],
           NEW ps, NEW q, Len(ps) \in Nat, Contiguous(frs, ps),
           more[Len(more)].first = Len(ps), Len(q) = Len(ps) + more[Len(more)].count
    PROVE  Contiguous(more, q)
<1> DEFINE m == Len(ps)
           n == Len(q)
<1>1. m \in Nat /\ m = PinsOf(frs, Len(frs)) /\ more[Len(more)].first = m /\ n = m + more[Len(more)].count
  BY DEF Contiguous
<1>2. \A i \in DOMAIN frs : frs[i].first = PinsOf(frs, i - 1)
  BY DEF Contiguous
<1> HIDE DEF m, n
<1>3. n = PinsOf(more, Len(more)) /\ \A i \in DOMAIN more : more[i].first = PinsOf(more, i - 1)
  BY <1>1, <1>2, FramesAdded, SMTT(60)
<1> QED
  BY <1>3 DEF Contiguous, n

(* ... or the first n go.                                                  *)
LEMMA FramesGone ==
    ASSUME NEW frs, HasCounts(frs), DOMAIN frs = 1..Len(frs), NEW n \in 0..Len(frs),
           NEW rest, HasCounts(rest), DOMAIN rest = 1..Len(rest), Len(rest) = Len(frs) - n,
           \A i \in 1..Len(rest) : /\ rest[i].count = frs[n + i].count
                                   /\ rest[i].first = frs[n + i].first - PinsOf(frs, n),
           \A i \in DOMAIN frs : frs[i].first = PinsOf(frs, i - 1)
    PROVE  /\ PinsOf(frs, n) \in 0..PinsOf(frs, Len(frs))
           /\ PinsOf(rest, Len(rest)) = PinsOf(frs, Len(frs)) - PinsOf(frs, n)
           /\ \A i \in DOMAIN rest : rest[i].first = PinsOf(rest, i - 1)
<1>1. Len(frs) \in Nat /\ Len(rest) \in Nat /\ n \in Nat /\ n <= Len(frs)
  BY DEF HasCounts
<1>2. ASSUME NEW m \in 0..Len(rest) PROVE PinsOf(rest, m) = PinsOf(frs, n + m) - PinsOf(frs, n)
  BY PinsOfShifted
<1>3. PinsOf(frs, n) \in Nat /\ PinsOf(frs, Len(frs)) \in Nat /\ PinsOf(frs, n) <= PinsOf(frs, Len(frs))
  <2>1. Len(frs) \in 0..Len(frs) /\ Len(frs) \in n..Len(frs)
    BY <1>1
  <2> QED
    BY <2>1, PinsOfIs, PinsOfGrows
<1>4. PinsOf(rest, Len(rest)) = PinsOf(frs, Len(frs)) - PinsOf(frs, n)
  <2>1. Len(rest) \in 0..Len(rest) /\ n + Len(rest) = Len(frs)
    BY <1>1
  <2> QED
    BY <1>2, <2>1
<1>5. ASSUME NEW i \in 1..Len(rest) PROVE rest[i].first = PinsOf(rest, i - 1)
  <2>1. i - 1 \in 0..Len(rest) /\ n + i \in 1..Len(frs) /\ n + (i - 1) = (n + i) - 1
    BY <1>1
  <2>2. frs[n + i].first = PinsOf(frs, (n + i) - 1)
    BY <2>1
  <2>3. PinsOf(rest, i - 1) = PinsOf(frs, (n + i) - 1) - PinsOf(frs, n)
    BY <1>2, <2>1
  <2> QED
    BY <2>2, <2>3
<1> QED
  BY <1>3, <1>4, <1>5

(* What is pinned once more is counted once more.                          *)
Times(key, m, x) == Cardinality({j \in 1..m : key[j] = x})
AddsOnce(key, m, n, used) ==
    /\ \A j \in 1..n : key[m + j] \in used
    /\ \A i, j \in 1..n : key[m + i] = key[m + j] => i = j
    /\ \A x \in used : \E j \in 1..n : key[m + j] = x
LEMMA PinsAdded ==
    ASSUME NEW m \in Nat, NEW n \in Nat, NEW key, NEW used, AddsOnce(key, m, n, used), NEW x
    PROVE  Times(key, m + n, x) = Times(key, m, x) + (IF x \in used THEN 1 ELSE 0)
<1> DEFINE A == {j \in 1..m : key[j] = x}
           B == {j \in 1..(m + n) : key[j] = x}
<1> USE DEF AddsOnce
<1>0. ASSUME NEW j \in 1..(m + n), j \notin 1..m PROVE j - m \in 1..n /\ m + (j - m) = j
  BY <1>0
<1>1. CASE x \in used
  <2>1. PICK i \in 1..n : key[m + i] = x
    BY <1>1
  <2>2. m + i \in Nat /\ m + i > m /\ m + i \in 1..(m + n)
    OBVIOUS
  <2>3. \A j \in B : j \notin 1..m => j = m + i
    <3> TAKE j \in B
    <3> HAVE j \notin 1..m
    <3>1. j \in 1..(m + n) /\ key[j] = x
      OBVIOUS
    <3>2. j - m \in 1..n /\ m + (j - m) = j
      BY <1>0, <3>1
    <3>3. j - m = i
      BY <2>1, <3>1, <3>2
    <3> QED
      BY <3>2, <3>3
  <2>4. B = A \cup {m + i}
    <3>1. \A j \in A : j \in B
      OBVIOUS
    <3>2. m + i \in B
      BY <2>1, <2>2
    <3>3. \A j \in B : j \in 1..m => j \in A
      OBVIOUS
    <3> HIDE DEF A, B
    <3> QED
      BY <2>3, <3>1, <3>2, <3>3
  <2>5. A \in SUBSET (1..m)
    OBVIOUS
  <2> HIDE DEF A, B
  <2>6. Cardinality(A \cup {m + i}) = Cardinality(A) + 1
    BY <2>2, <2>5, PlaceAdded
  <2> QED
    BY <1>1, <2>4, <2>6 DEF A, B, Times
<1>2. CASE x \notin used
  <2>1. \A j \in 1..(m + n) : j \notin 1..m => key[j] # x
    <3> TAKE j \in 1..(m + n)
    <3> HAVE j \notin 1..m
    <3>1. key[m + (j - m)] \in used /\ m + (j - m) = j
      BY <1>0
    <3> QED
      BY <1>2, <3>1
  <2>2. \A j \in 1..m : j \in 1..(m + n)
    OBVIOUS
  <2>3. A = B
    BY <2>1, <2>2
  <2>4. Cardinality(A) \in Nat
    BY PlacesFinite
  <2> HIDE DEF A, B
  <2> QED
    BY <1>2, <2>3, <2>4 DEF A, B, Times
<1> QED
  BY <1>1, <1>2
--------------------------------------------------------------------------------
(* The device: fences grow, a page of an atlas has one texture, the pins   *)
(* are counted, and what is pinned is as it was.                           *)
TextureRecord == [atlas : Nat, page : PageSet, gen : Nat, born : Nat, ready : Nat, use : Nat,
                  pins : Nat, resident : BOOLEAN, holds : SUBSET Glyphs]
DeviceFrame == [fence : Nat, wait : Nat, first : Nat, count : Nat]
DevicePin == [texture : Nat, born : Nat, draws : SUBSET Glyphs]
DeviceRecord == [textures : Seq(TextureRecord), frames : Seq(DeviceFrame), pins : Seq(DevicePin),
                 last : Nat, done : Nat]

SameTexture(x, y) == x.atlas = y.atlas /\ x.page = y.page /\ x.gen = y.gen
AsItWas(x, y) == SameTexture(y, x) /\ y.born = x.born /\ y.ready = x.ready /\ y.holds = x.holds
OneTexture(ts) == \A i, j \in 1..Len(ts) : SameTexture(ts[i], ts[j]) => i = j
PinsHeld(ts, ps) ==
    /\ \A i \in 1..Len(ts) : ts[i].pins = Cardinality({j \in 1..Len(ps) : ps[j].texture = i})
    /\ \A j \in 1..Len(ps) : ps[j].texture \in 1..Len(ts)
UpTo(ts, fence) == \A i \in 1..Len(ts) : ts[i].ready <= fence /\ ts[i].born <= fence
FencesGrow(frs, done, last) ==
    /\ \A i \in 1..Len(frs) : done < frs[i].fence /\ frs[i].fence <= last
    /\ \A i, j \in 1..Len(frs) : i < j => frs[i].fence < frs[j].fence
Drawable(x, pin, wait) == x.born = pin.born /\ (x.resident \/ x.ready <= wait)
PinsOfFrame(f) == (f.first + 1)..(f.first + f.count)
PinnedStay(ts, frs, ps) == \A i \in 1..Len(frs) : \A j \in PinsOfFrame(frs[i]) :
    Drawable(ts[ps[j].texture], ps[j], frs[i].wait)

DeviceSound(d) ==
    /\ d \in DeviceRecord /\ d.done <= d.last
    /\ Len(d.textures) <= MaxTextures /\ Len(d.frames) <= DeviceFrames /\ Len(d.pins) <= MaxPins
    /\ OneTexture(d.textures) /\ UpTo(d.textures, d.last) /\ FencesGrow(d.frames, d.done, d.last)
    /\ Contiguous(d.frames, d.pins) /\ PinsHeld(d.textures, d.pins)
    /\ PinnedStay(d.textures, d.frames, d.pins)

LEMMA DeviceTypes ==
    ASSUME NEW d, d \in DeviceRecord
    PROVE  /\ d.textures \in Seq(TextureRecord) /\ d.frames \in Seq(DeviceFrame)
           /\ d.pins \in Seq(DevicePin) /\ d.last \in Nat /\ d.done \in Nat
           /\ Len(d.textures) \in Nat /\ Len(d.frames) \in Nat /\ Len(d.pins) \in Nat
           /\ DOMAIN d.textures = 1..Len(d.textures) /\ DOMAIN d.frames = 1..Len(d.frames)
           /\ DOMAIN d.pins = 1..Len(d.pins)
           /\ \A i \in 1..Len(d.textures) : d.textures[i] \in TextureRecord
           /\ \A i \in 1..Len(d.frames) : d.frames[i] \in DeviceFrame
           /\ \A i \in 1..Len(d.pins) : d.pins[i] \in DevicePin
           /\ HasCounts(d.frames)
<1>1. /\ d.textures \in Seq(TextureRecord) /\ d.frames \in Seq(DeviceFrame)
      /\ d.pins \in Seq(DevicePin) /\ d.last \in Nat /\ d.done \in Nat
  BY DEF DeviceRecord
<1>2. \A i \in 1..Len(d.frames) : d.frames[i] \in DeviceFrame
  BY <1>1
<1>3. \A i \in 1..Len(d.frames) : d.frames[i].count \in Nat
  BY <1>2 DEF DeviceFrame
<1> QED
  BY <1>1, <1>2, <1>3 DEF HasCounts

(* A pin of a frame is a pin.                                              *)
LEMMA PinOfFrame ==
    ASSUME NEW frs, HasCounts(frs), DOMAIN frs = 1..Len(frs), NEW ps, Contiguous(frs, ps),
           NEW i \in 1..Len(frs), NEW j \in PinsOfFrame(frs[i])
    PROVE  j \in 1..Len(ps) /\ Len(ps) \in Nat /\ frs[i].first \in Nat
<1>1. Len(frs) \in Nat /\ i - 1 \in 0..Len(frs) /\ i \in 0..Len(frs) /\ Len(frs) \in i..Len(frs)
      /\ Len(frs) \in 0..Len(frs)
  BY DEF HasCounts
<1>2. frs[i].first = PinsOf(frs, i - 1) /\ PinsOf(frs, i - 1) \in Nat /\ frs[i].count \in Nat
  BY <1>1, PinsOfIs DEF Contiguous, HasCounts
<1>3. PinsOf(frs, i) = frs[i].first + frs[i].count
  BY <1>1, <1>2, PinsOfIs
<1>4. PinsOf(frs, i) <= PinsOf(frs, Len(frs)) /\ PinsOf(frs, Len(frs)) \in Nat
  BY <1>1, PinsOfGrows, PinsOfIs
<1>5. Len(ps) = PinsOf(frs, Len(frs))
  BY DEF Contiguous
<1> QED
  BY <1>2, <1>3, <1>4, <1>5 DEF PinsOfFrame

(* A texture that is pinned is not idle.                                   *)
LEMMA PinnedIsCounted ==
    ASSUME NEW ts, NEW ps, Len(ps) \in Nat, PinsHeld(ts, ps), NEW j \in 1..Len(ps)
    PROVE  ts[ps[j].texture].pins # 0
<1> DEFINE A == {k \in 1..Len(ps) : ps[k].texture = ps[j].texture}
<1>1. j \in A /\ A \in SUBSET (1..Len(ps))
  OBVIOUS
<1>2. IsFiniteSet(A)
  <2> HIDE DEF A
  <2> QED
    BY <1>1, PlacesFinite
<1>3. Cardinality(A) # 0
  <2> HIDE DEF A
  <2> QED
    BY <1>1, <1>2, FS_EmptySet
<1>4. ts[ps[j].texture].pins = Cardinality(A)
  BY DEF PinsHeld
<1> QED
  BY <1>3, <1>4

(* Textures change where nothing is pinned.                                *)
LEMMA OthersChange ==
    ASSUME NEW d, DeviceSound(d), NEW ts \in Seq(TextureRecord), Len(d.textures) <= Len(ts),
           Len(ts) <= MaxTextures, OneTexture(ts), UpTo(ts, d.last + 1),
           \A i \in 1..Len(d.textures) :
              ts[i] = d.textures[i] \/ (d.textures[i].pins = 0 /\ ts[i].pins = 0),
           \A i \in 1..Len(ts) : i > Len(d.textures) => ts[i].pins = 0,
           NEW c, c = [d EXCEPT !.textures = ts, !.last = d.last + 1]
    PROVE  DeviceSound(c)
<1> DEFINE old == d.textures
           ps == d.pins
           frs == d.frames
<1>1. /\ d \in DeviceRecord /\ d.done <= d.last /\ Len(frs) <= DeviceFrames /\ Len(ps) <= MaxPins
      /\ FencesGrow(frs, d.done, d.last) /\ Contiguous(frs, ps) /\ PinsHeld(old, ps)
      /\ PinnedStay(old, frs, ps)
  BY DEF DeviceSound
<1>2. /\ d.last \in Nat /\ d.done \in Nat /\ Len(old) \in Nat /\ Len(ps) \in Nat /\ Len(ts) \in Nat
      /\ Len(frs) \in Nat /\ HasCounts(frs) /\ DOMAIN frs = 1..Len(frs)
      /\ \A i \in 1..Len(frs) : frs[i] \in DeviceFrame
  BY <1>1, DeviceTypes
<1>3. /\ c \in DeviceRecord /\ c.textures = ts /\ c.frames = frs /\ c.pins = ps
      /\ c.last = d.last + 1 /\ c.done = d.done
  <2>1. d \in DeviceRecord /\ d.last + 1 \in Nat
    BY <1>1, <1>2
  <2>2. c \in DeviceRecord
    BY <2>1 DEF DeviceRecord
  <2> QED
    BY <2>1 DEF DeviceRecord
<1> HIDE DEF old, ps, frs
<1>4. PinsHeld(ts, ps)
  <2>1. \A j \in 1..Len(ps) : ps[j].texture \in 1..Len(old) /\ ps[j].texture \in 1..Len(ts)
    BY <1>1, <1>2 DEF PinsHeld, old
  <2>2. ASSUME NEW i \in 1..Len(ts)
        PROVE  ts[i].pins = Cardinality({j \in 1..Len(ps) : ps[j].texture = i})
    <3>1. CASE i \in 1..Len(old)
      BY <1>1, <3>1 DEF PinsHeld, old
    <3>2. CASE i \notin 1..Len(old)
      <4>1. {j \in 1..Len(ps) : ps[j].texture = i} = {}
        BY <2>1, <3>2
      <4>2. i > Len(old)
        BY <1>2, <3>2
      <4>3. ts[i].pins = 0
        BY <4>2 DEF old
      <4> QED
        BY <4>1, <4>3, FS_EmptySet
    <3> QED
      BY <3>1, <3>2
  <2> QED
    BY <2>1, <2>2 DEF PinsHeld
<1>5. PinnedStay(ts, frs, ps)
  <2> SUFFICES ASSUME NEW i \in 1..Len(frs), NEW j \in PinsOfFrame(frs[i])
               PROVE  Drawable(ts[ps[j].texture], ps[j], frs[i].wait)
    BY DEF PinnedStay
  <2>1. j \in 1..Len(ps)
    BY <1>1, <1>2, PinOfFrame
  <2>2. old[ps[j].texture].pins # 0
    BY <1>1, <1>2, <2>1, PinnedIsCounted
  <2>4. ps[j].texture \in 1..Len(old)
    BY <1>1, <2>1 DEF PinsHeld
  <2>3. ts[ps[j].texture] = old[ps[j].texture]
    BY <2>2, <2>4 DEF old
  <2> QED
    BY <1>1, <2>3 DEF PinnedStay
<1>6. FencesGrow(frs, d.done, d.last + 1)
  <2>1. \A i \in 1..Len(frs) : frs[i].fence \in Nat
    BY <1>2 DEF DeviceFrame
  <2>2. \A i \in 1..Len(frs) : frs[i].fence <= d.last + 1
    BY <1>1, <1>2, <2>1 DEF FencesGrow
  <2> QED
    BY <1>1, <2>2 DEF FencesGrow
<1>7. d.done <= d.last + 1
  BY <1>1, <1>2
<1> QED
  BY <1>1, <1>3, <1>4, <1>5, <1>6, <1>7 DEF DeviceSound

LEMMA TextureReplaced ==
    ASSUME NEW d, DeviceSound(d), NEW i \in 1..Len(d.textures), d.textures[i].pins = 0,
           NEW v \in TextureRecord, v.pins = 0, v.ready <= d.last + 1, v.born <= d.last + 1,
           \A j \in 1..Len(d.textures) : j # i => ~SameTexture(d.textures[j], v)
    PROVE  DeviceSound([d EXCEPT !.textures = [d.textures EXCEPT ![i] = v], !.last = d.last + 1])
<1> DEFINE old == d.textures
           ts == [old EXCEPT ![i] = v]
<1>1. /\ d \in DeviceRecord /\ Len(old) <= MaxTextures /\ OneTexture(old) /\ UpTo(old, d.last)
  BY DEF DeviceSound
<1>2. d.last \in Nat /\ Len(old) \in Nat /\ old \in Seq(TextureRecord)
      /\ \A j \in 1..Len(old) : old[j] \in TextureRecord
  BY <1>1, DeviceTypes
<1> HIDE DEF old
<1>3. /\ ts \in Seq(TextureRecord) /\ Len(ts) = Len(old) /\ i \in 1..Len(old) /\ ts[i] = v
      /\ \A j \in 1..Len(old) : j # i => ts[j] = old[j]
  <2>1. i \in 1..Len(old)
    BY DEF old
  <2> QED
    BY <1>2, <2>1
<1> HIDE DEF ts
<1>4. OneTexture(ts)
  <2> SUFFICES ASSUME NEW j \in 1..Len(old), NEW k \in 1..Len(old), SameTexture(ts[j], ts[k]) PROVE j = k
    BY <1>3 DEF OneTexture
  <2>1. CASE j # i /\ k # i
    BY <1>1, <1>3, <2>1 DEF OneTexture
  <2>2. CASE j # i /\ k = i
    <3>1. SameTexture(old[j], v)
      BY <1>3, <2>2
    <3> QED
      BY <2>2, <3>1 DEF old
  <2>3. CASE j = i /\ k # i
    <3>1. SameTexture(old[k], v)
      BY <1>3, <2>3 DEF SameTexture
    <3> QED
      BY <2>3, <3>1 DEF old
  <2> QED
    BY <2>1, <2>2, <2>3
<1>5. UpTo(ts, d.last + 1)
  <2> SUFFICES ASSUME NEW j \in 1..Len(old) PROVE ts[j].ready <= d.last + 1 /\ ts[j].born <= d.last + 1
    BY <1>3 DEF UpTo
  <2>1. CASE j = i
    BY <1>3, <2>1
  <2>2. CASE j # i
    <3>1. old[j].ready \in Nat /\ old[j].born \in Nat /\ old[j].ready <= d.last /\ old[j].born <= d.last
      BY <1>1, <1>2 DEF UpTo, TextureRecord
    <3> QED
      BY <1>2, <1>3, <2>2, <3>1
  <2> QED
    BY <2>1, <2>2
<1>6. \A j \in 1..Len(old) : ts[j] = old[j] \/ (old[j].pins = 0 /\ ts[j].pins = 0)
  <2>1. old[i].pins = 0
    BY DEF old
  <2> QED
    BY <1>3, <2>1
<1>7. Len(old) <= Len(ts) /\ Len(ts) <= MaxTextures /\ \A j \in 1..Len(ts) : ~(j > Len(old))
  BY <1>1, <1>2, <1>3
<1> QED
  BY <1>3, <1>4, <1>5, <1>6, <1>7, OthersChange DEF ts, old

LEMMA TextureAppended ==
    ASSUME NEW d, DeviceSound(d), MaxTextures \in Nat, Len(d.textures) < MaxTextures,
           NEW v \in TextureRecord, v.pins = 0, v.ready <= d.last + 1, v.born <= d.last + 1,
           \A j \in 1..Len(d.textures) : ~SameTexture(d.textures[j], v)
    PROVE  DeviceSound([d EXCEPT !.textures = Append(d.textures, v), !.last = d.last + 1])
<1> DEFINE old == d.textures
           ts == Append(old, v)
           n == Len(old)
<1>1. /\ d \in DeviceRecord /\ n < MaxTextures /\ OneTexture(old) /\ UpTo(old, d.last)
  BY DEF DeviceSound
<1>2. d.last \in Nat /\ n \in Nat /\ old \in Seq(TextureRecord)
      /\ \A j \in 1..n : old[j] \in TextureRecord
  BY <1>1, DeviceTypes
<1> HIDE DEF old
<1>3. /\ ts \in Seq(TextureRecord) /\ Len(ts) = n + 1 /\ ts[n + 1] = v
      /\ \A j \in 1..n : ts[j] = old[j]
  BY <1>2
<1>8. \A j \in 1..(n + 1) : j \in 1..n \/ j = n + 1
  BY <1>2
<1> HIDE DEF ts, n
<1>4. OneTexture(ts)
  <2> SUFFICES ASSUME NEW j \in 1..(n + 1), NEW k \in 1..(n + 1), SameTexture(ts[j], ts[k]) PROVE j = k
    BY <1>3 DEF OneTexture
  <2>0. \A l \in 1..n : ~SameTexture(old[l], v) /\ ~SameTexture(v, old[l])
    BY DEF old, n, SameTexture
  <2>1. CASE j \in 1..n /\ k \in 1..n
    BY <1>1, <1>3, <2>1 DEF OneTexture, n
  <2>2. CASE j \in 1..n /\ k = n + 1
    BY <1>3, <2>0, <2>2
  <2>3. CASE j = n + 1 /\ k \in 1..n
    BY <1>3, <2>0, <2>3
  <2> QED
    BY <1>8, <2>1, <2>2, <2>3
<1>5. UpTo(ts, d.last + 1)
  <2> SUFFICES ASSUME NEW j \in 1..(n + 1) PROVE ts[j].ready <= d.last + 1 /\ ts[j].born <= d.last + 1
    BY <1>3 DEF UpTo
  <2>1. CASE j = n + 1
    BY <1>3, <2>1
  <2>2. CASE j \in 1..n
    <3>1. old[j].ready \in Nat /\ old[j].born \in Nat /\ old[j].ready <= d.last /\ old[j].born <= d.last
      BY <1>1, <1>2, <2>2 DEF UpTo, TextureRecord, n
    <3> QED
      BY <1>2, <1>3, <2>2, <3>1
  <2> QED
    BY <1>8, <2>1, <2>2
<1>6. \A j \in 1..Len(ts) : j > n => ts[j].pins = 0
  BY <1>2, <1>3, <1>8
<1>7. n <= Len(ts) /\ Len(ts) <= MaxTextures
  BY <1>1, <1>2, <1>3
<1> QED
  BY <1>3, <1>4, <1>5, <1>6, <1>7, OthersChange DEF ts, old, n
--------------------------------------------------------------------------------
(* An upload.                                                              *)
Of(x, id, page, gen) == x.atlas = id /\ x.page = page /\ x.gen = gen

LEMMA UploadKeeps ==
    ASSUME MaxTextures \in Nat, DeviceSound(device), mine \in Submission, NEW b \in BatchRecord,
           NEW ts \in AfterUpload(b)
    PROVE  DeviceSound([device EXCEPT !.textures = ts, !.last = NextFence])
<1> DEFINE old == device.textures
           n == Len(old)
           new == NewTexture(b)
<1>1. /\ device \in DeviceRecord /\ OneTexture(old) /\ UpTo(old, device.last)
  BY DEF DeviceSound
<1>2. /\ device.last \in Nat /\ n \in Nat /\ DOMAIN old = 1..n /\ old \in Seq(TextureRecord)
      /\ \A i \in 1..n : old[i] \in TextureRecord
  BY <1>1, DeviceTypes
<1>3. NextFence = device.last + 1 /\ NextFence \in Nat
  BY <1>2 DEF NextFence
<1>4. /\ b.page \in PageSet /\ b.gen \in Nat /\ b.glyphs \in SUBSET Glyphs /\ mine.atlas \in Nat
  BY DEF BatchRecord, Submission
<1>5. /\ new \in TextureRecord /\ new.pins = 0 /\ new.ready = NextFence /\ new.born = NextFence
      /\ Of(new, mine.atlas, b.page, b.gen) /\ new.holds = b.glyphs
  BY <1>3, <1>4 DEF NewTexture, TextureRecord, Of
<1>6. TextureOf(b) = {i \in 1..n : Of(old[i], mine.atlas, b.page, b.gen)}
  BY <1>2 DEF TextureOf, Of
<1>7. Idle = {i \in 1..n : old[i].pins = 0}
  BY <1>2 DEF Idle, Where
<1> HIDE DEF old, new, n
<1>8. CASE TextureOf(b) # {}
  <2>1. PICK i \in TextureOf(b) \cap Idle : ts = [device.textures EXCEPT ![i] = Uploaded(@, b)]
    BY <1>8 DEF AfterUpload
  <2> DEFINE v == Uploaded(old[i], b)
  <2>2. i \in 1..n /\ old[i] \in TextureRecord /\ old[i].pins = 0 /\ Of(old[i], mine.atlas, b.page, b.gen)
    BY <1>2, <1>6, <1>7, <2>1
  <2>3. /\ v \in TextureRecord /\ v.pins = 0 /\ v.ready = NextFence /\ v.born = old[i].born
        /\ SameTexture(v, old[i]) /\ v.holds = old[i].holds \cup b.glyphs
    BY <1>3, <1>4, <2>2 DEF Uploaded, TextureRecord, SameTexture
  <2>4. ts = [old EXCEPT ![i] = v]
    BY <1>2, <2>1, <2>2 DEF old
  <2> HIDE DEF v
  <2>5. v.ready <= device.last + 1 /\ v.born <= device.last + 1
    <3>1. old[i].born <= device.last /\ old[i].born \in Nat
      BY <1>1, <2>2 DEF UpTo, n, TextureRecord
    <3> QED
      BY <1>2, <1>3, <2>3, <3>1
  <2>6. \A j \in 1..n : j # i => ~SameTexture(old[j], v)
    <3>1. \A j \in 1..n : SameTexture(old[j], v) => SameTexture(old[j], old[i])
      BY <2>3 DEF SameTexture
    <3> QED
      BY <1>1, <2>2, <3>1 DEF OneTexture, n
  <2>7. DeviceSound([device EXCEPT !.textures = ts, !.last = NextFence])
    BY <1>3, <2>2, <2>3, <2>4, <2>5, <2>6, TextureReplaced DEF old, n
  <2> QED
    BY <2>7
<1>9. CASE TextureOf(b) = {} /\ n < MaxTextures
  <2>1. ts = Append(old, new)
    BY <1>9 DEF AfterUpload, old, new, n
  <2>3. \A j \in 1..n : ~SameTexture(old[j], new)
    BY <1>5, <1>6, <1>9 DEF SameTexture, Of
  <2>4. new.ready <= device.last + 1 /\ new.born <= device.last + 1
    BY <1>2, <1>3, <1>5
  <2>5. DeviceSound([device EXCEPT !.textures = ts, !.last = NextFence])
    BY <1>3, <1>5, <1>9, <2>1, <2>3, <2>4, TextureAppended DEF old, n
  <2> QED
    BY <2>5
<1>10. CASE TextureOf(b) = {} /\ ~(n < MaxTextures)
  <2>1. PICK i \in Evicted : ts = [device.textures EXCEPT ![i] = NewTexture(b)]
    BY <1>10 DEF AfterUpload, old, n
  <2>2. i \in 1..n /\ old[i].pins = 0 /\ ts = [old EXCEPT ![i] = new]
    BY <1>7, <2>1 DEF Evicted, old, new
  <2>4. \A j \in 1..n : ~SameTexture(old[j], new)
    BY <1>5, <1>6, <1>10 DEF SameTexture, Of
  <2>5. new.ready <= device.last + 1 /\ new.born <= device.last + 1
    BY <1>2, <1>3, <1>5
  <2>6. DeviceSound([device EXCEPT !.textures = ts, !.last = NextFence])
    BY <1>3, <1>5, <2>2, <2>4, <2>5, TextureReplaced DEF old, n
  <2> QED
    BY <2>6
<1> QED
  BY <1>8, <1>9, <1>10
--------------------------------------------------------------------------------
(* Frames retire: those whose fence is complete are the first ones.        *)
LEMMA RetiringFirst ==
    ASSUME NEW frs, NEW done, NEW last, FencesGrow(frs, done, last), HasCounts(frs),
           DOMAIN frs = 1..Len(frs), \A i \in 1..Len(frs) : frs[i].fence \in Nat, NEW fence \in Nat
    PROVE  LET n == Retiring(frs, fence) IN
           /\ n \in 0..Len(frs)
           /\ \A i \in 1..Len(frs) : frs[i].fence <= fence <=> i <= n
<1> DEFINE S == {i \in 1..Len(frs) : frs[i].fence <= fence}
           n == Cardinality(S)
<1>1. Retiring(frs, fence) = n
  BY DEF Retiring, Where
<1>2. Len(frs) \in Nat /\ S \in SUBSET (1..Len(frs))
  BY DEF HasCounts
<1>3. ASSUME NEW i \in S, NEW j \in 1..(i - 1) PROVE j \in S
  <2>1. j \in 1..Len(frs) /\ i \in 1..Len(frs) /\ j < i /\ frs[i].fence <= fence
    BY <1>2
  <2>2. frs[j].fence < frs[i].fence
    BY <2>1 DEF FencesGrow
  <2>3. frs[j].fence \in Nat /\ frs[i].fence \in Nat
    BY <2>1
  <2> QED
    BY <2>1, <2>2, <2>3
<1>4. n \in 0..Len(frs) /\ S = 1..n
  <2> HIDE DEF S
  <2> QED
    BY <1>2, <1>3, PrefixIs
<1>5. ASSUME NEW i \in 1..Len(frs) PROVE frs[i].fence <= fence <=> i <= n
  <2>1. frs[i].fence <= fence <=> i \in S
    OBVIOUS
  <2> HIDE DEF S, n
  <2> QED
    BY <1>2, <1>4, <2>1
<1> HIDE DEF S, n
<1> QED
  BY <1>1, <1>4, <1>5

LEMMA RangeShifted ==
    ASSUME NEW a \in Nat, NEW b \in Nat, NEW c, NEW d \in Nat, NEW k \in Nat, a + k = b, c = d,
           NEW j \in (a + 1)..(a + c)
    PROVE  k + j \in (b + 1)..(b + d)
OBVIOUS

LEMMA RetireDeviceKeeps ==
    ASSUME FramesAssumption, DeviceSound(device), NEW fence, RetireDevice(fence)
    PROVE  /\ DeviceSound(device') /\ device'.last = device.last
           /\ device.done < device'.done
           /\ \A i \in 1..Len(device.frames) :
                 \/ device.frames[i].fence <= device'.done
                 \/ \E k \in 1..Len(device'.frames) :
                       /\ device'.frames[k].fence = device.frames[i].fence
                       /\ device'.frames[k].count = device.frames[i].count
           /\ Len(device'.textures) = Len(device.textures)
           /\ \A i \in 1..Len(device.textures) : AsItWas(device.textures[i], device'.textures[i])
<1> DEFINE old == device.textures
           frs == device.frames
           ps == device.pins
           n == Retiring(frs, fence)
           k == PinsOf(frs, n)
           Freed(i) == Cardinality({j \in 1..k : ps[j].texture = i})
           ts == [i \in DOMAIN old |-> Released(old[i], Freed(i), fence)]
           rest == Remaining(frs, n)
           left == SubSeq(ps, k + 1, Len(ps))
<1>1. /\ device \in DeviceRecord /\ Len(old) <= MaxTextures /\ Len(frs) <= DeviceFrames
      /\ Len(ps) <= MaxPins /\ OneTexture(old) /\ UpTo(old, device.last)
      /\ FencesGrow(frs, device.done, device.last)
      /\ Contiguous(frs, ps) /\ PinsHeld(old, ps) /\ PinnedStay(old, frs, ps)
  BY DEF DeviceSound
<1>2. /\ device.last \in Nat /\ device.done \in Nat /\ Len(old) \in Nat /\ Len(frs) \in Nat
      /\ Len(ps) \in Nat /\ DOMAIN old = 1..Len(old) /\ DOMAIN frs = 1..Len(frs) /\ DOMAIN ps = 1..Len(ps)
      /\ ps \in Seq(DevicePin) /\ HasCounts(frs)
      /\ \A i \in 1..Len(old) : old[i] \in TextureRecord
      /\ \A i \in 1..Len(frs) : frs[i] \in DeviceFrame
      /\ \A i \in 1..Len(ps) : ps[i] \in DevicePin
  BY <1>1, DeviceTypes
<1>3. /\ fence \in (device.done + 1)..device.last
      /\ device' = [device EXCEPT !.frames = rest, !.pins = left, !.textures = ts, !.done = fence]
  <2>1. fence \in (device.done + 1)..device.last
    BY Zenon DEF RetireDevice
  <2>2. device' = [device EXCEPT !.frames = rest, !.pins = left, !.textures = ts, !.done = fence]
    BY Zenon DEF RetireDevice
  <2> QED
    BY <2>1, <2>2
<1>4. fence \in Nat /\ device.done < fence /\ fence <= device.last
  BY <1>2, <1>3
<1>5. \A i \in 1..Len(frs) : frs[i].fence \in Nat /\ frs[i].count \in Nat /\ frs[i].first \in Nat
  BY <1>2 DEF DeviceFrame
<1> HIDE DEF old, frs, ps
<1>6. n \in 0..Len(frs) /\ n \in Nat /\ \A i \in 1..Len(frs) : frs[i].fence <= fence <=> i <= n
  <2>1. n \in 0..Len(frs) /\ \A i \in 1..Len(frs) : frs[i].fence <= fence <=> i <= n
    BY <1>1, <1>2, <1>4, <1>5, RetiringFirst
  <2> HIDE DEF n
  <2> QED
    BY <2>1
<1> HIDE DEF n
<1>7. /\ Len(rest) = Len(frs) - n /\ DOMAIN rest = 1..Len(rest) /\ Len(rest) \in Nat
      /\ \A i \in 1..Len(rest) : /\ n + i \in 1..Len(frs)
                                  /\ rest[i] = [frs[n + i] EXCEPT !.first = @ - k]
  BY <1>2, <1>6 DEF Remaining
<1> HIDE DEF rest, k
<1>8. \A i \in 1..Len(rest) : /\ rest[i].fence = frs[n + i].fence /\ rest[i].wait = frs[n + i].wait
                              /\ rest[i].count = frs[n + i].count /\ rest[i].count \in Nat
                              /\ rest[i].first = frs[n + i].first - k
  BY <1>2, <1>7 DEF DeviceFrame
<1>9. HasCounts(rest)
  BY <1>7, <1>8 DEF HasCounts
<1>10. /\ k \in 0..Len(ps)
       /\ PinsOf(rest, Len(rest)) = Len(ps) - k
       /\ \A i \in DOMAIN rest : rest[i].first = PinsOf(rest, i - 1)
  <2>1. Len(ps) = PinsOf(frs, Len(frs)) /\ \A i \in DOMAIN frs : frs[i].first = PinsOf(frs, i - 1)
    BY <1>1 DEF Contiguous
  <2>2. \A i \in 1..Len(rest) : /\ rest[i].count = frs[n + i].count
                                /\ rest[i].first = frs[n + i].first - PinsOf(frs, n)
    BY <1>8 DEF k
  <2>4. HasCounts(frs) /\ DOMAIN frs = 1..Len(frs) /\ n \in 0..Len(frs)
    BY <1>2, <1>6
  <2>5. HasCounts(rest) /\ DOMAIN rest = 1..Len(rest) /\ Len(rest) = Len(frs) - n
    BY <1>7, <1>9
  <2>3. /\ PinsOf(frs, n) \in 0..PinsOf(frs, Len(frs))
        /\ PinsOf(rest, Len(rest)) = PinsOf(frs, Len(frs)) - PinsOf(frs, n)
        /\ \A i \in DOMAIN rest : rest[i].first = PinsOf(rest, i - 1)
    BY <2>1, <2>2, <2>4, <2>5, FramesGone
  <2> QED
    BY <2>1, <2>3 DEF k
<1>11. k \in Nat /\ left \in Seq(DevicePin) /\ Len(left) = Len(ps) - k
       /\ \A j \in 1..Len(left) : k + j \in 1..Len(ps) /\ left[j] = ps[k + j]
  <2>1. k \in Nat /\ k + 1 \in Int /\ Len(ps) \in Int /\ Len(ps) - k \in Nat
    BY <1>2, <1>10
  <2>2. \A j \in (k + 1)..Len(ps) : ps[j] \in DevicePin
    BY <1>2, <2>1
  <2>3. /\ left \in Seq(DevicePin)
        /\ Len(left) = IF k + 1 <= Len(ps) THEN Len(ps) - (k + 1) + 1 ELSE 0
        /\ \A j \in 1..(Len(ps) - (k + 1) + 1) : left[j] = ps[(k + 1) + j - 1]
    BY <2>1, <2>2, SubSeqProperties
  <2> HIDE DEF left
  <2>4. Len(left) = Len(ps) - k
    <3>1. Len(ps) \in Nat
      BY <1>2
    <3>2. CASE k + 1 <= Len(ps)
      BY <2>1, <2>3, <3>1, <3>2
    <3>3. CASE ~(k + 1 <= Len(ps))
      <4>1. k = Len(ps)
        BY <2>1, <3>1, <3>3
      <4> QED
        BY <2>3, <3>1, <3>3, <4>1
    <3> QED
      BY <3>2, <3>3
  <2>5. ASSUME NEW j \in 1..(Len(ps) - k) PROVE k + j \in 1..Len(ps) /\ left[j] = ps[k + j]
    <3>1. k + j \in 1..Len(ps) /\ (k + 1) + j - 1 = k + j /\ Len(ps) - (k + 1) + 1 = Len(ps) - k
      BY <1>2, <2>1
    <3> QED
      BY <2>3, <3>1
  <2> QED
    BY <2>1, <2>3, <2>4, <2>5
<1> HIDE DEF left
<1>12. Contiguous(rest, left)
  BY <1>10, <1>11 DEF Contiguous
<1>13. ASSUME NEW i \in 1..Len(rest)
       PROVE  /\ rest[i].first \in Nat /\ rest[i] \in DeviceFrame
              /\ \A j \in PinsOfFrame(rest[i]) : /\ j \in 1..Len(left)
                                                 /\ k + j \in PinsOfFrame(frs[n + i])
  <2>1. rest[i].first = PinsOf(rest, i - 1) /\ i - 1 \in 0..Len(rest)
    BY <1>7, <1>10
  <2>2. rest[i].first \in Nat
    BY <1>9, <2>1, PinsOfIs
  <2>3. rest[i] \in DeviceFrame
    BY <1>2, <1>7, <1>8, <2>2 DEF DeviceFrame
  <2>4. ASSUME NEW j \in PinsOfFrame(rest[i]) PROVE j \in 1..Len(left) /\ k + j \in PinsOfFrame(frs[n + i])
    <3>1. j \in 1..Len(left)
      BY <1>7, <1>9, <1>12, PinOfFrame
    <3>2. j \in (rest[i].first + 1)..(rest[i].first + rest[i].count)
      BY DEF PinsOfFrame
    <3>3. frs[n + i].first \in Nat /\ frs[n + i].count \in Nat
      BY <1>5, <1>7
    <3>4. rest[i].first + k = frs[n + i].first /\ rest[i].count = frs[n + i].count
      BY <1>8, <1>11, <2>2, <3>3
    <3>5. k + j \in (frs[n + i].first + 1)..(frs[n + i].first + frs[n + i].count)
      BY <1>11, <2>2, <3>2, <3>3, <3>4, RangeShifted
    <3> QED
      BY <3>1, <3>5 DEF PinsOfFrame
  <2> QED
    BY <2>2, <2>3, <2>4
<1>14. rest \in Seq(DeviceFrame)
  <2>1. \A i \in 1..Len(rest) : rest[i] \in DeviceFrame
    BY <1>13
  <2>2. rest = [i \in 1..Len(rest) |-> rest[i]]
    BY <1>7 DEF rest, Remaining
  <2> QED
    BY <1>7, <2>1, <2>2
<1>15. ASSUME NEW i \in 1..Len(old)
       PROVE  /\ old[i].pins - Freed(i) \in Nat
              /\ old[i].pins - Freed(i) = Cardinality({j \in 1..Len(left) : left[j].texture = i})
  <2> DEFINE A == {j \in 1..Len(ps) : ps[j].texture = i}
             gone == {j \in 1..k : j \in A}
             here == {j \in 1..(Len(ps) - k) : k + j \in A}
  <2>1. A \in SUBSET (1..Len(ps))
    OBVIOUS
  <2>2. gone = {j \in 1..k : ps[j].texture = i}
    BY <1>2, <1>10
  <2>3. here = {j \in 1..Len(left) : left[j].texture = i}
    BY <1>2, <1>11
  <2>4. old[i].pins = Cardinality(A)
    BY <1>1 DEF PinsHeld
  <2>5. Cardinality(here) \in Nat
    <3>1. here \in SUBSET (1..(Len(ps) - k)) /\ Len(ps) - k \in Nat
      BY <1>2, <1>10
    <3> HIDE DEF here
    <3> QED
      BY <3>1, PlacesFinite
  <2> HIDE DEF A
  <2>6. Cardinality(here) = Cardinality(A) - Cardinality(gone)
    BY <1>2, <1>10, <2>1, ShiftedPlaces
  <2> HIDE DEF gone, here
  <2> QED
    BY <2>2, <2>3, <2>4, <2>5, <2>6
<1> HIDE DEF Freed
<1>16. ASSUME NEW i \in 1..Len(old)
       PROVE  /\ ts[i] \in TextureRecord /\ SameTexture(ts[i], old[i]) /\ ts[i].holds = old[i].holds
              /\ ts[i].born = old[i].born /\ ts[i].ready = old[i].ready
              /\ (old[i].resident => ts[i].resident) /\ ts[i].pins = old[i].pins - Freed(i)
  <2>1. ts[i] = [old[i] EXCEPT !.pins = @ - Freed(i), !.resident = (@ \/ old[i].ready <= fence)]
    BY <1>2 DEF Released
  <2>2. old[i] \in TextureRecord /\ old[i].pins - Freed(i) \in Nat
    BY <1>2, <1>15
  <2> HIDE DEF ts
  <2> QED
    BY <2>1, <2>2 DEF TextureRecord, SameTexture
<1>17. Len(ts) = Len(old) /\ ts \in Seq(TextureRecord)
  <2>1. ts = [i \in 1..Len(old) |-> ts[i]]
    BY <1>2
  <2> HIDE DEF ts
  <2> QED
    BY <1>2, <1>16, <2>1
<1> HIDE DEF ts
<1>18. /\ device' \in DeviceRecord /\ device'.frames = rest /\ device'.pins = left
       /\ device'.textures = ts /\ device'.last = device.last /\ device'.done = fence
  <2>1. device \in DeviceRecord
    BY <1>1
  <2> QED
    BY <1>3, <1>4, <1>11, <1>14, <1>17, <2>1 DEF DeviceRecord
<1>19. OneTexture(ts) /\ UpTo(ts, device.last)
  BY <1>1, <1>16, <1>17 DEF OneTexture, UpTo, SameTexture
<1>20. PinsHeld(ts, left)
  <2>1. \A j \in 1..Len(left) : left[j].texture \in 1..Len(ts)
    BY <1>1, <1>11, <1>17 DEF PinsHeld
  <2> QED
    BY <1>15, <1>16, <1>17, <2>1 DEF PinsHeld
<1>21. PinnedStay(ts, rest, left)
  <2> SUFFICES ASSUME NEW i \in 1..Len(rest), NEW j \in PinsOfFrame(rest[i])
               PROVE  Drawable(ts[left[j].texture], left[j], rest[i].wait)
    BY DEF PinnedStay
  <2>1. j \in 1..Len(left) /\ k + j \in PinsOfFrame(frs[n + i]) /\ n + i \in 1..Len(frs)
    BY <1>7, <1>13
  <2>2. left[j] = ps[k + j] /\ ps[k + j].texture \in 1..Len(old)
    BY <1>1, <1>11, <2>1 DEF PinsHeld
  <2>3. Drawable(old[ps[k + j].texture], ps[k + j], frs[n + i].wait)
    BY <1>1, <2>1 DEF PinnedStay
  <2> QED
    BY <1>8, <1>16, <2>2, <2>3 DEF Drawable
<1>22. FencesGrow(rest, fence, device.last)
  <2>1. ASSUME NEW i \in 1..Len(rest) PROVE fence < rest[i].fence /\ rest[i].fence <= device.last
    <3>1. n + i \in 1..Len(frs) /\ ~(n + i <= n)
      BY <1>6, <1>7
    <3>2. ~(frs[n + i].fence <= fence) /\ frs[n + i].fence \in Nat /\ frs[n + i].fence <= device.last
      BY <1>1, <1>5, <1>6, <3>1 DEF FencesGrow
    <3> QED
      BY <1>4, <1>8, <3>2
  <2>2. ASSUME NEW i \in 1..Len(rest), NEW j \in 1..Len(rest), i < j PROVE rest[i].fence < rest[j].fence
    <3>1. n + i \in 1..Len(frs) /\ n + j \in 1..Len(frs) /\ n + i < n + j
      BY <1>6, <1>7, <2>2
    <3> QED
      BY <1>1, <1>8, <3>1 DEF FencesGrow
  <2> QED
    BY <2>1, <2>2 DEF FencesGrow
<1>23. Len(rest) <= DeviceFrames /\ Len(left) <= MaxPins
  <2>1. Len(rest) <= Len(frs) /\ Len(left) <= Len(ps)
    BY <1>2, <1>6, <1>7, <1>10, <1>11
  <2>2. DeviceFrames \in Nat /\ MaxPins \in Nat
    BY DEF FramesAssumption
  <2> QED
    BY <1>1, <1>2, <1>7, <1>11, <2>1, <2>2
<1>24. DeviceSound(device')
  BY <1>1, <1>4, <1>12, <1>17, <1>18, <1>19, <1>20, <1>21, <1>22, <1>23 DEF DeviceSound
<1>25. ASSUME NEW i \in 1..Len(frs), ~(frs[i].fence <= fence)
       PROVE  \E l \in 1..Len(rest) : rest[l].fence = frs[i].fence /\ rest[l].count = frs[i].count
  <2>1. ~(i <= n) /\ i \in Nat
    BY <1>6, <1>25
  <2>2. i - n \in 1..Len(rest) /\ n + (i - n) = i
    BY <1>2, <1>6, <1>7, <2>1
  <2> QED
    BY <1>8, <2>2
<1> QED
  BY <1>4, <1>16, <1>17, <1>18, <1>24, <1>25 DEF AsItWas, old, frs
--------------------------------------------------------------------------------
(* What a frame refers to.                                                 *)
LEMMA ReferencesAre ==
    ASSUME AtlasAssumption, mine \in Submission
    PROVE  /\ IsFiniteSet(References) /\ Cardinality(References) \in Nat
           /\ References = {[page |-> mine.places[g].page, gen |-> mine.places[g].gen] :
                                g \in DOMAIN mine.places}
           /\ \A r \in References : /\ r.page \in PageSet /\ r.gen \in Nat
                                    /\ r = [page |-> r.page, gen |-> r.gen]
<1> DEFINE at == mine.places
           f == [g \in DOMAIN at |-> [page |-> at[g].page, gen |-> at[g].gen]]
<1>1. /\ IsFiniteSet(DOMAIN at)
      /\ \A g \in DOMAIN at : at[g].page \in PageSet /\ at[g].gen \in Nat
  <2>1. DOMAIN at \in SUBSET Glyphs /\ \A g \in DOMAIN at : at[g].page \in PageSet /\ at[g].gen \in Nat
    BY DEF Submission, PlaceTables
  <2>2. IsFiniteSet(Glyphs)
    BY DEF AtlasAssumption
  <2> QED
    BY <2>1, <2>2, FS_Subset
<1>2. References = {[page |-> at[g].page, gen |-> at[g].gen] : g \in DOMAIN at}
  BY DEF References
<1>3. f \in Surjection(DOMAIN at, References)
  <2>1. f \in [DOMAIN at -> References]
    BY <1>2
  <2>2. \A r \in References : \E g \in DOMAIN at : f[g] = r
    BY <1>2
  <2> QED
    BY <2>1, <2>2 DEF Surjection
<1>4. IsFiniteSet(References) /\ Cardinality(References) \in Nat
  <2> HIDE DEF f
  <2> QED
    BY <1>1, <1>3, FS_Surjection, FS_CardinalityType
<1> QED
  BY <1>1, <1>2, <1>4

(* The fence a frame waits for.                                            *)
LEMMA MaxOfFences ==
    ASSUME NEW n \in Nat, NEW A \in SUBSET (1..n), NEW v, \A i \in A : v[i] \in Nat
    PROVE  Max({0} \cup {v[i] : i \in A}) \in Nat
<1> DEFINE f == [i \in A |-> v[i]]
           S == {v[i] : i \in A}
<1>1. IsFiniteSet(A)
  BY PlacesFinite
<1>2. f \in Surjection(A, S)
  BY DEF Surjection
<1>3. IsFiniteSet(S) /\ S \in SUBSET Nat
  <2>1. S \in SUBSET Nat
    OBVIOUS
  <2> HIDE DEF f, S
  <2> QED
    BY <1>1, <1>2, <2>1, FS_Surjection
<1> HIDE DEF S
<1>4. IsFiniteSet({0} \cup S)
  BY <1>3, FS_Singleton, FS_Union
<1>5. {0} \cup S \in SUBSET Nat /\ {0} \cup S # {}
  BY <1>3
<1>6. Max({0} \cup S) \in {0} \cup S
  BY <1>4, <1>5, GreatestIs
<1> QED
  BY <1>5, <1>6 DEF S

LEMMA FencesAreNumbers ==
    ASSUME AtlasAssumption, mine \in Submission, receipts \in Seq(ReceiptRecord)
    PROVE  WaitFence \in Nat /\ \A r \in References : UploadFence(r) \in Nat
<1>1. ASSUME NEW r PROVE UploadFence(r) \in Nat
  <2> DEFINE A == {i \in 1..Len(receipts) : receipts[i].page = r.page /\ receipts[i].gen = r.gen}
             v == [i \in 1..Len(receipts) |-> receipts[i].fence]
  <2>1. Len(receipts) \in Nat /\ DOMAIN receipts = 1..Len(receipts)
        /\ \A i \in 1..Len(receipts) : receipts[i].fence \in Nat
    <3>1. \A i \in 1..Len(receipts) : receipts[i] \in ReceiptRecord
      OBVIOUS
    <3> QED
      BY <3>1 DEF ReceiptRecord
  <2>2. UploadFence(r) = Max({0} \cup {v[i] : i \in A})
    <3>1. Where(receipts, LAMBDA u : u.page = r.page /\ u.gen = r.gen) = A
      BY <2>1 DEF Where
    <3>2. \A i \in A : v[i] = receipts[i].fence
      OBVIOUS
    <3> HIDE DEF A, v
    <3>3. {receipts[i].fence : i \in A} = {v[i] : i \in A}
      BY <3>2
    <3> QED
      BY <3>1, <3>3 DEF UploadFence
  <2>3. A \in SUBSET (1..Len(receipts)) /\ \A i \in A : v[i] \in Nat
    BY <2>1
  <2> HIDE DEF A, v
  <2> QED
    BY <2>1, <2>2, <2>3, MaxOfFences
<1>2. WaitFence \in Nat
  <2> DEFINE S == {UploadFence(r) : r \in References}
             f == [r \in References |-> UploadFence(r)]
  <2>1. f \in Surjection(References, S)
    BY DEF Surjection
  <2>2. IsFiniteSet(S)
    <3> HIDE DEF f, S
    <3> QED
      BY <2>1, ReferencesAre, FS_Surjection
  <2>3. S \in SUBSET Nat
    BY <1>1
  <2> HIDE DEF S
  <2>4. IsFiniteSet({0} \cup S)
    BY <2>2, FS_Singleton, FS_Union
  <2>5. {0} \cup S \in SUBSET Nat /\ {0} \cup S # {}
    BY <2>3
  <2>6. Max({0} \cup S) \in {0} \cup S
    BY <2>4, <2>5, GreatestIs
  <2> QED
    BY <2>5, <2>6 DEF S, WaitFence
<1> QED
  BY <1>1, <1>2

(* It draws with one texture for each page.                                *)
LEMMA DrawnAre ==
    ASSUME AtlasAssumption, DeviceSound(device), mine \in Submission,
           \A r \in References : TextureOf(r) # {}
    PROVE  /\ IsFiniteSet(Drawn) /\ Drawn \subseteq 1..Len(device.textures)
           /\ Cardinality(Drawn) = Cardinality(References)
           /\ \A r \in References : \A i \in TextureOf(r) : TextureOf(r) = {i}
<1> DEFINE ts == device.textures
           h == [r \in References |-> CHOOSE i \in TextureOf(r) : TRUE]
<1>1. OneTexture(ts) /\ DOMAIN ts = 1..Len(ts)
  BY DeviceTypes DEF DeviceSound
<1>2. \A r : TextureOf(r) = {i \in 1..Len(ts) : Of(ts[i], mine.atlas, r.page, r.gen)}
  BY <1>1 DEF TextureOf, Of
<1>3. ASSUME NEW r, NEW i \in TextureOf(r) PROVE TextureOf(r) = {i}
  <2>1. \A j \in TextureOf(r) : SameTexture(ts[j], ts[i]) /\ j \in 1..Len(ts) /\ i \in 1..Len(ts)
    BY <1>2 DEF Of, SameTexture
  <2> QED
    BY <1>1, <2>1 DEF OneTexture
<1>4. ASSUME NEW r \in References PROVE TextureOf(r) = {h[r]}
  BY <1>3
<1>5. DOMAIN h = References
  OBVIOUS
<1> HIDE DEF h
<1>6. Drawn = {h[r] : r \in References}
  BY <1>4 DEF Drawn
<1>7. ASSUME NEW r \in References, NEW s \in References, h[r] = h[s] PROVE r = s
  <2>1. h[r] \in TextureOf(r) /\ h[r] \in TextureOf(s)
    BY <1>4, <1>7
  <2>2. r.page = s.page /\ r.gen = s.gen
    BY <1>2, <2>1 DEF Of
  <2> QED
    BY <2>2, ReferencesAre
<1>8. IsFiniteSet(Drawn) /\ Cardinality(Drawn) = Cardinality(References)
  BY <1>5, <1>6, <1>7, ReferencesAre, SameSize
<1>9. Drawn \subseteq 1..Len(ts)
  BY <1>2 DEF Drawn
<1> QED
  BY <1>3, <1>8, <1>9

LEMMA TexturePinned ==
    ASSUME NEW x \in TextureRecord, NextFence \in Nat
    PROVE  LET y == InFlight(x) IN
           /\ y \in TextureRecord /\ SameTexture(y, x) /\ y.born = x.born /\ y.holds = x.holds
           /\ y.ready = x.ready /\ y.resident = x.resident /\ y.pins = x.pins + 1
<1> DEFINE y == InFlight(x)
<1> SUFFICES /\ y \in TextureRecord /\ SameTexture(y, x) /\ y.born = x.born /\ y.holds = x.holds
             /\ y.ready = x.ready /\ y.resident = x.resident /\ y.pins = x.pins + 1
  OBVIOUS
<1>0. y = [x EXCEPT !.pins = x.pins + 1, !.use = NextFence]
  BY DEF InFlight
<1> HIDE DEF y, NextFence
<1>1. /\ y.atlas = x.atlas /\ y.page = x.page /\ y.gen = x.gen /\ y.born = x.born /\ y.holds = x.holds
      /\ y.ready = x.ready /\ y.resident = x.resident /\ y.pins = x.pins + 1
  BY <1>0 DEF TextureRecord
<1>2. x.pins + 1 \in Nat
  BY DEF TextureRecord
<1>3. y \in TextureRecord
  BY <1>0, <1>2 DEF TextureRecord
<1> QED
  BY <1>1, <1>3 DEF SameTexture

(* A frame goes to the device.                                             *)
LEMMA PresentKeeps ==
    ASSUME FramesAssumption, DeviceSound(device), mine \in Submission,
           receipts \in Seq(ReceiptRecord), Presentable
    PROVE  /\ DeviceSound(Presented) /\ Presented.last = NextFence /\ Presented.done = device.done
           /\ Len(Presented.frames) = Len(device.frames) + 1
           /\ \A i \in 1..Len(device.frames) : Presented.frames[i] = device.frames[i]
           /\ Presented.frames[Len(device.frames) + 1].fence = NextFence
           /\ Presented.frames[Len(device.frames) + 1].count = Cardinality(References)
           /\ Len(Presented.textures) = Len(device.textures)
           /\ \A i \in 1..Len(device.textures) : AsItWas(device.textures[i], Presented.textures[i])
<1> DEFINE old == device.textures
           frs == device.frames
           ps == device.pins
           m == Len(ps)
           l == Len(frs)
           n == Cardinality(Drawn)
           ts == [i \in DOMAIN old |-> IF i \in Drawn THEN InFlight(old[i]) ELSE old[i]]
           f == [fence |-> NextFence, wait |-> WaitFence, first |-> m, count |-> n]
           more == Append(frs, f)
           new == SetToSeq({PinOf(i) : i \in Drawn})
           q == ps \o new
<1>1. /\ device \in DeviceRecord /\ device.done <= device.last /\ Len(old) <= MaxTextures
      /\ OneTexture(old) /\ UpTo(old, device.last) /\ FencesGrow(frs, device.done, device.last)
      /\ Contiguous(frs, ps) /\ PinsHeld(old, ps) /\ PinnedStay(old, frs, ps)
  BY DEF DeviceSound
<1>2. /\ device.last \in Nat /\ device.done \in Nat /\ Len(old) \in Nat /\ l \in Nat
      /\ m \in Nat /\ DOMAIN old = 1..Len(old) /\ DOMAIN frs = 1..l
      /\ ps \in Seq(DevicePin) /\ frs \in Seq(DeviceFrame) /\ old \in Seq(TextureRecord) /\ HasCounts(frs)
      /\ \A i \in 1..Len(old) : old[i] \in TextureRecord
      /\ \A i \in 1..l : frs[i] \in DeviceFrame
      /\ \A i \in 1..m : ps[i] \in DevicePin
  BY <1>1, DeviceTypes
<1>3. AtlasAssumption /\ DeviceFrames \in Nat /\ MaxPins \in Nat
  BY DEF FramesAssumption
<1>4. /\ l < DeviceFrames /\ m + n <= MaxPins
      /\ \A r \in References : \E i \in TextureOf(r) : Ready(i)
  BY DEF Presentable
<1>5. /\ IsFiniteSet(Drawn) /\ Drawn \subseteq 1..Len(old) /\ n = Cardinality(References) /\ n \in Nat
      /\ \A i \in Drawn : Ready(i)
  <2>1. \A r \in References : TextureOf(r) # {}
    BY <1>4
  <2>2. /\ IsFiniteSet(Drawn) /\ Drawn \subseteq 1..Len(old) /\ n = Cardinality(References)
        /\ \A r \in References : \A i \in TextureOf(r) : TextureOf(r) = {i}
    BY <1>3, <2>1, DrawnAre
  <2>3. n \in Nat
    BY <1>3, <2>2, ReferencesAre
  <2>4. ASSUME NEW i \in Drawn PROVE Ready(i)
    <3>1. PICK r \in References : i \in TextureOf(r)
      BY DEF Drawn
    <3> QED
      BY <1>4, <2>2, <3>1
  <2> QED
    BY <2>2, <2>3, <2>4
<1>6. NextFence = device.last + 1 /\ NextFence \in Nat /\ WaitFence \in Nat
  BY <1>2, <1>3, FencesAreNumbers DEF NextFence
<1>7. Presented = [device EXCEPT !.textures = ts, !.frames = more, !.pins = q, !.last = NextFence]
  BY Zenon DEF Presented
<1>8. f \in DeviceFrame /\ f.fence = NextFence /\ f.wait = WaitFence /\ f.first = m /\ f.count = n
  BY <1>2, <1>5, <1>6 DEF DeviceFrame
<1> HIDE DEF f
<1>9. /\ more \in Seq(DeviceFrame) /\ Len(more) = l + 1 /\ DOMAIN more = 1..(l + 1) /\ more[l + 1] = f
      /\ \A i \in 1..l : more[i] = frs[i]
  BY <1>2, <1>8
<1>10. \A i \in 1..(l + 1) : i \in 1..l \/ i = l + 1
  BY <1>2
<1>11. /\ new \in Seq(DevicePin) /\ Len(new) = n
       /\ \A j \in 1..n : \E i \in Drawn : new[j] = PinOf(i)
       /\ \A i, j \in 1..n : new[i].texture = new[j].texture => i = j
       /\ \A i \in Drawn : \E j \in 1..n : new[j] = PinOf(i)
  <2> DEFINE g == [i \in Drawn |-> PinOf(i)]
             R == {g[i] : i \in Drawn}
  <2>1. R = {PinOf(i) : i \in Drawn}
    OBVIOUS
  <2>2. \A i \in Drawn : g[i] = PinOf(i) /\ PinOf(i).texture = i
    BY DEF PinOf
  <2>3. \A i \in Drawn : PinOf(i) \in DevicePin
    <3>1. ASSUME NEW i \in Drawn PROVE i \in Nat /\ old[i].born \in Nat /\ DrawnFrom(old[i].page) \in SUBSET Glyphs
      <4>1. i \in 1..Len(old) /\ old[i] \in TextureRecord
        BY <1>2, <1>5
      <4>2. DOMAIN mine.places \in SUBSET Glyphs
        BY DEF Submission, PlaceTables
      <4> QED
        BY <4>1, <4>2 DEF TextureRecord, DrawnFrom
    <3> QED
      BY <3>1 DEF PinOf, DevicePin
  <2>4. DOMAIN g = Drawn
    OBVIOUS
  <2> HIDE DEF g
  <2>5. \A i, j \in Drawn : g[i] = g[j] => i = j
    BY <2>2
  <2>6. IsFiniteSet(R) /\ Cardinality(R) = n
    BY <1>5, <2>4, <2>5, SameSize
  <2>7. R \in SUBSET DevicePin /\ new = SetToSeq(R)
    BY <2>1, <2>3
  <2>8. \A x \in R : \E i \in Drawn : x = PinOf(i)
    BY <2>2
  <2>9. \A i \in Drawn : PinOf(i) \in R
    BY <2>1
  <2> HIDE DEF R, new
  <2>10. /\ new \in Seq(R) /\ Len(new) = n /\ \A x \in R : \E j \in 1..n : new[j] = x
    BY <2>6, <2>7, SetInSequence
  <2>11. \A i, j \in 1..n : new[i] = new[j] => i = j
    BY <2>6, <2>7, SetInSequence
  <2>12. \A j \in 1..n : new[j] \in R
    BY <2>10
  <2>13. new \in Seq(DevicePin)
    <3>1. new \in [1..n -> DevicePin]
      BY <2>7, <2>10, <2>12
    <3> QED
      BY <1>5, <3>1
  <2>14. ASSUME NEW i \in 1..n, NEW j \in 1..n, new[i].texture = new[j].texture PROVE i = j
    <3>1. PICK a \in Drawn : new[i] = PinOf(a)
      BY <2>8, <2>12
    <3>2. PICK b \in Drawn : new[j] = PinOf(b)
      BY <2>8, <2>12
    <3>3. a = b
      BY <2>2, <2>14, <3>1, <3>2
    <3> QED
      BY <2>11, <3>1, <3>2, <3>3
  <2> QED
    BY <2>8, <2>9, <2>10, <2>12, <2>13, <2>14
<1> HIDE DEF new
<1>12. /\ q \in Seq(DevicePin) /\ Len(q) = m + n
       /\ \A j \in 1..m : q[j] = ps[j]
       /\ \A j \in 1..n : q[m + j] = new[j]
  <2>1. ps \in Seq(DevicePin) /\ new \in Seq(DevicePin) /\ Len(new) = n /\ n \in Nat /\ m = Len(ps)
        /\ m \in Nat
    BY <1>2, <1>5, <1>11
  <2> HIDE DEF n, m, ps
  <2>2. q \in Seq(DevicePin)
    BY <2>1
  <2>3. Len(q) = m + n
    BY <2>1
  <2>4. \A j \in 1..m : q[j] = ps[j]
    BY <2>1
  <2>5. \A j \in 1..n : q[m + j] = new[j]
    BY <2>1
  <2> QED
    BY <2>2, <2>3, <2>4, <2>5
<1>13. \A j \in 1..(m + n) : j \notin 1..m => j - m \in 1..n /\ m + (j - m) = j
  BY <1>2, <1>5
<1>14. /\ ts \in Seq(TextureRecord) /\ Len(ts) = Len(old)
       /\ \A i \in 1..Len(old) :
             /\ SameTexture(ts[i], old[i]) /\ ts[i].born = old[i].born /\ ts[i].holds = old[i].holds
             /\ ts[i].ready = old[i].ready /\ ts[i].resident = old[i].resident
             /\ ts[i].pins = old[i].pins + (IF i \in Drawn THEN 1 ELSE 0)
  <2>1. ASSUME NEW i \in 1..Len(old)
        PROVE  LET x == IF i \in Drawn THEN InFlight(old[i]) ELSE old[i] IN
               /\ x \in TextureRecord
               /\ SameTexture(x, old[i]) /\ x.born = old[i].born /\ x.holds = old[i].holds
               /\ x.ready = old[i].ready /\ x.resident = old[i].resident
               /\ x.pins = old[i].pins + (IF i \in Drawn THEN 1 ELSE 0)
    <3> DEFINE x == IF i \in Drawn THEN InFlight(old[i]) ELSE old[i]
    <3> SUFFICES /\ x \in TextureRecord
                 /\ SameTexture(x, old[i]) /\ x.born = old[i].born /\ x.holds = old[i].holds
                 /\ x.ready = old[i].ready /\ x.resident = old[i].resident
                 /\ x.pins = old[i].pins + (IF i \in Drawn THEN 1 ELSE 0)
      OBVIOUS
    <3>1. old[i] \in TextureRecord
      BY <1>2
    <3>2. CASE i \in Drawn
      <4>1. x = InFlight(old[i])
        BY <3>2
      <4>2. NextFence \in Nat
        BY <1>6
      <4> HIDE DEF x
      <4>3. /\ x \in TextureRecord /\ SameTexture(x, old[i]) /\ x.born = old[i].born
            /\ x.holds = old[i].holds /\ x.ready = old[i].ready /\ x.resident = old[i].resident
            /\ x.pins = old[i].pins + 1
        BY <3>1, <4>1, <4>2, TexturePinned
      <4> QED
        BY <3>2, <4>3
    <3>3. CASE i \notin Drawn
      <4>1. x = old[i]
        BY <3>3
      <4> HIDE DEF x
      <4> QED
        BY <3>1, <3>3, <4>1 DEF TextureRecord, SameTexture
    <3> QED
      BY <3>2, <3>3
  <2>2. \A i \in 1..Len(old) : ts[i] = IF i \in Drawn THEN InFlight(old[i]) ELSE old[i]
    BY <1>2
  <2>3. DOMAIN ts = 1..Len(old) /\ ts = [i \in 1..Len(old) |-> ts[i]]
    BY <1>2
  <2> HIDE DEF ts
  <2>4. ts \in Seq(TextureRecord) /\ Len(ts) = Len(old)
    <3>1. \A i \in 1..Len(old) : ts[i] \in TextureRecord
      BY <2>1, <2>2
    <3>2. ts \in [1..Len(old) -> TextureRecord]
      BY <2>3, <3>1
    <3>3. Len(old) \in Nat
      BY <1>2
    <3> QED
      BY <2>3, <3>2, <3>3
  <2>5. ASSUME NEW i \in 1..Len(old)
        PROVE  /\ SameTexture(ts[i], old[i]) /\ ts[i].born = old[i].born /\ ts[i].holds = old[i].holds
               /\ ts[i].ready = old[i].ready /\ ts[i].resident = old[i].resident
               /\ ts[i].pins = old[i].pins + (IF i \in Drawn THEN 1 ELSE 0)
    <3> DEFINE x == IF i \in Drawn THEN InFlight(old[i]) ELSE old[i]
    <3>1. ts[i] = x
      BY <2>2
    <3>2. /\ SameTexture(x, old[i]) /\ x.born = old[i].born /\ x.holds = old[i].holds
          /\ x.ready = old[i].ready /\ x.resident = old[i].resident
          /\ x.pins = old[i].pins + (IF i \in Drawn THEN 1 ELSE 0)
      BY <2>1
    <3> HIDE DEF x
    <3> QED
      BY <3>1, <3>2
  <2> QED
    BY <2>4, <2>5
<1> HIDE DEF more, q, new, ts, old, frs, ps, m, l, n
<1>15. /\ Presented \in DeviceRecord /\ Presented.textures = ts /\ Presented.frames = more
       /\ Presented.pins = q /\ Presented.last = NextFence /\ Presented.done = device.done
  <2>1. device \in DeviceRecord
    BY <1>1
  <2> QED
    BY <1>6, <1>7, <1>9, <1>12, <1>14, <2>1 DEF DeviceRecord
<1>16. OneTexture(ts) /\ UpTo(ts, NextFence)
  <2>1. OneTexture(ts)
    BY <1>1, <1>14 DEF OneTexture, SameTexture
  <2>2. \A i \in 1..Len(old) : /\ old[i].ready \in Nat /\ old[i].born \in Nat
                                /\ old[i].ready <= device.last /\ old[i].born <= device.last
    BY <1>1, <1>2 DEF UpTo, TextureRecord
  <2>3. ASSUME NEW i \in 1..Len(old) PROVE old[i].ready <= NextFence /\ old[i].born <= NextFence
    <3>1. /\ old[i].ready \in Nat /\ old[i].born \in Nat
          /\ old[i].ready <= device.last /\ old[i].born <= device.last
      BY <2>2
    <3> QED
      BY <1>2, <1>6, <3>1
  <2> QED
    BY <1>14, <2>1, <2>3 DEF UpTo
<1>17. FencesGrow(more, device.done, NextFence)
  <2>1. ASSUME NEW i \in 1..l
        PROVE  /\ frs[i].fence \in Nat /\ frs[i].fence <= device.last /\ device.done < frs[i].fence
               /\ frs[i].fence < NextFence
    <3>1. frs[i].fence \in Nat
      BY <1>2 DEF DeviceFrame
    <3>2. frs[i].fence <= device.last /\ device.done < frs[i].fence
      BY <1>1 DEF FencesGrow, l
    <3>3. device.last \in Nat /\ NextFence = device.last + 1
      BY <1>2, <1>6
    <3> QED
      BY <3>1, <3>2, <3>3
  <2>2. device.done < NextFence /\ NextFence <= NextFence
    BY <1>1, <1>2, <1>6
  <2>3. \A i \in 1..Len(more) : device.done < more[i].fence /\ more[i].fence <= NextFence
    <3> SUFFICES ASSUME NEW i \in 1..(l + 1) PROVE device.done < more[i].fence /\ more[i].fence <= NextFence
      BY <1>9
    <3>1. CASE i \in 1..l
      BY <1>6, <1>9, <2>1, <3>1
    <3>2. CASE i = l + 1
      BY <1>8, <1>9, <2>2, <3>2
    <3> QED
      BY <1>10, <3>1, <3>2
  <2>4. \A i, j \in 1..Len(more) : i < j => more[i].fence < more[j].fence
    <3> SUFFICES ASSUME NEW i \in 1..(l + 1), NEW j \in 1..(l + 1), i < j PROVE more[i].fence < more[j].fence
      BY <1>9
    <3>1. i \in 1..l
      BY <1>2
    <3>2. CASE j \in 1..l
      BY <1>1, <1>9, <3>1, <3>2 DEF FencesGrow, l
    <3>3. CASE j = l + 1
      BY <1>8, <1>9, <2>1, <3>1, <3>3
    <3> QED
      BY <1>10, <3>2, <3>3
  <2> QED
    BY <2>3, <2>4 DEF FencesGrow
<1>18. Contiguous(more, q)
  <2>1. HasCounts(more)
    <3>1. \A i \in 1..Len(more) : more[i] \in DeviceFrame
      BY <1>9
    <3> QED
      BY <1>2, <1>9, <3>1 DEF HasCounts, DeviceFrame
  <2>2. Len(ps) \in Nat /\ Contiguous(frs, ps) /\ HasCounts(frs)
    BY <1>1, <1>2 DEF m
  <2>3. /\ DOMAIN frs = 1..Len(frs) /\ DOMAIN more = 1..Len(more) /\ Len(more) = Len(frs) + 1
        /\ \A i \in 1..Len(frs) : more[i] = frs[i]
    BY <1>2, <1>9 DEF l
  <2>4. more[Len(more)].first = Len(ps) /\ Len(q) = Len(ps) + more[Len(more)].count
    BY <1>8, <1>9, <1>12 DEF m
  <2> QED
    BY <2>1, <2>2, <2>3, <2>4, ContiguousAdded
<1>19. PinsHeld(ts, q)
  <2> DEFINE key == [j \in 1..(m + n) |-> q[j].texture]
  <2>1. /\ \A j \in 1..m : j \in 1..(m + n) /\ key[j] = ps[j].texture
        /\ \A j \in 1..n : m + j \in 1..(m + n) /\ key[m + j] = new[j].texture
    <3>1. m \in Nat /\ n \in Nat
      BY <1>2, <1>5
    <3>2. /\ \A j \in 1..m : j \in 1..(m + n)
          /\ \A j \in 1..n : m + j \in 1..(m + n)
      BY <3>1
    <3> QED
      BY <1>12, <3>2
  <2>2. \A j \in 1..(m + n) : key[j] = q[j].texture
    OBVIOUS
  <2> HIDE DEF key
  <2>3. \A j \in 1..n : new[j].texture \in Drawn
    BY <1>11 DEF PinOf
  <2>4. \A i \in Drawn : \E j \in 1..n : key[m + j] = i
    <3> SUFFICES ASSUME NEW i \in Drawn PROVE \E j \in 1..n : key[m + j] = i
      OBVIOUS
    <3>1. PICK j \in 1..n : new[j] = PinOf(i)
      BY <1>11
    <3>2. new[j].texture = i
      BY <3>1 DEF PinOf
    <3> QED
      BY <2>1, <3>2
  <2>5. \A j \in 1..n : key[m + j] \in Drawn
    BY <2>1, <2>3
  <2>6. \A i, j \in 1..n : key[m + i] = key[m + j] => i = j
    BY <1>11, <2>1
  <2>9. AddsOnce(key, m, n, Drawn)
    BY <2>4, <2>5, <2>6 DEF AddsOnce
  <2>7. ASSUME NEW i \in 1..Len(old)
        PROVE  ts[i].pins = Cardinality({j \in 1..Len(q) : q[j].texture = i})
    <3>1. Times(key, m + n, i) = Times(key, m, i) + (IF i \in Drawn THEN 1 ELSE 0)
      <4>1. m \in Nat /\ n \in Nat
        BY <1>2, <1>5
      <4> QED
        BY <2>9, <4>1, PinsAdded
    <3>2. {j \in 1..(m + n) : key[j] = i} = {j \in 1..Len(q) : q[j].texture = i}
      BY <1>12, <2>2
    <3>3. {j \in 1..m : key[j] = i} = {j \in 1..m : ps[j].texture = i}
      BY <2>1
    <3>4. old[i].pins = Cardinality({j \in 1..m : ps[j].texture = i})
      BY <1>1 DEF PinsHeld, m
    <3>5. ts[i].pins = old[i].pins + (IF i \in Drawn THEN 1 ELSE 0)
      BY <1>14
    <3> QED
      BY <3>1, <3>2, <3>3, <3>4, <3>5 DEF Times
  <2>8. ASSUME NEW j \in 1..(m + n) PROVE q[j].texture \in 1..Len(old)
    <3>1. CASE j \in 1..m
      BY <1>1, <2>1, <2>2, <3>1 DEF PinsHeld, m
    <3>2. CASE j \notin 1..m
      <4>1. j - m \in 1..n /\ m + (j - m) = j
        BY <1>13, <3>2
      <4>2. q[j].texture \in Drawn
        BY <2>2, <2>5, <4>1
      <4> QED
        BY <1>5, <4>2
    <3> QED
      BY <3>1, <3>2
  <2> QED
    BY <1>12, <1>14, <2>7, <2>8 DEF PinsHeld
<1>20. PinnedStay(ts, more, q)
  <2> SUFFICES ASSUME NEW i \in 1..(l + 1), NEW j \in PinsOfFrame(more[i])
               PROVE  Drawable(ts[q[j].texture], q[j], more[i].wait)
    BY <1>9 DEF PinnedStay
  <2>1. CASE i \in 1..l
    <3>1. more[i] = frs[i]
      BY <1>9, <2>1
    <3>2. j \in 1..m
      BY <1>1, <1>2, <2>1, <3>1, PinOfFrame DEF l, m
    <3>3. q[j] = ps[j] /\ ps[j].texture \in 1..Len(old)
      BY <1>1, <1>12, <3>2 DEF PinsHeld, m
    <3>4. Drawable(old[ps[j].texture], ps[j], frs[i].wait)
      BY <1>1, <2>1, <3>1 DEF PinnedStay, l
    <3> QED
      BY <1>14, <3>1, <3>3, <3>4 DEF Drawable
  <2>2. CASE i = l + 1
    <3>1. j \in (m + 1)..(m + n)
      BY <1>8, <1>9, <2>2 DEF PinsOfFrame
    <3>2. j - m \in 1..n /\ m + (j - m) = j
      BY <1>2, <1>5, <3>1
    <3>3. q[j] = new[j - m]
      BY <1>12, <3>2
    <3>4. PICK x \in Drawn : q[j] = PinOf(x)
      BY <1>11, <3>2, <3>3
    <3>5. q[j].texture = x /\ q[j].born = old[x].born /\ x \in 1..Len(old) /\ Ready(x)
      BY <1>5, <3>4 DEF PinOf, old
    <3>6. old[x].resident \/ old[x].ready <= WaitFence
      BY <3>5 DEF Ready, old
    <3> QED
      BY <1>8, <1>9, <1>14, <2>2, <3>5, <3>6 DEF Drawable
  <2> QED
    BY <1>10, <2>1, <2>2
<1>21. Len(more) <= DeviceFrames /\ Len(q) <= MaxPins /\ device.done <= NextFence
  BY <1>1, <1>2, <1>3, <1>4, <1>6, <1>9, <1>12
<1>22. DeviceSound(Presented)
  BY <1>1, <1>14, <1>15, <1>16, <1>17, <1>18, <1>19, <1>20, <1>21 DEF DeviceSound
<1> HIDE DEF Presented
<1> QED
  BY <1>5, <1>8, <1>9, <1>14, <1>15, <1>22 DEF AsItWas, old, frs, l
--------------------------------------------------------------------------------
SchedulerFrame == [fence : Nat, first : Nat, count : Nat]
SchedulerRecord == [atlas : Nat, pages : Seq(TableRecord), frames : Seq(SchedulerFrame),
                    pins : Seq(Nat), last : Nat, done : Nat]
SchedulerSound(s) ==
    /\ s \in SchedulerRecord
    /\ Len(s.frames) <= ScheduledFrames /\ Len(s.pins) <= MaxPins
    /\ Contiguous(s.frames, s.pins) /\ TableHolds(s.pages, s.pins)

LEMMA SchedulerTypes ==
    ASSUME NEW s, s \in SchedulerRecord
    PROVE  /\ s.pages \in Seq(TableRecord) /\ s.frames \in Seq(SchedulerFrame)
           /\ s.pins \in Seq(Nat) /\ s.last \in Nat /\ s.done \in Nat /\ s.atlas \in Nat
           /\ Len(s.pages) \in Nat /\ Len(s.frames) \in Nat /\ Len(s.pins) \in Nat
           /\ DOMAIN s.pages = 1..Len(s.pages) /\ DOMAIN s.frames = 1..Len(s.frames)
           /\ DOMAIN s.pins = 1..Len(s.pins)
           /\ \A i \in 1..Len(s.pages) : s.pages[i] \in TableRecord
           /\ \A i \in 1..Len(s.frames) : s.frames[i] \in SchedulerFrame
           /\ \A i \in 1..Len(s.pins) : s.pins[i] \in Nat
           /\ HasCounts(s.frames)
<1>1. /\ s.pages \in Seq(TableRecord) /\ s.frames \in Seq(SchedulerFrame)
      /\ s.pins \in Seq(Nat) /\ s.last \in Nat /\ s.done \in Nat /\ s.atlas \in Nat
  BY DEF SchedulerRecord
<1>2. /\ Len(s.pages) \in Nat /\ Len(s.frames) \in Nat /\ Len(s.pins) \in Nat
      /\ DOMAIN s.pages = 1..Len(s.pages) /\ DOMAIN s.frames = 1..Len(s.frames)
      /\ DOMAIN s.pins = 1..Len(s.pins)
      /\ \A i \in 1..Len(s.pages) : s.pages[i] \in TableRecord
      /\ \A i \in 1..Len(s.frames) : s.frames[i] \in SchedulerFrame
      /\ \A i \in 1..Len(s.pins) : s.pins[i] \in Nat
  BY <1>1
<1>3. HasCounts(s.frames)
  BY <1>2 DEF HasCounts, SchedulerFrame
<1> QED
  BY <1>1, <1>2, <1>3

(* Without frames nothing is pinned.                                       *)
LEMMA NothingPinned ==
    ASSUME NEW s, SchedulerSound(s), s.frames = <<>>
    PROVE  s.pins = <<>> /\ Contiguous(<<>>, <<>>)
<1>1. /\ Len(s.frames) = 0 /\ HasCounts(s.frames) /\ s.pins \in Seq(Nat)
      /\ Len(s.pins) = PinsOf(s.frames, 0) /\ Contiguous(s.frames, s.pins)
  BY SchedulerTypes DEF SchedulerSound, Contiguous
<1>2. Len(s.pins) = 0
  BY <1>1, PinsOfIs
<1>3. s.pins = <<>>
  BY <1>1, <1>2
<1> QED
  BY <1>1, <1>3

LEMMA EmptyTable ==
    ASSUME MaxResident \in Nat
    PROVE  TableHolds(<<>>, <<>>)
BY DEF TableHolds, OnePage, Fit

(* The pages the frame will be scheduled with.                             *)
LEMMA SynchronizedIs ==
    ASSUME FramesAssumption, SchedulerSound(scheduler), receipts \in Seq(ReceiptRecord)
    PROVE  /\ Synchronized \in Tables
           /\ Synchronized.ok => TableHolds(Synchronized.pages, scheduler.pins)
<1> DEFINE same == scheduler.atlas \in {0, mine.atlas}
           base == [ok |-> same \/ scheduler.frames = <<>>,
                    pages |-> IF same THEN scheduler.pages ELSE <<>>]
<1>1. MaxResident \in Nat
  BY DEF FramesAssumption
<1>2. scheduler.pages \in Seq(TableRecord) /\ scheduler.pins \in Seq(Nat)
  BY SchedulerTypes DEF SchedulerSound
<1>3. Synchronized = Entering(base, receipts)
  BY DEF Synchronized
<1>4. base \in Tables /\ (base.ok => TableHolds(base.pages, scheduler.pins))
  <2>1. CASE same
    <3>1. base.pages = scheduler.pages /\ base.ok = TRUE /\ base = [ok |-> TRUE, pages |-> scheduler.pages]
      BY <2>1
    <3>2. TableHolds(scheduler.pages, scheduler.pins)
      BY DEF SchedulerSound
    <3> HIDE DEF base
    <3> QED
      BY <1>2, <3>1, <3>2 DEF Tables
  <2>2. CASE ~same
    <3>1. base.pages = <<>> /\ base.ok = (scheduler.frames = <<>>)
      BY <2>2
    <3>2. base = [ok |-> (scheduler.frames = <<>>), pages |-> <<>>]
      BY <2>2
    <3>3. base \in Tables
      <4>1. (scheduler.frames = <<>>) \in BOOLEAN /\ <<>> \in Seq(TableRecord)
        OBVIOUS
      <4> HIDE DEF base
      <4> QED
        BY <3>2, <4>1 DEF Tables
    <3>4. ASSUME scheduler.frames = <<>> PROVE TableHolds(<<>>, scheduler.pins)
      BY <1>1, <3>4, NothingPinned, EmptyTable
    <3> HIDE DEF base
    <3> QED
      BY <3>1, <3>3, <3>4
  <2> QED
    BY <2>1, <2>2
<1> HIDE DEF base
<1> QED
  BY <1>1, <1>2, <1>3, <1>4, EnteringIs

(* It uses one page for each reference.                                    *)
LEMMA UsedAre ==
    ASSUME AtlasAssumption, mine \in Submission, NEW pgs \in Seq(TableRecord), OnePage(pgs),
           Synchronized.pages = pgs, \A r \in References : Holding(pgs, r) # {}
    PROVE  /\ IsFiniteSet(UsedPages) /\ UsedPages \subseteq 1..Len(pgs)
           /\ Cardinality(UsedPages) = Cardinality(References)
<1> DEFINE h == [r \in References |-> CHOOSE i \in Holding(pgs, r) : TRUE]
<1>1. DOMAIN pgs = 1..Len(pgs)
  OBVIOUS
<1>2. ASSUME NEW r, NEW i \in Holding(pgs, r)
      PROVE  i \in 1..Len(pgs) /\ pgs[i].page = r.page /\ pgs[i].gen = r.gen
  BY <1>1, <1>2 DEF Holding, Where
<1>3. ASSUME NEW r, NEW i \in Holding(pgs, r) PROVE Holding(pgs, r) = {i}
  <2>1. \A j \in Holding(pgs, r) : pgs[j].page = pgs[i].page /\ j \in 1..Len(pgs) /\ i \in 1..Len(pgs)
    BY <1>2, <1>3
  <2> QED
    BY <1>3, <2>1 DEF OnePage
<1>4. ASSUME NEW r \in References PROVE Holding(pgs, r) = {h[r]}
  BY <1>3
<1>5. DOMAIN h = References
  OBVIOUS
<1> HIDE DEF h
<1>6. UsedPages = {h[r] : r \in References}
  BY <1>4 DEF UsedPages
<1>7. ASSUME NEW r \in References, NEW s \in References, h[r] = h[s] PROVE r = s
  <2>1. h[r] \in Holding(pgs, r) /\ h[r] \in Holding(pgs, s)
    BY <1>4, <1>7
  <2>2. r.page = s.page /\ r.gen = s.gen
    BY <1>2, <2>1
  <2> QED
    BY <2>2, ReferencesAre
<1>8. IsFiniteSet(UsedPages) /\ Cardinality(UsedPages) = Cardinality(References)
  BY <1>5, <1>6, <1>7, ReferencesAre, SameSize
<1>9. UsedPages \subseteq 1..Len(pgs)
  <2>1. ASSUME NEW r \in References PROVE h[r] \in 1..Len(pgs)
    BY <1>2, <1>4
  <2> QED
    BY <1>6, <2>1
<1> QED
  BY <1>8, <1>9

LEMMA PagePinned ==
    ASSUME NEW x \in TableRecord, NEW count \in Int, x.pins + count \in Nat
    PROVE  LET y == PinnedBy(x, count) IN
           /\ y \in TableRecord /\ y.page = x.page /\ y.gen = x.gen /\ y.ready = x.ready
           /\ y.pins = x.pins + count
<1> DEFINE y == PinnedBy(x, count)
<1> SUFFICES /\ y \in TableRecord /\ y.page = x.page /\ y.gen = x.gen /\ y.ready = x.ready
             /\ y.pins = x.pins + count
  OBVIOUS
<1>1. y = [x EXCEPT !.pins = x.pins + count]
  BY DEF PinnedBy
<1> HIDE DEF y
<1> QED
  BY <1>1 DEF TableRecord

(* A frame is recorded.                                                    *)
LEMMA PublishKeeps ==
    ASSUME FramesAssumption, SchedulerSound(scheduler), mine \in Submission,
           receipts \in Seq(ReceiptRecord), Admissible, NEW fence \in Nat
    PROVE  LET s == Scheduled(fence) IN
           /\ SchedulerSound(s) /\ s.last = fence
           /\ Len(s.frames) = Len(scheduler.frames) + 1
           /\ \A i \in 1..Len(scheduler.frames) : s.frames[i] = scheduler.frames[i]
           /\ s.frames[Len(scheduler.frames) + 1].fence = fence
           /\ s.frames[Len(scheduler.frames) + 1].count = Cardinality(References)
<1> DEFINE s == Scheduled(fence)
           old == Synchronized.pages
           frs == scheduler.frames
           ps == scheduler.pins
           m == Len(ps)
           l == Len(frs)
           n == Cardinality(References)
           ts == [i \in DOMAIN old |-> PinnedBy(old[i], IF i \in UsedPages THEN 1 ELSE 0)]
           f == [fence |-> fence, first |-> m, count |-> n]
           more == Append(frs, f)
           new == SetToSeq(UsedPages)
           q == ps \o new
<1> SUFFICES /\ SchedulerSound(s) /\ s.last = fence
             /\ Len(s.frames) = l + 1
             /\ \A i \in 1..l : s.frames[i] = frs[i]
             /\ s.frames[l + 1].fence = fence
             /\ s.frames[l + 1].count = n
  OBVIOUS
<1>1. /\ scheduler \in SchedulerRecord
      /\ Len(frs) <= ScheduledFrames /\ Len(ps) <= MaxPins
      /\ Contiguous(frs, ps)
  BY DEF SchedulerSound
<1>2. /\ l \in Nat /\ m \in Nat /\ DOMAIN frs = 1..l /\ HasCounts(frs)
      /\ ps \in Seq(Nat) /\ frs \in Seq(SchedulerFrame)
      /\ \A i \in 1..l : frs[i] \in SchedulerFrame
  BY <1>1, SchedulerTypes
<1>3. AtlasAssumption /\ ScheduledFrames \in Nat /\ MaxPins \in Nat
  BY DEF FramesAssumption
<1>4. l < ScheduledFrames /\ m + n <= MaxPins /\ \A r \in References : Holding(old, r) # {}
  BY DEF Admissible
<1>5. old \in Seq(TableRecord) /\ TableHolds(old, ps)
  <2>1. Synchronized \in Tables /\ TableHolds(old, ps)
    BY SynchronizedIs DEF Admissible
  <2> QED
    BY <2>1 DEF Tables
<1>6. IsFiniteSet(UsedPages) /\ UsedPages \subseteq 1..Len(old) /\ Cardinality(UsedPages) = n /\ n \in Nat
  <2>1. OnePage(old)
    BY <1>5 DEF TableHolds
  <2>2. n \in Nat
    BY <1>3, ReferencesAre
  <2>3. IsFiniteSet(UsedPages) /\ UsedPages \subseteq 1..Len(old) /\ Cardinality(UsedPages) = n
    BY <1>3, <1>4, <1>5, <2>1, UsedAre
  <2> QED
    BY <2>2, <2>3
<1>7. s = [scheduler EXCEPT !.atlas = mine.atlas, !.pages = ts, !.frames = more, !.pins = q, !.last = fence]
  BY Zenon DEF Scheduled
<1>8. f \in SchedulerFrame /\ f.fence = fence /\ f.first = m /\ f.count = n
  BY <1>2, <1>6 DEF SchedulerFrame
<1> HIDE DEF s, f
<1>9. /\ more \in Seq(SchedulerFrame) /\ Len(more) = l + 1 /\ DOMAIN more = 1..(l + 1) /\ more[l + 1] = f
      /\ \A i \in 1..l : more[i] = frs[i]
  BY <1>2, <1>8
<1>10. /\ new \in Seq(Nat) /\ Len(new) = n
       /\ \A j \in 1..n : new[j] \in UsedPages
       /\ \A i, j \in 1..n : new[i] = new[j] => i = j
       /\ \A x \in UsedPages : \E j \in 1..n : new[j] = x
  <2>1. /\ new \in Seq(UsedPages) /\ Len(new) = n
        /\ \A i, j \in 1..Len(new) : new[i] = new[j] => i = j
        /\ \A x \in UsedPages : \E j \in 1..Len(new) : new[j] = x
    BY <1>6, SetInSequence
  <2> HIDE DEF new, n
  <2>2. \A j \in 1..n : new[j] \in UsedPages
    BY <2>1
  <2>3. new \in [1..n -> Nat]
    <3>1. Len(old) \in Nat
      BY <1>5
    <3>2. UsedPages \subseteq Nat
      BY <1>6, <3>1
    <3>3. new \in [1..Len(new) -> UsedPages]
      BY <2>1
    <3> QED
      BY <2>1, <3>2, <3>3
  <2>4. new \in Seq(Nat)
    BY <1>6, <2>3
  <2> QED
    BY <2>1, <2>2, <2>4
<1> HIDE DEF new
<1>11. /\ q \in Seq(Nat) /\ Len(q) = m + n
       /\ \A j \in 1..m : q[j] = ps[j]
       /\ \A j \in 1..n : q[m + j] = new[j]
  <2>1. ps \in Seq(Nat) /\ new \in Seq(Nat) /\ Len(new) = n /\ n \in Nat /\ m = Len(ps) /\ m \in Nat
    BY <1>2, <1>6, <1>10
  <2> HIDE DEF n, m, ps
  <2>2. q \in Seq(Nat)
    BY <2>1
  <2>3. Len(q) = m + n
    BY <2>1, ConcatProperties
  <2>4. \A j \in 1..m : q[j] = ps[j]
    BY <2>1
  <2>5. \A j \in 1..n : q[m + j] = new[j]
    BY <2>1
  <2> QED
    BY <2>2, <2>3, <2>4, <2>5
<1>12. AddsOnce(q, m, n, UsedPages)
  BY <1>10, <1>11 DEF AddsOnce
<1>13. ASSUME NEW i \in 1..Len(old)
       PROVE  /\ ts[i] \in TableRecord /\ ts[i].page = old[i].page
              /\ ts[i].pins = old[i].pins + (IF i \in UsedPages THEN 1 ELSE 0)
  <2> DEFINE count == IF i \in UsedPages THEN 1 ELSE 0
  <2>1. count \in Nat
    OBVIOUS
  <2>2. old[i] \in TableRecord /\ ts[i] = PinnedBy(old[i], count)
    BY <1>5
  <2> HIDE DEF ts, count, old
  <2>3. count \in Int /\ old[i].pins + count \in Nat
    BY <2>1, <2>2 DEF TableRecord
  <2>4. ts[i] \in TableRecord /\ ts[i].page = old[i].page /\ ts[i].pins = old[i].pins + count
    BY <2>2, <2>3, PagePinned
  <2> QED
    BY <2>4 DEF count
<1>14. Len(ts) = Len(old) /\ ts \in Seq(TableRecord) /\ Len(old) \in Nat
  <2>1. DOMAIN ts = 1..Len(old) /\ ts = [i \in 1..Len(old) |-> ts[i]] /\ Len(old) \in Nat
    BY <1>5
  <2> HIDE DEF ts, old
  <2>2. ts \in [1..Len(old) -> TableRecord]
    BY <1>13, <2>1
  <2> QED
    BY <2>1, <2>2
<1> HIDE DEF more, q, ts, old, frs, ps, m, l, n
<1>15. /\ s \in SchedulerRecord /\ s.pages = ts /\ s.frames = more /\ s.pins = q /\ s.last = fence
  <2>1. mine.atlas \in Nat
    BY DEF Submission
  <2> QED
    BY <1>1, <1>7, <1>9, <1>11, <1>14, <2>1 DEF SchedulerRecord
<1>16. Contiguous(more, q)
  <2>1. HasCounts(more)
    <3>1. \A i \in 1..Len(more) : more[i] \in SchedulerFrame
      BY <1>9
    <3> QED
      BY <1>2, <1>9, <3>1 DEF HasCounts, SchedulerFrame
  <2>2. Len(ps) \in Nat /\ Contiguous(frs, ps) /\ HasCounts(frs)
    BY <1>1, <1>2 DEF m
  <2>3. /\ DOMAIN frs = 1..Len(frs) /\ DOMAIN more = 1..Len(more) /\ Len(more) = Len(frs) + 1
        /\ \A i \in 1..Len(frs) : more[i] = frs[i]
    BY <1>2, <1>9 DEF l
  <2>4. more[Len(more)].first = Len(ps) /\ Len(q) = Len(ps) + more[Len(more)].count
    BY <1>8, <1>9, <1>11 DEF m
  <2> QED
    BY <2>1, <2>2, <2>3, <2>4, ContiguousAdded
<1>17. TableHolds(ts, q)
  <2>1. OnePage(ts)
    BY <1>5, <1>13, <1>14 DEF TableHolds, OnePage
  <2>2. ASSUME NEW i \in 1..Len(old) PROVE ts[i].pins = Cardinality({j \in 1..Len(q) : q[j] = i})
    <3>1. m \in Nat /\ n \in Nat
      BY <1>2, <1>6
    <3>2. Times(q, m + n, i) = Times(q, m, i) + (IF i \in UsedPages THEN 1 ELSE 0)
      BY <1>12, <3>1, PinsAdded
    <3>3. {j \in 1..m : q[j] = i} = {j \in 1..m : ps[j] = i}
      BY <1>11
    <3>4. old[i].pins = Cardinality({j \in 1..m : ps[j] = i})
      BY <1>5 DEF TableHolds, Fit, m
    <3> QED
      BY <1>11, <1>13, <3>2, <3>3, <3>4 DEF Times
  <2>3. ASSUME NEW j \in 1..(m + n) PROVE q[j] \in 1..Len(old)
    <3>1. CASE j \in 1..m
      BY <1>5, <1>11, <3>1 DEF TableHolds, Fit, m
    <3>2. CASE j \notin 1..m
      <4>1. j - m \in 1..n /\ m + (j - m) = j
        BY <1>2, <1>6, <3>2
      <4>2. q[m + (j - m)] \in UsedPages
        BY <1>10, <1>11, <4>1
      <4> QED
        BY <1>6, <4>1, <4>2
    <3> QED
      BY <3>1, <3>2
  <2>4. Len(ts) <= MaxResident
    BY <1>5, <1>14 DEF TableHolds
  <2> QED
    BY <1>11, <1>14, <2>1, <2>2, <2>3, <2>4 DEF TableHolds, Fit
<1>18. Len(more) <= ScheduledFrames /\ Len(q) <= MaxPins
  BY <1>2, <1>3, <1>4, <1>9, <1>11
<1>19. SchedulerSound(s)
  BY <1>15, <1>16, <1>17, <1>18 DEF SchedulerSound
<1> QED
  BY <1>8, <1>9, <1>15, <1>19

(* Frames of the scheduler retire.                                         *)
LEMMA RetireSchedulerKeeps ==
    ASSUME FramesAssumption, SchedulerSound(scheduler), NEW fence \in Nat, RetireScheduler(fence)
    PROVE  /\ SchedulerSound(scheduler') /\ scheduler'.last = scheduler.last
           /\ \A i \in 1..Len(scheduler'.frames) : \E l \in 1..Len(scheduler.frames) :
                 /\ scheduler'.frames[i].fence = scheduler.frames[l].fence
                 /\ scheduler'.frames[i].count = scheduler.frames[l].count
<1> DEFINE old == scheduler.pages
           frs == scheduler.frames
           ps == scheduler.pins
           n == Retiring(frs, fence)
           k == PinsOf(frs, n)
           Freed(i) == Cardinality({j \in 1..k : ps[j] = i})
           ts == [i \in DOMAIN old |-> PinnedBy(old[i], -Freed(i))]
           rest == Remaining(frs, n)
           left == SubSeq(ps, k + 1, Len(ps))
<1>1. /\ scheduler \in SchedulerRecord /\ Len(frs) <= ScheduledFrames /\ Len(ps) <= MaxPins
      /\ Contiguous(frs, ps) /\ TableHolds(old, ps)
  BY DEF SchedulerSound
<1>2. /\ Len(old) \in Nat /\ Len(frs) \in Nat
      /\ Len(ps) \in Nat /\ DOMAIN old = 1..Len(old) /\ DOMAIN frs = 1..Len(frs) /\ DOMAIN ps = 1..Len(ps)
      /\ ps \in Seq(Nat) /\ HasCounts(frs)
      /\ \A i \in 1..Len(old) : old[i] \in TableRecord
      /\ \A i \in 1..Len(frs) : frs[i] \in SchedulerFrame
      /\ \A i \in 1..Len(ps) : ps[i] \in Nat
  BY <1>1, SchedulerTypes
<1>3. scheduler' = [scheduler EXCEPT !.frames = rest, !.pins = left, !.pages = ts, !.done = fence]
  BY Zenon DEF RetireScheduler
<1>5. \A i \in 1..Len(frs) : frs[i].fence \in Nat /\ frs[i].count \in Nat /\ frs[i].first \in Nat
  BY <1>2 DEF SchedulerFrame
<1> HIDE DEF old, frs, ps
<1>6. n \in 0..Len(frs) /\ n \in Nat
  <2> DEFINE S == Where(frs, LAMBDA f : f.fence <= fence)
  <2>1. S \in SUBSET (1..Len(frs)) /\ Len(frs) \in Nat
    BY <1>2 DEF Where
  <2>2. n = Cardinality(S)
    BY DEF Retiring
  <2> HIDE DEF S, n
  <2>3. n \in 0..Len(frs)
    BY <2>1, <2>2, PlacesFinite
  <2> QED
    BY <2>3
<1> HIDE DEF n
<1>7. /\ Len(rest) = Len(frs) - n /\ DOMAIN rest = 1..Len(rest) /\ Len(rest) \in Nat
      /\ \A i \in 1..Len(rest) : /\ n + i \in 1..Len(frs)
                                  /\ rest[i] = [frs[n + i] EXCEPT !.first = @ - k]
  BY <1>2, <1>6 DEF Remaining
<1> HIDE DEF rest, k
<1>8. \A i \in 1..Len(rest) : /\ rest[i].fence = frs[n + i].fence
                              /\ rest[i].count = frs[n + i].count /\ rest[i].count \in Nat
                              /\ rest[i].first = frs[n + i].first - k
  BY <1>2, <1>7 DEF SchedulerFrame
<1>9. HasCounts(rest)
  BY <1>7, <1>8 DEF HasCounts
<1>10. /\ k \in 0..Len(ps)
       /\ PinsOf(rest, Len(rest)) = Len(ps) - k
       /\ \A i \in DOMAIN rest : rest[i].first = PinsOf(rest, i - 1)
  <2>1. Len(ps) = PinsOf(frs, Len(frs)) /\ \A i \in DOMAIN frs : frs[i].first = PinsOf(frs, i - 1)
    BY <1>1 DEF Contiguous
  <2>2. \A i \in 1..Len(rest) : /\ rest[i].count = frs[n + i].count
                                /\ rest[i].first = frs[n + i].first - PinsOf(frs, n)
    BY <1>8 DEF k
  <2>3. HasCounts(frs) /\ DOMAIN frs = 1..Len(frs) /\ n \in 0..Len(frs)
    BY <1>2, <1>6
  <2>4. HasCounts(rest) /\ DOMAIN rest = 1..Len(rest) /\ Len(rest) = Len(frs) - n
    BY <1>7, <1>9
  <2>5. /\ PinsOf(frs, n) \in 0..PinsOf(frs, Len(frs))
        /\ PinsOf(rest, Len(rest)) = PinsOf(frs, Len(frs)) - PinsOf(frs, n)
        /\ \A i \in DOMAIN rest : rest[i].first = PinsOf(rest, i - 1)
    BY <2>1, <2>2, <2>3, <2>4, FramesGone
  <2> QED
    BY <2>1, <2>5 DEF k
<1>11. k \in Nat /\ left \in Seq(Nat) /\ Len(left) = Len(ps) - k
       /\ \A j \in 1..Len(left) : k + j \in 1..Len(ps) /\ left[j] = ps[k + j]
  <2>1. k \in Nat /\ k + 1 \in Int /\ Len(ps) \in Int /\ Len(ps) - k \in Nat
    BY <1>2, <1>10
  <2>2. \A j \in (k + 1)..Len(ps) : ps[j] \in Nat
    BY <1>2, <2>1
  <2>3. /\ left \in Seq(Nat)
        /\ Len(left) = IF k + 1 <= Len(ps) THEN Len(ps) - (k + 1) + 1 ELSE 0
        /\ \A j \in 1..(Len(ps) - (k + 1) + 1) : left[j] = ps[(k + 1) + j - 1]
    BY <2>1, <2>2, SubSeqProperties
  <2> HIDE DEF left
  <2>4. Len(left) = Len(ps) - k
    <3>1. Len(ps) \in Nat
      BY <1>2
    <3>2. CASE k + 1 <= Len(ps)
      BY <2>1, <2>3, <3>1, <3>2
    <3>3. CASE ~(k + 1 <= Len(ps))
      <4>1. k = Len(ps)
        BY <1>10, <2>1, <3>1, <3>3
      <4> QED
        BY <2>3, <3>1, <3>3, <4>1
    <3> QED
      BY <3>2, <3>3
  <2>5. ASSUME NEW j \in 1..(Len(ps) - k) PROVE k + j \in 1..Len(ps) /\ left[j] = ps[k + j]
    <3>1. k + j \in 1..Len(ps) /\ (k + 1) + j - 1 = k + j /\ Len(ps) - (k + 1) + 1 = Len(ps) - k
      BY <1>2, <2>1
    <3> QED
      BY <2>3, <3>1
  <2> QED
    BY <2>1, <2>3, <2>4, <2>5
<1> HIDE DEF left
<1>12. Contiguous(rest, left)
  BY <1>10, <1>11 DEF Contiguous
<1>13. rest \in Seq(SchedulerFrame)
  <2>1. ASSUME NEW i \in 1..Len(rest) PROVE rest[i] \in SchedulerFrame
    <3>1. rest[i].first = PinsOf(rest, i - 1) /\ i - 1 \in 0..Len(rest)
      BY <1>7, <1>10
    <3>2. rest[i].first \in Nat
      BY <1>9, <3>1, PinsOfIs
    <3>3. frs[n + i] \in SchedulerFrame
      BY <1>2, <1>7
    <3> QED
      BY <1>7, <1>8, <3>2, <3>3 DEF SchedulerFrame
  <2>2. rest = [i \in 1..Len(rest) |-> rest[i]]
    BY <1>7 DEF rest, Remaining
  <2> QED
    BY <1>7, <2>1, <2>2
<1>14. ASSUME NEW i \in 1..Len(old)
       PROVE  /\ Freed(i) \in Nat /\ old[i].pins - Freed(i) \in Nat
              /\ old[i].pins - Freed(i) = Cardinality({j \in 1..Len(left) : left[j] = i})
  <2> DEFINE A == {j \in 1..Len(ps) : ps[j] = i}
             gone == {j \in 1..k : j \in A}
             here == {j \in 1..(Len(ps) - k) : k + j \in A}
  <2>1. A \in SUBSET (1..Len(ps))
    OBVIOUS
  <2>2. gone = {j \in 1..k : ps[j] = i}
    BY <1>2, <1>10
  <2>3. here = {j \in 1..Len(left) : left[j] = i}
    BY <1>2, <1>11
  <2>4. old[i].pins = Cardinality(A)
    BY <1>1 DEF TableHolds, Fit
  <2>5. Cardinality(here) \in Nat
    <3>1. here \in SUBSET (1..(Len(ps) - k)) /\ Len(ps) - k \in Nat
      BY <1>2, <1>10
    <3> HIDE DEF here
    <3> QED
      BY <3>1, PlacesFinite
  <2> HIDE DEF A
  <2>6. Cardinality(here) = Cardinality(A) - Cardinality(gone) /\ Cardinality(gone) \in Nat
    BY <1>2, <1>10, <2>1, ShiftedPlaces
  <2> HIDE DEF gone, here
  <2> QED
    BY <2>2, <2>3, <2>4, <2>5, <2>6
<1> HIDE DEF Freed
<1>15. ASSUME NEW i \in 1..Len(old)
       PROVE  ts[i] \in TableRecord /\ ts[i].page = old[i].page /\ ts[i].pins = old[i].pins - Freed(i)
  <2> DEFINE c == -Freed(i)
  <2>1. ts[i] = PinnedBy(old[i], c)
    BY <1>2
  <2>2. old[i] \in TableRecord /\ old[i].pins \in Nat
    BY <1>2 DEF TableRecord
  <2>3. c \in Int /\ old[i].pins + c = old[i].pins - Freed(i)
    <3>1. Freed(i) \in Nat
      BY <1>14
    <3> QED
      BY <2>2, <3>1
  <2> HIDE DEF ts, c
  <2>4. old[i].pins + c \in Nat
    BY <1>14, <2>3
  <2>5. ts[i] \in TableRecord /\ ts[i].page = old[i].page /\ ts[i].pins = old[i].pins + c
    BY <2>1, <2>2, <2>3, <2>4, PagePinned
  <2> QED
    BY <2>3, <2>5
<1>16. Len(ts) = Len(old) /\ ts \in Seq(TableRecord)
  <2>1. ts = [i \in 1..Len(old) |-> ts[i]]
    BY <1>2
  <2> HIDE DEF ts
  <2> QED
    BY <1>2, <1>15, <2>1
<1> HIDE DEF ts
<1>17. /\ scheduler' \in SchedulerRecord /\ scheduler'.frames = rest /\ scheduler'.pins = left
       /\ scheduler'.pages = ts /\ scheduler'.last = scheduler.last
  <2>1. scheduler \in SchedulerRecord
    BY <1>1
  <2> QED
    BY <1>3, <1>11, <1>13, <1>16, <2>1 DEF SchedulerRecord
<1>18. TableHolds(ts, left)
  <2>1. OnePage(ts) /\ Len(ts) <= MaxResident
    BY <1>1, <1>15, <1>16 DEF TableHolds, OnePage
  <2>2. \A j \in 1..Len(left) : left[j] \in 1..Len(ts)
    BY <1>1, <1>11, <1>16 DEF TableHolds, Fit
  <2> QED
    BY <1>14, <1>15, <1>16, <2>1, <2>2 DEF TableHolds, Fit
<1>19. Len(rest) <= ScheduledFrames /\ Len(left) <= MaxPins
  <2>1. Len(rest) <= Len(frs) /\ Len(left) <= Len(ps)
    BY <1>2, <1>6, <1>7, <1>10, <1>11
  <2>2. ScheduledFrames \in Nat /\ MaxPins \in Nat
    BY DEF FramesAssumption
  <2> QED
    BY <1>1, <1>2, <1>7, <1>11, <2>1, <2>2
<1>20. SchedulerSound(scheduler')
  BY <1>12, <1>17, <1>18, <1>19 DEF SchedulerSound
<1> QED
  BY <1>7, <1>8, <1>17, <1>20 DEF frs

(* It is cleared.                                                          *)
LEMMA ClearSchedulerKeeps ==
    ASSUME FramesAssumption, SchedulerSound(scheduler), ClearScheduler
    PROVE  /\ SchedulerSound(scheduler') /\ scheduler'.last = scheduler.last
           /\ scheduler'.frames = scheduler.frames
<1>1. scheduler.frames = <<>> /\ scheduler' = [scheduler EXCEPT !.atlas = 0, !.pages = <<>>]
  BY DEF ClearScheduler
<1>2. scheduler.pins = <<>> /\ Contiguous(scheduler.frames, scheduler.pins)
  BY <1>1, NothingPinned DEF SchedulerSound
<1>3. scheduler \in SchedulerRecord /\ <<>> \in Seq(TableRecord)
  BY DEF SchedulerSound
<1>4. /\ scheduler' \in SchedulerRecord /\ scheduler'.pages = <<>> /\ scheduler'.frames = scheduler.frames
      /\ scheduler'.pins = scheduler.pins /\ scheduler'.last = scheduler.last
  BY <1>1, <1>3 DEF SchedulerRecord
<1>5. MaxResident \in Nat
  BY DEF FramesAssumption
<1>6. TableHolds(scheduler'.pages, scheduler'.pins)
  BY <1>2, <1>4, <1>5, EmptyTable
<1> QED
  BY <1>2, <1>4, <1>6 DEF SchedulerSound
--------------------------------------------------------------------------------
(* The inductive invariant of the frames: both tables are sound, a frame   *)
(* the scheduler has in flight is one the device has or is done with, and  *)
(* one the device was just given can still be scheduled.                   *)
Steps == {"idle", "prepared", "upload", "uploading", "uploaded", "framed", "presented"}
Answered(d, fence, count) ==
    \/ fence <= d.done
    \/ \E k \in 1..Len(d.frames) : d.frames[k].fence = fence /\ d.frames[k].count = count
ScheduledAfter(s, d) ==
    /\ s.last <= d.last
    /\ \A i \in 1..Len(s.frames) : Answered(d, s.frames[i].fence, s.frames[i].count)
UploadsInOrder ==
    IF step = "idle" THEN receipts = <<>>
    ELSE /\ Len(receipts) <= Len(Batches)
         /\ step = "upload" => Len(receipts) < Len(Batches)
CanBeScheduled == step = "presented" =>
    Admissible /\ Answered(device, device.last, Cardinality(References))
Tracked == /\ AtlasInv /\ step \in Steps /\ receipts \in Seq(ReceiptRecord)
           /\ OneGeneration(mine) /\ UploadsInOrder
FramesInv == /\ Tracked /\ DeviceSound(device) /\ SchedulerSound(scheduler)
             /\ ScheduledAfter(scheduler, device) /\ CanBeScheduled

LEMMA MineIs ==
    ASSUME FramesAssumption, AtlasInv
    PROVE  AtlasAssumption /\ Producer \in Holders /\ mine \in Submission /\ SubmissionHolds(mine)
BY DEF FramesAssumption, AtlasInv, AtlasTypes, mine

LEMMA BatchesOfMine ==
    ASSUME FramesAssumption, AtlasInv, OneGeneration(mine)
    PROVE  /\ Batches \in Seq(BatchRecord) /\ Len(Batches) \in Nat
           /\ \A i \in 1..Len(Batches) : OfPage(mine, Batches[i]) /\ Batches[i] \in BatchRecord
           /\ \A j \in DOMAIN mine.uploads : \E i \in 1..Len(Batches) : mine.uploads[j] \in Batches[i].glyphs
<1>1. mine \in Submission /\ \A i \in DOMAIN mine.uploads : mine.uploads[i] \in DOMAIN mine.places
  BY MineIs DEF SubmissionHolds
<1>2. /\ Batches \in Seq(BatchRecord) /\ \A i \in 1..Len(Batches) : OfPage(mine, Batches[i])
      /\ \A j \in DOMAIN mine.uploads : \E i \in 1..Len(Batches) : mine.uploads[j] \in Batches[i].glyphs
  BY <1>1, BatchesAre DEF Batches
<1> QED
  BY <1>2

LEMMA AdmissibleStays ==
    ASSUME mine' = mine, receipts' = receipts, scheduler' = scheduler
    PROVE  Admissible' = Admissible /\ References' = References
<1>1. References' = References
  BY DEF References
<1>2. ASSUME NEW r PROVE UploadFence(r)' = UploadFence(r)
  BY DEF UploadFence, Where
<1>3. Synchronized' = Synchronized
  BY Zenon DEF Synchronized
<1>4. ASSUME NEW pgs, NEW r PROVE Holding(pgs, r)' = Holding(pgs, r)
  BY <1>2 DEF Holding, Where
<1>5. Admissible' = Admissible
  BY <1>1, <1>3, <1>4 DEF Admissible
<1> QED
  BY <1>1, <1>5

LEMMA BatchesStay == ASSUME mine' = mine PROVE Batches' = Batches
BY Zenon DEF Batches

(* What is answered stays so.                                              *)
LEMMA StaysAnswered ==
    ASSUME NEW d, NEW c, DeviceSound(d), DeviceSound(c), d.done <= c.done,
           \A i \in 1..Len(d.frames) : Answered(c, d.frames[i].fence, d.frames[i].count),
           NEW fence \in Nat, NEW count, Answered(d, fence, count)
    PROVE  Answered(c, fence, count)
<1>1. d.done \in Nat /\ c.done \in Nat
  BY DeviceTypes DEF DeviceSound
<1>2. CASE fence <= d.done
  BY <1>1, <1>2 DEF Answered
<1>3. CASE ~(fence <= d.done)
  BY <1>3 DEF Answered
<1> QED
  BY <1>2, <1>3

LEMMA ScheduledStays ==
    ASSUME NEW s, SchedulerSound(s), NEW d, NEW c, DeviceSound(d), DeviceSound(c), d.done <= c.done,
           d.last <= c.last, ScheduledAfter(s, d),
           \A i \in 1..Len(d.frames) : Answered(c, d.frames[i].fence, d.frames[i].count)
    PROVE  ScheduledAfter(s, c)
<1>1. /\ d.last \in Nat /\ c.last \in Nat /\ s.last \in Nat
      /\ \A i \in 1..Len(s.frames) : s.frames[i].fence \in Nat
  BY DeviceTypes, SchedulerTypes DEF DeviceSound, SchedulerSound, SchedulerFrame
<1>2. s.last <= c.last
  BY <1>1 DEF ScheduledAfter
<1>3. \A i \in 1..Len(s.frames) : Answered(c, s.frames[i].fence, s.frames[i].count)
  BY <1>1, StaysAnswered DEF ScheduledAfter
<1> QED
  BY <1>2, <1>3 DEF ScheduledAfter

LEMMA SameFramesAnswered ==
    ASSUME NEW d, NEW c, DeviceSound(d), Len(c.frames) >= Len(d.frames), Len(c.frames) \in Nat,
           \A i \in 1..Len(d.frames) : c.frames[i] = d.frames[i]
    PROVE  \A i \in 1..Len(d.frames) : Answered(c, d.frames[i].fence, d.frames[i].count)
<1>1. Len(d.frames) \in Nat
  BY DeviceTypes DEF DeviceSound
<1>2. \A i \in 1..Len(d.frames) : i \in 1..Len(c.frames)
  BY <1>1
<1> QED
  BY <1>2 DEF Answered
--------------------------------------------------------------------------------
(* The steps of the producer that only move it on.                         *)
LEMMA MovesOn ==
    ASSUME FramesAssumption, FramesInv, UNCHANGED <<atlasVars, device, scheduler>>,
           step' \in Steps \ {"idle", "presented"}, step # "idle",
           receipts' = receipts \/ receipts' = <<>>,
           step' = "upload" => receipts' = receipts /\ Len(receipts) # Len(Batches)
    PROVE  FramesInv'
<1>1. UNCHANGED atlasVars /\ mine' = mine /\ device' = device /\ scheduler' = scheduler
  BY DEF atlasVars, mine
<1>2. AtlasInv'
  BY <1>1, AtlasStepKeeps DEF FramesAssumption, FramesInv, Tracked
<1>3. OneGeneration(mine)'
  BY <1>1 DEF FramesInv, Tracked, OneGeneration
<1>4. Batches' = Batches
  BY <1>1, BatchesStay
<1>5. Len(receipts) \in Nat /\ Len(Batches) \in Nat /\ receipts \in Seq(ReceiptRecord)
      /\ Len(receipts) <= Len(Batches)
  BY BatchesOfMine DEF FramesInv, Tracked, UploadsInOrder
<1>6. receipts' \in Seq(ReceiptRecord)
  <2>1. <<>> \in Seq(ReceiptRecord)
    OBVIOUS
  <2> QED
    BY <1>5, <2>1
<1>7. UploadsInOrder'
  <2>1. Len(receipts') <= Len(Batches) /\ (step' = "upload" => Len(receipts') < Len(Batches))
    BY <1>5
  <2>2. step' # "idle"
    OBVIOUS
  <2> QED
    BY <1>4, <2>1, <2>2 DEF UploadsInOrder
<1>8. CanBeScheduled'
  BY DEF CanBeScheduled
<1>9. DeviceSound(device)' /\ SchedulerSound(scheduler)' /\ ScheduledAfter(scheduler, device)'
  BY <1>1 DEF FramesInv
<1> QED
  BY <1>2, <1>3, <1>6, <1>7, <1>8, <1>9 DEF FramesInv, Tracked

(* It gives up or is done with its submission.                             *)
LEMMA NoSubmission ==
    ASSUME FramesAssumption, AtlasInv, held' = [held EXCEPT ![Producer] = Nothing], UNCHANGED cache
    PROVE  AtlasInv' /\ mine' = Nothing /\ OneGeneration(mine)'
<1>1. PrepareFails(Producer)
  BY DEF PrepareFails
<1>2. AtlasInv'
  BY <1>1, FailingKeeps DEF FramesAssumption
<1>3. mine' = Nothing
  BY DEF mine, AtlasInv, AtlasTypes, FramesAssumption
<1>4. DOMAIN Nothing.places = {}
  BY DEF Nothing, NoEntries
<1> QED
  BY <1>2, <1>3, <1>4 DEF OneGeneration

LEMMA GivingUpKeeps == ASSUME FramesAssumption, FramesInv, GiveUp PROVE FramesInv'
<1>1. /\ step' = "idle" /\ receipts' = <<>> /\ device' = device /\ scheduler' = scheduler
      /\ held' = [held EXCEPT ![Producer] = Nothing] /\ UNCHANGED cache
  BY DEF GiveUp, Goto
<1>2. AtlasInv' /\ OneGeneration(mine)'
  BY <1>1, NoSubmission DEF FramesInv, Tracked
<1>3. UploadsInOrder' /\ CanBeScheduled' /\ receipts' \in Seq(ReceiptRecord) /\ step' \in Steps
  BY <1>1 DEF UploadsInOrder, CanBeScheduled, Steps
<1>4. DeviceSound(device)' /\ SchedulerSound(scheduler)' /\ ScheduledAfter(scheduler, device)'
  BY <1>1 DEF FramesInv
<1> QED
  BY <1>2, <1>3, <1>4 DEF FramesInv, Tracked

(* What a preparation names is in the table, of the generation of its page. *)
LEMMA PreparedIs ==
    ASSUME AtlasAssumption, AtlasInv, NEW t \in Holders, NEW working \in SUBSET Glyphs,
           Prepare(t, working)
    PROVE  /\ held'[t].atlas = atlas /\ atlas' = atlas
           /\ \A g \in DOMAIN held'[t].places :
                 /\ g \in DOMAIN entries' /\ ~Empty(g) /\ held'[t].places[g] = PlaceOf(entries'[g])
                 /\ held'[t].places[g].page \in PageSet
                 /\ held'[t].places[g].gen = pages'[held'[t].places[g].page].gen
<1> DEFINE e == epoch + 1
           d == Staged(working, e)
           s == [atlas |-> atlas, at |-> e,
                 places |-> [g \in {k \in working : ~Empty(k)} |-> PlaceOf(d.entries[g])],
                 uploads |-> d.uploads]
<1>1. epoch \in Nat /\ held \in [Holders -> Submission]
  BY DEF AtlasInv, AtlasTypes, AtlasAssumption
<1>2. /\ d.ok /\ pages' = d.pages /\ entries' = d.entries
      /\ atlas' = atlas /\ held' = [held EXCEPT ![t] = s]
  BY DEF Prepare
<1>3. e \in Nat
  BY <1>1
<1>4. working \subseteq Mine(d, e)
  BY <1>2, <1>3, BeginningGood, StagedSucceeds
<1>5. held'[t] = s
  BY <1>1, <1>2
<1> HIDE DEF d, e
<1>6. /\ s.atlas = atlas /\ DOMAIN s.places = {k \in working : ~Empty(k)}
      /\ \A g \in DOMAIN s.places : s.places[g] = PlaceOf(d.entries[g])
  OBVIOUS
<1> HIDE DEF s
<1>7. TablesSound(pages', entries')
  BY PrepareKeeps DEF AtlasInv
<1>8. ASSUME NEW g \in DOMAIN s.places
      PROVE  /\ g \in DOMAIN entries' /\ ~Empty(g) /\ s.places[g] = PlaceOf(entries'[g])
             /\ s.places[g].page \in PageSet
             /\ s.places[g].gen = pages'[s.places[g].page].gen
  <2>1. g \in DOMAIN entries' /\ ~Empty(g) /\ s.places[g] = PlaceOf(entries'[g])
    BY <1>2, <1>4, <1>6 DEF Mine
  <2>2. EntryHolds(pages', entries', g)
    BY <1>7, <2>1 DEF TablesSound
  <2>3. entries'[g].page \in PageSet /\ entries'[g].gen = pages'[entries'[g].page].gen
    BY <2>1, <2>2 DEF EntryHolds, OnItsPage
  <2> QED
    BY <2>1, <2>3 DEF PlaceOf
<1> QED
  BY <1>2, <1>5, <1>6, <1>8

LEMMA SubmittingKeeps == ASSUME FramesAssumption, FramesInv, Submit PROVE FramesInv'
<1>1. /\ step = "idle" /\ step' = "prepared" /\ receipts' = receipts
      /\ device' = device /\ scheduler' = scheduler
  BY DEF Submit, Goto
<1>2. PICK working \in WorkingSets : Prepare(Producer, working)
  BY DEF Submit
<1>3. working \in SUBSET Glyphs /\ AtlasAssumption /\ Producer \in Holders
  BY DEF FramesAssumption
<1>4. AtlasInv'
  BY <1>2, <1>3, PrepareKeeps DEF FramesInv, Tracked
<1>5. mine' = held'[Producer]
  BY DEF mine
<1>6. OneGeneration(mine)'
  <2>1. \A g \in DOMAIN mine'.places : mine'.places[g].gen = pages'[mine'.places[g].page].gen
    BY <1>2, <1>3, <1>5, PreparedIs DEF FramesInv, Tracked
  <2> QED
    BY <2>1 DEF OneGeneration
<1>7. receipts = <<>>
  BY <1>1 DEF FramesInv, Tracked, UploadsInOrder
<1>8. UploadsInOrder'
  <2>1. Len(Batches') \in Nat
    <3>1. mine' \in Submission /\ \A i \in DOMAIN mine'.uploads : mine'.uploads[i] \in DOMAIN mine'.places
      BY <1>3, <1>4, <1>5 DEF AtlasInv, AtlasTypes, SubmissionHolds
    <3>2. OneGeneration(mine')
      BY <1>6 DEF OneGeneration
    <3>3. BatchesOf(mine') \in Seq(BatchRecord)
      BY <3>1, <3>2, BatchesAre
    <3>4. Batches' = BatchesOf(mine')
      BY Zenon DEF Batches
    <3> QED
      BY <3>3, <3>4
  <2>2. Len(receipts') <= Len(Batches')
    BY <1>1, <1>7, <2>1
  <2> QED
    BY <1>1, <2>2 DEF UploadsInOrder
<1>9. CanBeScheduled' /\ step' \in Steps
  BY <1>1 DEF CanBeScheduled, Steps
<1>10. /\ DeviceSound(device)' /\ SchedulerSound(scheduler)' /\ ScheduledAfter(scheduler, device)'
       /\ receipts' \in Seq(ReceiptRecord)
  BY <1>1 DEF FramesInv, Tracked
<1> QED
  BY <1>4, <1>6, <1>8, <1>9, <1>10 DEF FramesInv, Tracked

(* A batch is uploaded.                                                    *)
LEMMA UploadingIs ==
    ASSUME FramesAssumption, FramesInv, Upload
    PROVE  LET b == Batches[Len(receipts) + 1] IN
           /\ Len(receipts) + 1 \in 1..Len(Batches) /\ b \in BatchRecord /\ OfPage(mine, b)
           /\ device'.textures \in AfterUpload(b)
           /\ device' = [device EXCEPT !.textures = device'.textures, !.last = NextFence]
           /\ receipts' = Append(receipts, [page |-> b.page, gen |-> b.gen, fence |-> NextFence])
           /\ [page |-> b.page, gen |-> b.gen, fence |-> NextFence] \in ReceiptRecord
           /\ step = "upload" /\ step' = "uploading" /\ UNCHANGED <<atlasVars, scheduler>>
           /\ device'.last = device.last + 1 /\ device'.done = device.done
           /\ device'.frames = device.frames /\ device'.pins = device.pins
<1> DEFINE b == Batches[Len(receipts) + 1]
           u == [page |-> b.page, gen |-> b.gen, fence |-> NextFence]
<1>1. PICK ts \in AfterUpload(b) : device' = [device EXCEPT !.textures = ts, !.last = NextFence]
  BY DEF Upload
<1>2. /\ step = "upload" /\ step' = "uploading" /\ UNCHANGED <<atlasVars, scheduler>>
      /\ receipts' = Append(receipts, u)
  BY DEF Upload
<1>3. Len(receipts) < Len(Batches) /\ Len(receipts) \in Nat /\ Len(Batches) \in Nat
  BY <1>2, BatchesOfMine DEF FramesInv, Tracked, UploadsInOrder
<1>4. Len(receipts) + 1 \in 1..Len(Batches)
  BY <1>3
<1>5. b \in BatchRecord /\ OfPage(mine, b)
  BY <1>4, BatchesOfMine DEF FramesInv, Tracked
<1> HIDE DEF b
<1>6. device \in DeviceRecord /\ device.last \in Nat /\ NextFence = device.last + 1
  BY DeviceTypes DEF FramesInv, DeviceSound, NextFence
<1>7. /\ device'.textures = ts /\ device'.last = NextFence /\ device'.done = device.done
      /\ device'.frames = device.frames /\ device'.pins = device.pins
  BY <1>1, <1>6 DEF DeviceRecord
<1>8. u \in ReceiptRecord
  BY <1>5, <1>6 DEF BatchRecord, ReceiptRecord
<1> HIDE DEF u
<1>9. device' = [device EXCEPT !.textures = device'.textures, !.last = NextFence]
  BY <1>1, <1>7
<1> QED
  BY <1>1, <1>2, <1>4, <1>5, <1>6, <1>7, <1>8, <1>9 DEF b, u
--------------------------------------------------------------------------------
LEMMA UploadingKeeps == ASSUME FramesAssumption, FramesInv, Upload PROVE FramesInv'
<1> DEFINE b == Batches[Len(receipts) + 1]
           u == [page |-> b.page, gen |-> b.gen, fence |-> NextFence]
<1>1. /\ Len(receipts) + 1 \in 1..Len(Batches) /\ b \in BatchRecord
      /\ device'.textures \in AfterUpload(b)
      /\ device' = [device EXCEPT !.textures = device'.textures, !.last = NextFence]
      /\ receipts' = Append(receipts, u) /\ u \in ReceiptRecord
      /\ step' = "uploading" /\ UNCHANGED <<atlasVars, scheduler>>
      /\ device'.last = device.last + 1 /\ device'.done = device.done
      /\ device'.frames = device.frames
  BY UploadingIs
<1> HIDE DEF b, u
<1>2. /\ AtlasInv /\ OneGeneration(mine) /\ receipts \in Seq(ReceiptRecord) /\ mine \in Submission
      /\ DeviceSound(device) /\ MaxTextures \in Nat
  BY MineIs DEF FramesInv, Tracked, FramesAssumption
<1>3. mine' = mine /\ UNCHANGED atlasVars
  BY <1>1 DEF mine, atlasVars
<1>4. AtlasInv' /\ OneGeneration(mine)'
  <2>1. AtlasInv'
    BY <1>2, <1>3, AtlasStepKeeps DEF FramesAssumption
  <2> QED
    BY <1>2, <1>3, <2>1 DEF OneGeneration
<1>5. receipts' \in Seq(ReceiptRecord) /\ Len(receipts') = Len(receipts) + 1
  BY <1>1, <1>2
<1>6. UploadsInOrder'
  <2>1. Batches' = Batches /\ Len(receipts') <= Len(Batches)
    BY <1>1, <1>3, <1>5, BatchesStay
  <2> QED
    BY <1>1, <2>1 DEF UploadsInOrder
<1>7. DeviceSound(device')
  BY <1>1, <1>2, UploadKeeps
<1>8. ScheduledAfter(scheduler', device')
  <2>1. device.last \in Nat /\ device.done \in Nat /\ Len(device.frames) \in Nat
    BY <1>2, DeviceTypes DEF DeviceSound
  <2>2. \A i \in 1..Len(device.frames) : Answered(device', device.frames[i].fence, device.frames[i].count)
    <3>1. /\ Len(device'.frames) >= Len(device.frames) /\ Len(device'.frames) \in Nat
          /\ \A i \in 1..Len(device.frames) : device'.frames[i] = device.frames[i]
      BY <1>1, <2>1
    <3> QED
      BY <1>2, <3>1, SameFramesAnswered
  <2>3. device.done <= device'.done /\ device.last <= device'.last
    BY <1>1, <2>1
  <2>4. ScheduledAfter(scheduler, device')
    BY <1>2, <1>7, <2>2, <2>3, ScheduledStays DEF FramesInv
  <2> QED
    BY <1>1, <2>4
<1>9. SchedulerSound(scheduler)'
  BY <1>1 DEF FramesInv
<1>10. CanBeScheduled' /\ step' \in Steps
  BY <1>1 DEF CanBeScheduled, Steps
<1> QED
  BY <1>4, <1>5, <1>6, <1>7, <1>8, <1>9, <1>10 DEF FramesInv, Tracked

(* The device is given a frame.                                            *)
LEMMA PresentingKeeps == ASSUME FramesAssumption, FramesInv, SubmitFrame PROVE FramesInv'
<1>1. /\ step = "framed" /\ step' = "presented" /\ Admissible /\ Presentable /\ device' = Presented
      /\ UNCHANGED <<atlasVars, receipts, scheduler>>
  BY DEF SubmitFrame
<1>2. /\ AtlasInv /\ OneGeneration(mine) /\ receipts \in Seq(ReceiptRecord) /\ mine \in Submission
      /\ DeviceSound(device) /\ SchedulerSound(scheduler) /\ AtlasAssumption
  BY MineIs DEF FramesInv, Tracked
<1>3. mine' = mine /\ UNCHANGED atlasVars
  BY <1>1 DEF mine, atlasVars
<1>4. AtlasInv' /\ OneGeneration(mine)'
  <2>1. AtlasInv'
    BY <1>2, <1>3, AtlasStepKeeps
  <2> QED
    BY <1>2, <1>3, <2>1 DEF OneGeneration
<1>5. UploadsInOrder'
  <2>1. Batches' = Batches /\ Len(receipts) <= Len(Batches) /\ receipts' = receipts
    BY <1>1, <1>3, BatchesStay DEF FramesInv, Tracked, UploadsInOrder
  <2> QED
    BY <1>1, <2>1 DEF UploadsInOrder
<1>6. /\ DeviceSound(device') /\ device'.last = NextFence /\ device'.done = device.done
      /\ Len(device'.frames) = Len(device.frames) + 1
      /\ \A i \in 1..Len(device.frames) : device'.frames[i] = device.frames[i]
      /\ device'.frames[Len(device.frames) + 1].fence = NextFence
      /\ device'.frames[Len(device.frames) + 1].count = Cardinality(References)
  <2>1. /\ DeviceSound(Presented) /\ Presented.last = NextFence /\ Presented.done = device.done
        /\ Len(Presented.frames) = Len(device.frames) + 1
        /\ \A i \in 1..Len(device.frames) : Presented.frames[i] = device.frames[i]
        /\ Presented.frames[Len(device.frames) + 1].fence = NextFence
        /\ Presented.frames[Len(device.frames) + 1].count = Cardinality(References)
    BY <1>1, <1>2, PresentKeeps
  <2> QED
    BY <1>1, <2>1
<1>7. /\ device.last \in Nat /\ device.done \in Nat /\ Len(device.frames) \in Nat
      /\ NextFence = device.last + 1
  BY <1>2, DeviceTypes DEF DeviceSound, NextFence
<1>8. ScheduledAfter(scheduler', device')
  <2>1. Len(device'.frames) >= Len(device.frames) /\ Len(device'.frames) \in Nat
    BY <1>6, <1>7
  <2>2. \A i \in 1..Len(device.frames) : Answered(device', device.frames[i].fence, device.frames[i].count)
    BY <1>2, <1>6, <2>1, SameFramesAnswered
  <2>3. device.done <= device'.done /\ device.last <= device'.last
    BY <1>6, <1>7
  <2>4. ScheduledAfter(scheduler, device')
    BY <1>2, <1>6, <2>2, <2>3, ScheduledStays DEF FramesInv
  <2> QED
    BY <1>1, <2>4
<1>9. CanBeScheduled'
  <2>1. Admissible' /\ References' = References
    BY <1>1, <1>3, AdmissibleStays
  <2>2. Len(device.frames) + 1 \in 1..Len(device'.frames)
    BY <1>6, <1>7
  <2>3. Answered(device', device'.last, Cardinality(References))
    BY <1>6, <2>2 DEF Answered
  <2> QED
    BY <2>1, <2>3 DEF CanBeScheduled
<1>10. SchedulerSound(scheduler)' /\ receipts' \in Seq(ReceiptRecord) /\ step' \in Steps
  BY <1>1, <1>2 DEF Steps
<1> QED
  BY <1>4, <1>5, <1>6, <1>8, <1>9, <1>10 DEF FramesInv, Tracked

(* It is recorded.                                                         *)
LEMMA PublishingKeeps == ASSUME FramesAssumption, FramesInv, PublishFrame PROVE FramesInv'
<1>1. /\ step = "presented" /\ scheduler' = Scheduled(device.last) /\ step' = "idle" /\ receipts' = <<>>
      /\ held' = [held EXCEPT ![Producer] = Nothing] /\ UNCHANGED cache /\ device' = device
  BY DEF PublishFrame
<1>2. /\ Admissible /\ Answered(device, device.last, Cardinality(References))
      /\ SchedulerSound(scheduler) /\ ScheduledAfter(scheduler, device) /\ DeviceSound(device)
      /\ receipts \in Seq(ReceiptRecord) /\ AtlasInv /\ mine \in Submission
  BY <1>1, MineIs DEF FramesInv, Tracked, CanBeScheduled
<1>3. device.last \in Nat
  BY <1>2, DeviceTypes DEF DeviceSound
<1>4. AtlasInv' /\ OneGeneration(mine)'
  BY <1>1, <1>2, NoSubmission
<1>5. UploadsInOrder' /\ CanBeScheduled' /\ receipts' \in Seq(ReceiptRecord) /\ step' \in Steps
  BY <1>1 DEF UploadsInOrder, CanBeScheduled, Steps
<1> DEFINE s == Scheduled(device.last)
           l == Len(scheduler.frames)
<1>6. /\ SchedulerSound(s) /\ s.last = device.last
      /\ Len(s.frames) = l + 1
      /\ \A i \in 1..l : s.frames[i] = scheduler.frames[i]
      /\ s.frames[l + 1].fence = device.last
      /\ s.frames[l + 1].count = Cardinality(References)
  BY <1>2, <1>3, PublishKeeps
<1>7. l \in Nat
  BY <1>2, SchedulerTypes DEF SchedulerSound
<1> HIDE DEF s, l
<1>8. ScheduledAfter(s, device)
  <2>1. s.last <= device.last
    BY <1>3, <1>6
  <2>2. ASSUME NEW i \in 1..(l + 1) PROVE Answered(device, s.frames[i].fence, s.frames[i].count)
    <3>1. CASE i \in 1..l
      BY <1>2, <1>6, <3>1 DEF ScheduledAfter, l
    <3>2. CASE i = l + 1
      BY <1>2, <1>6, <3>2
    <3> QED
      BY <1>7, <3>1, <3>2
  <2> QED
    BY <1>6, <2>1, <2>2 DEF ScheduledAfter
<1>9. DeviceSound(device)' /\ SchedulerSound(scheduler)' /\ ScheduledAfter(scheduler, device)'
  BY <1>1, <1>2, <1>6, <1>8 DEF s
<1> QED
  BY <1>4, <1>5, <1>9 DEF FramesInv, Tracked

(* Frames retire on the device, ...                                        *)
LEMMA RetiringDeviceKeeps ==
    ASSUME FramesAssumption, FramesInv, NEW fence, RetireDevice(fence) PROVE FramesInv'
<1>1. UNCHANGED <<atlasVars, step, receipts, scheduler>>
  BY Zenon DEF RetireDevice
<1>2. /\ AtlasInv /\ OneGeneration(mine) /\ receipts \in Seq(ReceiptRecord) /\ mine \in Submission
      /\ DeviceSound(device) /\ SchedulerSound(scheduler) /\ AtlasAssumption
      /\ ScheduledAfter(scheduler, device) /\ step \in Steps /\ UploadsInOrder /\ CanBeScheduled
  BY MineIs DEF FramesInv, Tracked
<1>3. /\ DeviceSound(device') /\ device'.last = device.last /\ device.done < device'.done
      /\ \A i \in 1..Len(device.frames) : Answered(device', device.frames[i].fence, device.frames[i].count)
  BY <1>2, RetireDeviceKeeps DEF Answered
<1>4. mine' = mine /\ UNCHANGED atlasVars
  BY <1>1 DEF mine, atlasVars
<1>5. AtlasInv' /\ OneGeneration(mine)'
  <2>1. AtlasInv'
    BY <1>2, <1>4, AtlasStepKeeps
  <2> QED
    BY <1>2, <1>4, <2>1 DEF OneGeneration
<1>6. UploadsInOrder'
  BY <1>1, <1>2, <1>4, BatchesStay DEF UploadsInOrder
<1>7. device.done \in Nat /\ device'.done \in Nat /\ device.last \in Nat
  BY <1>2, <1>3, DeviceTypes DEF DeviceSound
<1>8. ScheduledAfter(scheduler', device')
  <2>1. device.done <= device'.done /\ device.last <= device'.last
    BY <1>3, <1>7
  <2>2. ScheduledAfter(scheduler, device')
    BY <1>2, <1>3, <2>1, ScheduledStays
  <2> QED
    BY <1>1, <2>2
<1>9. CanBeScheduled'
  <2> SUFFICES ASSUME step = "presented"
               PROVE  Admissible' /\ Answered(device', device'.last, Cardinality(References'))
    BY <1>1 DEF CanBeScheduled
  <2>1. Admissible' = Admissible /\ References' = References
    BY <1>1, <1>4, AdmissibleStays
  <2>2. Admissible /\ Answered(device, device.last, Cardinality(References))
    BY <1>2 DEF CanBeScheduled
  <2>3. device.done <= device'.done
    BY <1>3, <1>7
  <2>4. Answered(device', device.last, Cardinality(References))
    BY <1>2, <1>3, <1>7, <2>2, <2>3, StaysAnswered
  <2> QED
    BY <1>3, <2>1, <2>2, <2>4
<1>10. SchedulerSound(scheduler)' /\ receipts' \in Seq(ReceiptRecord) /\ step' \in Steps
  BY <1>1, <1>2
<1> QED
  BY <1>3, <1>5, <1>6, <1>8, <1>9, <1>10 DEF FramesInv, Tracked

(* ... or in the scheduler, which may be cleared.                          *)
LEMMA SchedulerMovesKeep ==
    ASSUME FramesAssumption, FramesInv, step # "presented", SchedulerSound(scheduler'),
           scheduler'.last = scheduler.last,
           \A i \in 1..Len(scheduler'.frames) : \E l \in 1..Len(scheduler.frames) :
              /\ scheduler'.frames[i].fence = scheduler.frames[l].fence
              /\ scheduler'.frames[i].count = scheduler.frames[l].count,
           UNCHANGED <<atlasVars, step, receipts, device>>
    PROVE  FramesInv'
<1>1. /\ AtlasInv /\ OneGeneration(mine) /\ receipts \in Seq(ReceiptRecord)
      /\ DeviceSound(device) /\ AtlasAssumption
      /\ ScheduledAfter(scheduler, device) /\ step \in Steps /\ UploadsInOrder
  BY MineIs DEF FramesInv, Tracked
<1>2. mine' = mine /\ UNCHANGED atlasVars
  BY DEF mine, atlasVars
<1>3. AtlasInv' /\ OneGeneration(mine)'
  <2>1. AtlasInv'
    BY <1>1, <1>2, AtlasStepKeeps
  <2> QED
    BY <1>1, <1>2, <2>1 DEF OneGeneration
<1>4. UploadsInOrder'
  BY <1>1, <1>2, BatchesStay DEF UploadsInOrder
<1>5. ScheduledAfter(scheduler', device)
  <2>1. \A i \in 1..Len(scheduler'.frames) :
           Answered(device, scheduler'.frames[i].fence, scheduler'.frames[i].count)
    BY <1>1 DEF ScheduledAfter
  <2> QED
    BY <1>1, <2>1 DEF ScheduledAfter
<1>6. CanBeScheduled'
  BY DEF CanBeScheduled
<1>7. ScheduledAfter(scheduler, device)' /\ DeviceSound(device)' /\ receipts' \in Seq(ReceiptRecord) /\ step' \in Steps
  BY <1>1, <1>5
<1> QED
  BY <1>3, <1>4, <1>6, <1>7 DEF FramesInv, Tracked

LEMMA ClearedKeeps ==
    ASSUME FramesAssumption, FramesInv, Clear \/ UNCHANGED atlasVars, UNCHANGED frameVars
    PROVE  FramesInv'
<1>1. /\ AtlasInv /\ OneGeneration(mine) /\ receipts \in Seq(ReceiptRecord)
      /\ DeviceSound(device) /\ SchedulerSound(scheduler) /\ AtlasAssumption
      /\ ScheduledAfter(scheduler, device) /\ step \in Steps /\ UploadsInOrder /\ CanBeScheduled
  BY MineIs DEF FramesInv, Tracked
<1>2. step' = step /\ receipts' = receipts /\ device' = device /\ scheduler' = scheduler
  BY DEF frameVars
<1>3. mine' = mine
  BY DEF mine, Clear, atlasVars
<1>4. AtlasInv' /\ OneGeneration(mine)'
  <2>1. AtlasInv'
    BY <1>1, AtlasStepKeeps DEF AtlasNext
  <2> QED
    BY <1>1, <1>3, <2>1 DEF OneGeneration
<1>5. UploadsInOrder'
  BY <1>1, <1>2, <1>3, BatchesStay DEF UploadsInOrder
<1>6. CanBeScheduled'
  BY <1>1, <1>2, <1>3, AdmissibleStays DEF CanBeScheduled
<1>7. /\ ScheduledAfter(scheduler, device)' /\ DeviceSound(device)' /\ SchedulerSound(scheduler)'
      /\ receipts' \in Seq(ReceiptRecord) /\ step' \in Steps
  BY <1>1, <1>2
<1> QED
  BY <1>4, <1>5, <1>6, <1>7 DEF FramesInv, Tracked

LEMMA FramesInitially == ASSUME FramesAssumption, FramesInit PROVE FramesInv
<1>1. /\ AtlasAssumption /\ MaxTextures \in Nat /\ DeviceFrames \in Nat /\ ScheduledFrames \in Nat
      /\ MaxResident \in Nat /\ MaxPins \in Nat /\ Producer \in Holders
  BY DEF FramesAssumption
<1>2. AtlasInv
  BY <1>1, AtlasInitially DEF FramesInit
<1>3. /\ step = "idle" /\ receipts = <<>>
      /\ device = [textures |-> <<>>, frames |-> <<>>, pins |-> <<>>, last |-> 0, done |-> 0]
      /\ scheduler = [atlas |-> 0, pages |-> <<>>, frames |-> <<>>, pins |-> <<>>,
                      last |-> 0, done |-> 0]
  BY DEF FramesInit
<1>4. OneGeneration(mine)
  <2>1. mine = Nothing /\ DOMAIN Nothing.places = {}
    BY <1>1 DEF FramesInit, AtlasInit, mine, Nothing, NoEntries
  <2> QED
    BY <2>1 DEF OneGeneration
<1>5. Contiguous(<<>>, <<>>)
  <2>1. HasCounts(<<>>) /\ Len(<<>>) = 0 /\ DOMAIN <<>> = {}
    BY DEF HasCounts
  <2>2. PinsOf(<<>>, 0) = 0
    BY <2>1, PinsOfIs
  <2> QED
    BY <2>1, <2>2 DEF Contiguous
<1>6. DeviceSound(device)
  <2>1. device \in DeviceRecord
    BY <1>3 DEF DeviceRecord
  <2>2. OneTexture(<<>>) /\ UpTo(<<>>, 0) /\ FencesGrow(<<>>, 0, 0) /\ PinsHeld(<<>>, <<>>)
        /\ PinnedStay(<<>>, <<>>, <<>>)
    BY DEF OneTexture, UpTo, FencesGrow, PinsHeld, PinnedStay
  <2> QED
    BY <1>1, <1>3, <1>5, <2>1, <2>2 DEF DeviceSound
<1>7. SchedulerSound(scheduler)
  <2>1. scheduler \in SchedulerRecord
    BY <1>3 DEF SchedulerRecord
  <2> QED
    BY <1>1, <1>3, <1>5, <2>1, EmptyTable DEF SchedulerSound
<1>8. ScheduledAfter(scheduler, device) /\ CanBeScheduled /\ UploadsInOrder /\ step \in Steps
  BY <1>3 DEF ScheduledAfter, CanBeScheduled, UploadsInOrder, Steps
<1>9. receipts \in Seq(ReceiptRecord)
  BY <1>3
<1> QED
  BY <1>2, <1>4, <1>6, <1>7, <1>8, <1>9 DEF FramesInv, Tracked

LEMMA FramesStepKeeps ==
    ASSUME FramesAssumption, FramesInv, [FramesNext]_allVars PROVE FramesInv'
<1>1. CASE Submit
  BY <1>1, SubmittingKeeps
<1>2. CASE GiveUp
  BY <1>2, GivingUpKeeps
<1>3. CASE CheckUploads
  <2>1. CASE Current(mine) /\ Goto(IF Len(receipts) = Len(Batches) THEN "uploaded" ELSE "upload")
             /\ UNCHANGED <<atlasVars, receipts>>
    <3>1. /\ UNCHANGED <<atlasVars, device, scheduler>> /\ receipts' = receipts
          /\ step' = IF Len(receipts) = Len(Batches) THEN "uploaded" ELSE "upload"
          /\ step # "idle"
      BY <1>3, <2>1 DEF Goto, CheckUploads
    <3> QED
      BY <3>1, MovesOn DEF Steps
  <2> QED
    BY <1>2, <1>3, <2>1 DEF CheckUploads
<1>4. CASE Upload
  BY <1>4, UploadingKeeps
<1>5. CASE UploadRefused
  <2>1. CASE Goto("prepared") /\ receipts' = <<>> /\ UNCHANGED atlasVars
    <3>1. UNCHANGED <<atlasVars, device, scheduler>> /\ receipts' = <<>> /\ step' = "prepared" /\ step # "idle"
      BY <1>5, <2>1 DEF Goto, UploadRefused
    <3> QED
      BY <3>1, MovesOn DEF Steps
  <2> QED
    BY <1>2, <1>5, <2>1 DEF UploadRefused
<1>6. CASE BeginFrame
  <2>1. CASE Goto("framed") /\ UNCHANGED <<atlasVars, receipts>>
    <3>1. UNCHANGED <<atlasVars, device, scheduler>> /\ receipts' = receipts /\ step' = "framed" /\ step # "idle"
      BY <1>6, <2>1 DEF Goto, BeginFrame
    <3> QED
      BY <3>1, MovesOn DEF Steps
  <2> QED
    BY <1>2, <1>6, <2>1 DEF BeginFrame
<1>7. CASE SubmitFrame
  BY <1>7, PresentingKeeps
<1>8. CASE FrameRefused
  <2>1. CASE Goto("uploaded") /\ UNCHANGED <<atlasVars, receipts>>
    <3>1. UNCHANGED <<atlasVars, device, scheduler>> /\ receipts' = receipts /\ step' = "uploaded" /\ step # "idle"
      BY <1>8, <2>1 DEF Goto, FrameRefused
    <3> QED
      BY <3>1, MovesOn DEF Steps
  <2> QED
    BY <1>2, <1>8, <2>1 DEF FrameRefused
<1>9. CASE PublishFrame
  BY <1>9, PublishingKeeps
<1>10. CASE Orphan
  BY <1>2, <1>10 DEF Orphan
<1>11. ASSUME NEW f \in 1..MaxFence, RetireDevice(f) PROVE FramesInv'
  BY <1>11, RetiringDeviceKeeps
<1>12. ASSUME NEW f \in 1..MaxFence, RetireScheduler(f) PROVE FramesInv'
  <2>1. f \in Nat
    BY DEF FramesAssumption
  <2>2. step # "presented" /\ UNCHANGED <<atlasVars, step, receipts, device>>
    BY <1>12, Zenon DEF RetireScheduler
  <2>3. /\ SchedulerSound(scheduler') /\ scheduler'.last = scheduler.last
        /\ \A i \in 1..Len(scheduler'.frames) : \E l \in 1..Len(scheduler.frames) :
              /\ scheduler'.frames[i].fence = scheduler.frames[l].fence
              /\ scheduler'.frames[i].count = scheduler.frames[l].count
    BY <1>12, <2>1, RetireSchedulerKeeps DEF FramesInv
  <2> QED
    BY <2>2, <2>3, SchedulerMovesKeep
<1>13. CASE ClearScheduler
  <2>1. step # "presented" /\ UNCHANGED <<atlasVars, step, receipts, device>>
    BY <1>13, Zenon DEF ClearScheduler
  <2>2. /\ SchedulerSound(scheduler') /\ scheduler'.last = scheduler.last
        /\ scheduler'.frames = scheduler.frames
    BY <1>13, ClearSchedulerKeeps DEF FramesInv
  <2> QED
    BY <2>1, <2>2, SchedulerMovesKeep
<1>14. CASE Clear /\ UNCHANGED frameVars
  BY <1>14, ClearedKeeps
<1>15. CASE UNCHANGED allVars
  BY <1>15, ClearedKeeps DEF allVars
<1> QED
  BY <1>1, <1>3, <1>4, <1>5, <1>6, <1>7, <1>8, <1>9, <1>10, <1>11, <1>12, <1>13, <1>14, <1>15 DEF FramesNext
--------------------------------------------------------------------------------
(* The inductive invariant of the frames holds.                            *)
THEOREM FramesInvariant == ASSUME FramesAssumption PROVE FramesSpec => []FramesInv
<1>1. FramesInit => FramesInv
  BY FramesInitially
<1>2. FramesInv /\ [FramesNext]_allVars => FramesInv'
  BY FramesStepKeeps
<1> QED
  BY <1>1, <1>2, PTL DEF FramesSpec

LEMMA PinsAreExact ==
    ASSUME FramesAssumption, FramesInv
    PROVE  PinsExact
<1>1. /\ DeviceSound(device) /\ SchedulerSound(scheduler)
      /\ DOMAIN device.textures = 1..Len(device.textures) /\ DOMAIN device.pins = 1..Len(device.pins)
      /\ DOMAIN scheduler.pages = 1..Len(scheduler.pages) /\ DOMAIN scheduler.pins = 1..Len(scheduler.pins)
  BY DeviceTypes, SchedulerTypes DEF FramesInv, DeviceSound, SchedulerSound
<1>2. ASSUME NEW i \in DOMAIN device.textures
      PROVE  device.textures[i].pins = Cardinality(Where(device.pins, LAMBDA p : p.texture = i))
  <2>1. device.textures[i].pins = Cardinality({j \in 1..Len(device.pins) : device.pins[j].texture = i})
    BY <1>1 DEF DeviceSound, PinsHeld
  <2>2. Where(device.pins, LAMBDA p : p.texture = i) = {j \in 1..Len(device.pins) : device.pins[j].texture = i}
    BY <1>1 DEF Where
  <2> QED
    BY <2>1, <2>2
<1>3. ASSUME NEW i \in DOMAIN scheduler.pages
      PROVE  scheduler.pages[i].pins = Cardinality(Where(scheduler.pins, LAMBDA p : p = i))
  <2>1. scheduler.pages[i].pins = Cardinality({j \in 1..Len(scheduler.pins) : scheduler.pins[j] = i})
    BY <1>1 DEF SchedulerSound, TableHolds, Fit
  <2>2. Where(scheduler.pins, LAMBDA p : p = i) = {j \in 1..Len(scheduler.pins) : scheduler.pins[j] = i}
    BY <1>1 DEF Where
  <2> QED
    BY <2>1, <2>2
<1> QED
  BY <1>1, <1>2, <1>3 DEF PinsExact, DeviceSound, SchedulerSound

LEMMA FramesAreExact ==
    ASSUME FramesAssumption, FramesInv
    PROVE  FramesTypeOK /\ ScheduledIsPresented
<1>1. /\ DeviceSound(device) /\ SchedulerSound(scheduler) /\ ScheduledAfter(scheduler, device)
      /\ AtlasInv /\ step \in Steps /\ AtlasAssumption
  BY DEF FramesInv, Tracked, FramesAssumption
<1>2. AtlasTypeOK
  BY <1>1, InvIsExact
<1>3. /\ device.textures \in Seq(TextureRecord) /\ device.frames \in Seq(DeviceFrame)
      /\ scheduler.frames \in Seq(SchedulerFrame)
      /\ DOMAIN device.frames = 1..Len(device.frames) /\ DOMAIN scheduler.frames = 1..Len(scheduler.frames)
      /\ DOMAIN device.textures = 1..Len(device.textures)
  BY <1>1, DeviceTypes, SchedulerTypes DEF DeviceSound, SchedulerSound
<1>4. \A x \in Range(device.textures) : x.holds \subseteq Glyphs /\ x.ready <= device.last
  <2> TAKE x \in Range(device.textures)
  <2>1. PICK i \in 1..Len(device.textures) : x = device.textures[i]
    BY <1>3 DEF Range
  <2>2. x \in TextureRecord
    BY <1>3, <2>1
  <2> QED
    BY <1>1, <2>1, <2>2 DEF TextureRecord, DeviceSound, UpTo
<1>5. ScheduledIsPresented
  <2> SUFFICES ASSUME NEW f \in Range(scheduler.frames), ~(f.fence <= device.done)
               PROVE  \E d \in Range(device.frames) : d.fence = f.fence /\ d.count = f.count
    BY DEF ScheduledIsPresented
  <2>1. PICK i \in 1..Len(scheduler.frames) : f = scheduler.frames[i]
    BY <1>3 DEF Range
  <2>2. PICK k \in 1..Len(device.frames) : device.frames[k].fence = f.fence /\ device.frames[k].count = f.count
    BY <1>1, <2>1 DEF ScheduledAfter, Answered
  <2>3. device.frames[k] \in Range(device.frames)
    BY <1>3 DEF Range
  <2> QED
    BY <2>2, <2>3
<1>6. Len(scheduler.pages) <= MaxResident
  BY <1>1 DEF SchedulerSound, TableHolds
<1>7. /\ device.done <= device.last /\ scheduler.last <= device.last
      /\ Len(device.textures) <= MaxTextures /\ Len(device.frames) <= DeviceFrames
      /\ Len(scheduler.frames) <= ScheduledFrames
      /\ Len(device.pins) <= MaxPins /\ Len(scheduler.pins) <= MaxPins
  BY <1>1 DEF DeviceSound, SchedulerSound, ScheduledAfter
<1> QED
  BY <1>1, <1>2, <1>4, <1>5, <1>6, <1>7 DEF FramesTypeOK, Steps

(* Fences grow and nothing outgrows its limit; the pins both tables keep   *)
(* are those of the frames in flight, one behind the other, and the counts *)
(* that retirement subtracts are theirs; and a frame the scheduler waits   *)
(* for is one the device was given, whatever was refused or given up.      *)
THEOREM FramesAreAccounted ==
    ASSUME FramesAssumption
    PROVE  FramesSpec => [](FramesTypeOK /\ PinsExact /\ ScheduledIsPresented)
<1>1. FramesInv => FramesTypeOK /\ PinsExact /\ ScheduledIsPresented
  BY PinsAreExact, FramesAreExact
<1> QED
  BY <1>1, FramesInvariant, PTL
--------------------------------------------------------------------------------
(* What a frame in flight pins stays as it is: an upload writes or gives    *)
(* up idle textures only, and what is pinned is counted and so not idle;   *)
(* frames that come and go change the counts.                              *)
PinnedKept == \A j \in 1..Len(device.pins) :
    AsItWas(device.textures[device.pins[j].texture], device'.textures[device.pins[j].texture])

LEMMA IdleChange ==
    ASSUME NEW b, NEW ts \in AfterUpload(b), device.textures \in Seq(TextureRecord),
           NEW i \in 1..Len(device.textures), device.textures[i].pins # 0
    PROVE  ts[i] = device.textures[i]
<1> DEFINE old == device.textures
<1>1. DOMAIN old = 1..Len(old) /\ Len(old) \in Nat
  OBVIOUS
<1>2. i \notin Idle
  BY DEF Idle, Where
<1> HIDE DEF old
<1>3. CASE TextureOf(b) # {}
  <2>1. PICK k \in TextureOf(b) \cap Idle : ts = [old EXCEPT ![k] = Uploaded(@, b)]
    BY <1>3 DEF AfterUpload, old
  <2> QED
    BY <1>1, <1>2, <2>1 DEF old
<1>4. CASE TextureOf(b) = {} /\ Len(old) < MaxTextures
  <2>1. ts = Append(old, NewTexture(b))
    BY <1>4 DEF AfterUpload, old
  <2>2. old \in Seq(TextureRecord \cup {NewTexture(b)})
    BY DEF old
  <2> HIDE DEF NewTexture
  <2> QED
    BY <1>1, <2>1, <2>2 DEF old
<1>5. CASE TextureOf(b) = {} /\ ~(Len(old) < MaxTextures)
  <2>1. PICK k \in Evicted : ts = [old EXCEPT ![k] = NewTexture(b)]
    BY <1>5 DEF AfterUpload, old
  <2>2. k \in Idle
    BY DEF Evicted
  <2> QED
    BY <1>1, <1>2, <2>1, <2>2 DEF old
<1> QED
  BY <1>3, <1>4, <1>5

LEMMA UploadingSpares ==
    ASSUME FramesAssumption, FramesInv, Upload PROVE PinnedKept
<1> DEFINE b == Batches[Len(receipts) + 1]
<1>1. device'.textures \in AfterUpload(b)
  BY UploadingIs
<1>2. /\ device.textures \in Seq(TextureRecord) /\ Len(device.pins) \in Nat
      /\ PinsHeld(device.textures, device.pins)
  BY DeviceTypes DEF FramesInv, DeviceSound
<1> HIDE DEF b
<1> SUFFICES ASSUME NEW j \in 1..Len(device.pins)
             PROVE  AsItWas(device.textures[device.pins[j].texture],
                            device'.textures[device.pins[j].texture])
  BY DEF PinnedKept
<1>3. device.pins[j].texture \in 1..Len(device.textures)
  BY <1>2 DEF PinsHeld
<1>4. device.textures[device.pins[j].texture].pins # 0
  BY <1>2, PinnedIsCounted
<1>5. device'.textures[device.pins[j].texture] = device.textures[device.pins[j].texture]
  BY <1>1, <1>2, <1>3, <1>4, IdleChange
<1> QED
  BY <1>5 DEF AsItWas, SameTexture

LEMMA PresentingSpares ==
    ASSUME FramesAssumption, FramesInv, SubmitFrame PROVE PinnedKept
<1>1. device' = Presented /\ Presentable
  BY DEF SubmitFrame
<1>2. DeviceSound(device) /\ PinsHeld(device.textures, device.pins)
  BY DEF FramesInv, DeviceSound
<1>3. \A i \in 1..Len(device.textures) : AsItWas(device.textures[i], Presented.textures[i])
  BY <1>1, <1>2, MineIs, PresentKeeps DEF FramesInv, Tracked
<1> HIDE DEF Presented
<1> QED
  BY <1>1, <1>2, <1>3 DEF PinnedKept, PinsHeld

LEMMA RetiringSpares ==
    ASSUME FramesAssumption, FramesInv, NEW fence, RetireDevice(fence) PROVE PinnedKept
<1>1. DeviceSound(device) /\ PinsHeld(device.textures, device.pins)
  BY DEF FramesInv, DeviceSound
<1>2. \A i \in 1..Len(device.textures) : AsItWas(device.textures[i], device'.textures[i])
  BY <1>1, RetireDeviceKeeps
<1> QED
  BY <1>1, <1>2 DEF PinnedKept, PinsHeld

LEMMA FramesStepSpares ==
    ASSUME FramesAssumption, FramesInv, [FramesNext]_allVars PROVE PinnedKept
<1>1. CASE Upload
  BY <1>1, UploadingSpares
<1>2. CASE SubmitFrame
  BY <1>2, PresentingSpares
<1>3. CASE \E f \in 1..MaxFence : RetireDevice(f)
  BY <1>3, RetiringSpares
<1>4. CASE device' = device
  BY <1>4 DEF PinnedKept, AsItWas, SameTexture
<1>5. ASSUME NEW f, RetireScheduler(f) PROVE device' = device
  BY <1>5, Zenon DEF RetireScheduler
<1>6. ASSUME Submit \/ CheckUploads \/ UploadRefused \/ BeginFrame \/ FrameRefused
             \/ PublishFrame \/ Orphan \/ ClearScheduler \/ (Clear /\ UNCHANGED frameVars)
      PROVE  device' = device
  <2>1. Goto("idle") \/ Goto("prepared") \/ Goto("upload") \/ Goto("uploaded") \/ Goto("framed")
        \/ UNCHANGED device
    BY <1>6 DEF Submit, CheckUploads, UploadRefused, BeginFrame, FrameRefused, PublishFrame, Orphan,
                ClearScheduler, GiveUp, frameVars
  <2> QED
    BY <2>1 DEF Goto
<1>7. CASE UNCHANGED allVars
  BY <1>4, <1>7 DEF allVars, frameVars
<1> QED
  BY <1>1, <1>2, <1>3, <1>4, <1>5, <1>6, <1>7 DEF FramesNext

LEMMA FramesKeepTheirPins == ASSUME FramesInv PROVE PinnedIsReady
<1>1. /\ DeviceSound(device) /\ HasCounts(device.frames)
      /\ DOMAIN device.frames = 1..Len(device.frames)
  BY DeviceTypes DEF FramesInv, DeviceSound
<1> SUFFICES ASSUME NEW f \in Range(device.frames), NEW j \in (f.first + 1)..(f.first + f.count)
             PROVE  LET pin == device.pins[j]
                        x == device.textures[pin.texture]
                    IN x.born = pin.born /\ (x.resident \/ x.ready <= f.wait)
  BY DEF PinnedIsReady
<1>2. PICK i \in 1..Len(device.frames) : f = device.frames[i]
  BY <1>1 DEF Range
<1>3. j \in PinsOfFrame(device.frames[i])
  BY <1>2 DEF PinsOfFrame
<1>4. Drawable(device.textures[device.pins[j].texture], device.pins[j], f.wait)
  BY <1>1, <1>2, <1>3 DEF DeviceSound, PinnedStay
<1> QED
  BY <1>4 DEF Drawable

(* Whatever the atlas clears, the renderer gives up, the device has to     *)
(* replace for want of textures, or retires: a frame in flight has the     *)
(* textures it pinned, filled no later than the fence it waits for, and no *)
(* step writes to them or puts another page in their place.                *)
THEOREM PinnedStaysAsItIs ==
    ASSUME FramesAssumption
    PROVE  FramesSpec => []PinnedIsReady /\ PinnedUntouched
<1> DEFINE Spared == \A j \in DOMAIN device.pins :
                      LET i == device.pins[j].texture
                          x == device.textures[i]
                          y == device'.textures[i]
                      IN /\ y.atlas = x.atlas /\ y.page = x.page /\ y.gen = x.gen
                         /\ y.born = x.born /\ y.ready = x.ready /\ y.holds = x.holds
<1>1. FramesInv => PinnedIsReady
  BY FramesKeepTheirPins
<1>2. FramesInv /\ [FramesNext]_allVars => Spared
  <2> SUFFICES ASSUME FramesInv, [FramesNext]_allVars PROVE Spared
    OBVIOUS
  <2>1. DOMAIN device.pins = 1..Len(device.pins)
    BY DeviceTypes DEF FramesInv, DeviceSound
  <2> QED
    BY <2>1, FramesStepSpares DEF PinnedKept, AsItWas, SameTexture
<1>3. FramesInv /\ [FramesNext]_allVars => [Spared]_allVars
  BY <1>2
<1>4. PinnedUntouched <=> [][Spared]_allVars
  BY DEF PinnedUntouched
<1> HIDE DEF Spared
<1> QED
  BY <1>1, <1>3, <1>4, FramesInvariant, PTL DEF FramesSpec
================================================================================
