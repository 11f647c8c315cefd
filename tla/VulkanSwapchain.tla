------------------------------- MODULE VulkanSwapchain -------------------------------
(* VulkanNativeWindowSwapchainApi (native_window_swapchain_vulkan.cpp) with the   *)
(* driver under it.  An image slot is leased to the caller; a frame slot carries *)
(* the fence, the command pool and the acquire semaphore of one lease, from the *)
(* acquire until its fence is retired.  Image and frame part at the present: the *)
(* image returns to the presentation engine and may be leased again while the    *)
(* old frame still flies.                                                      *)
(*                                                                            *)
(* One mutex covers each call; calls that change nothing but counters of         *)
(* rejections are left out, surfaces are their generation, bytes are not         *)
(* modelled.                                                                    *)
EXTENDS Naturals, FiniteSets

CONSTANTS ImageCounts,      \* images the driver may make of a swapchain
          MaxFrames, MaxGeneration, MaxAcquires, MaxOpens

VulkanAssumption ==
    /\ ImageCounts \subseteq Nat \ {0}
    /\ MaxFrames \in Nat \ {0}
    /\ {MaxGeneration, MaxAcquires, MaxOpens} \subseteq Nat

VARIABLES configured, opens, generation, surface, pending, outOfDate, lost,
          imageCount,
          images,      \* acquired, frame and serial of an image slot
          frames,      \* acquired, fence value (0: not in flight), VkFence, semaphore
          engine,      \* images the presentation engine may give out
          nextSerial, nextFence, acquired, inFlight, submitted, completed,
          tokens, presents

conf == <<configured, opens, generation, surface, pending, imageCount>>
flags == <<outOfDate, lost>>
fences == <<nextFence, submitted, completed>>
history == <<nextSerial, tokens, presents>>
vars == <<conf, flags, images, frames, engine, acquired, inFlight, fences, history>>

FrameSlots == 0..MaxFrames - 1
Serials == 1..MaxAcquires
NoImage == [acquired |-> FALSE, frame |-> 0, serial |-> 0]
NoFrame == [acquired |-> FALSE, image |-> 0, value |-> 0, fence |-> "signaled", available |-> FALSE]
FreshImages(n) == [i \in 0..n - 1 |-> NoImage]
FreshFrames == [f \in FrameSlots |-> NoFrame]

Init ==
    /\ configured = FALSE /\ opens = 0
    /\ generation = 0 /\ surface = 0 /\ pending = 0
    /\ imageCount = 0
    /\ outOfDate = FALSE /\ lost = FALSE
    /\ images = FreshImages(0)
    /\ frames = FreshFrames
    /\ engine = {}
    /\ nextSerial = 1 /\ nextFence = 1
    /\ acquired = 0 /\ inFlight = 0
    /\ submitted = 0 /\ completed = 0
    /\ tokens = {}
    /\ presents = [s \in Serials |-> 0]

-----------------------------------------------------------------------------
(* Configuration.  Every failure destroys what was staged and changes nothing;   *)
(* a recreation waits for the device before the old ring is destroyed.          *)

Rebuilt(n) ==
    /\ imageCount' = n
    /\ images' = FreshImages(n)
    /\ frames' = FreshFrames
    /\ engine' = 0..n - 1
    /\ acquired' = 0 /\ inFlight' = 0
    /\ UNCHANGED <<fences, history>>

Publish(g, s) ==
    /\ \E n \in ImageCounts : Rebuilt(n)
    /\ configured' = TRUE
    /\ generation' = g
    /\ surface' = s
    /\ pending' = 0
    /\ outOfDate' = FALSE /\ lost' = FALSE

Configure(g, s) ==
    /\ ~configured
    /\ opens < MaxOpens
    /\ opens' = opens + 1
    /\ Publish(g, s)

RequestResize(s) ==
    /\ configured
    /\ s > surface
    /\ pending' = s
    /\ outOfDate' = TRUE
    /\ UNCHANGED <<configured, opens, generation, surface, imageCount, lost, images, frames,
                   engine, acquired, inFlight, fences, history>>

DrainedOfLeases == acquired = 0   \* wrong on purpose
Drained == acquired = 0 /\ inFlight = 0

Recreate(g) ==
    /\ configured /\ outOfDate
    /\ pending # 0
    /\ Drained
    /\ g > generation
    /\ Publish(g, pending)
    /\ UNCHANGED opens

Shutdown ==
    /\ configured
    /\ configured' = FALSE
    /\ Rebuilt(0)
    /\ UNCHANGED <<opens, generation, surface, pending, flags>>

-----------------------------------------------------------------------------
(* Acquire.                                                                   *)

MayAcquire == configured /\ ~lost /\ ~outOfDate /\ acquired + inFlight < MaxFrames

Free(f) == ~frames[f].acquired /\ frames[f].value = 0
FirstFree(f) == Free(f) /\ \A e \in FrameSlots : Free(e) => f <= e

Acquire(i) ==
    /\ MayAcquire
    /\ nextSerial <= MaxAcquires
    /\ i \in engine
    /\ \E f \in FrameSlots :
         /\ FirstFree(f)
         /\ images' = [images EXCEPT ![i] = [acquired |-> TRUE, frame |-> f, serial |-> nextSerial]]
         /\ frames' = [frames EXCEPT ![f].acquired = TRUE, ![f].image = i, ![f].available = TRUE]
    /\ engine' = engine \ {i}
    /\ tokens' = tokens \cup {[image |-> i, serial |-> nextSerial, generation |-> generation]}
    /\ nextSerial' = nextSerial + 1
    /\ acquired' = acquired + 1
    /\ UNCHANGED <<conf, flags, inFlight, fences, presents>>

Marks(result) ==
    /\ outOfDate' = (outOfDate \/ result = "OutOfDate")
    /\ lost' = (lost \/ result = "DeviceLost")

AcquireFails(result) ==
    /\ MayAcquire
    /\ Marks(result)
    /\ UNCHANGED <<conf, images, frames, engine, acquired, inFlight, fences, history>>

-----------------------------------------------------------------------------
(* Present.                                                                   *)

Owned(t) ==
    /\ t.image < imageCount
    /\ images[t.image].acquired
    /\ t.generation = generation
    /\ t.serial = images[t.image].serial

FrameOf(t) == images[t.image].frame

Counted == acquired' = acquired - 1

MayPresent(t) ==
    /\ configured
    /\ Owned(t)
    /\ inFlight < MaxFrames
    /\ frames[FrameOf(t)].acquired
    /\ frames[FrameOf(t)].value = 0

(* The fence has been reset when a pool, a buffer, the encoding or the          *)
(* submission fails; the lease stays as it was.                                *)
PresentFailsEarly(t, result) ==
    /\ MayPresent(t)
    /\ frames' = [frames EXCEPT ![FrameOf(t)].fence = "reset"]
    /\ Marks(result)
    /\ UNCHANGED <<conf, images, engine, acquired, inFlight, fences, history>>

(* What is presented from a pixel buffer is waited for before the image goes to   *)
(* the queue.  Where that wait fails, the device has the work and the acquire     *)
(* semaphore, the caller keeps the lease, and nothing is marked.                  *)
PresentWaitFails(t) ==
    /\ MayPresent(t)
    /\ frames' = [frames EXCEPT ![FrameOf(t)].fence = "pending", ![FrameOf(t)].available = FALSE]
    /\ UNCHANGED <<conf, flags, images, engine, acquired, inFlight, fences, history>>

Submitted(frame) ==
    [frame EXCEPT !.acquired = FALSE, !.value = nextFence,
                  !.fence = "pending", !.available = FALSE]

(* Once submitted, the frame flies whatever the queue says of the present; only   *)
(* an error other than out of date keeps the image from the engine.              *)
Present(t, result) ==
    /\ MayPresent(t)
    /\ frames' = [frames EXCEPT ![FrameOf(t)] = Submitted(@)]
    /\ images' = [images EXCEPT ![t.image].acquired = FALSE]
    /\ engine' = IF result \in {"Presented", "OutOfDate"} THEN engine \cup {t.image} ELSE engine
    /\ presents' = [presents EXCEPT ![t.serial] = @ + 1]
    /\ Counted
    /\ inFlight' = inFlight + 1
    /\ submitted' = nextFence
    /\ nextFence' = nextFence + 1
    /\ Marks(result)
    /\ UNCHANGED <<conf, completed, nextSerial, tokens>>

-----------------------------------------------------------------------------
(* Retire: the frames due are waited for in the order of their slots, up to the   *)
(* first wait that fails.                                                       *)

InTimeline(v) == v \in completed..submitted

DueAlone(v) == {f \in FrameSlots : frames[f].value = v /\ v > 0}   \* wrong on purpose
Due(v) == {f \in FrameSlots : frames[f].value \in 1..v}

WaitedFor(frame) == [frame EXCEPT !.value = 0, !.fence = "signaled"]

RetireFrames(F) ==
    /\ frames' = [f \in FrameSlots |-> IF f \in F THEN WaitedFor(frames[f]) ELSE frames[f]]
    /\ inFlight' = inFlight - Cardinality(F)
    /\ UNCHANGED <<conf, images, engine, acquired, nextFence, submitted, history>>

RetireCompleted(v) ==
    /\ configured
    /\ InTimeline(v)
    /\ RetireFrames(Due(v))
    /\ completed' = v
    /\ UNCHANGED flags

RetireFails(v, f, result) ==
    /\ configured
    /\ InTimeline(v)
    /\ f \in Due(v)
    /\ RetireFrames({e \in Due(v) : e < f})
    /\ Marks(result)
    /\ UNCHANGED completed

Next ==
    \/ \E g \in 1..MaxGeneration :
        \/ \E s \in 1..MaxGeneration : Configure(g, s)
        \/ Recreate(g)
    \/ \E s \in 1..MaxGeneration : RequestResize(s)
    \/ Shutdown
    \/ \E i \in engine : Acquire(i)
    \/ \E result \in {"OutOfDate", "DeviceLost"} : AcquireFails(result)
    \/ \E t \in tokens :
        \/ \E result \in {"Failed", "DeviceLost"} : PresentFailsEarly(t, result)
        \/ PresentWaitFails(t)
        \/ \E result \in {"Presented", "OutOfDate", "DeviceLost", "Failed"} : Present(t, result)
    \/ \E v \in 0..MaxAcquires :
        \/ RetireCompleted(v)
        \/ \E f \in FrameSlots, result \in {"Failed", "DeviceLost"} : RetireFails(v, f, result)

Spec == Init /\ [][Next]_vars

-----------------------------------------------------------------------------
(* Properties.                                                                *)

Leased == {i \in DOMAIN images : images[i].acquired}
Taken == {images[i].serial : i \in Leased}
Flying == {frames[f].value : f \in FrameSlots} \ {0}

VulkanTypeOK ==
    /\ {configured, outOfDate, lost} \subseteq BOOLEAN
    /\ opens \in 0..MaxOpens
    /\ {generation, surface, pending} \subseteq 0..MaxGeneration
    /\ imageCount \in ImageCounts \cup {0}
    /\ images \in [0..imageCount - 1 -> [acquired : BOOLEAN, frame : FrameSlots, serial : 0..MaxAcquires]]
    /\ frames \in [FrameSlots -> [acquired : BOOLEAN, image : Nat, value : 0..MaxAcquires,
                                  fence : {"signaled", "reset", "pending"}, available : BOOLEAN]]
    /\ engine \subseteq 0..imageCount - 1
    /\ nextSerial \in 1..MaxAcquires + 1
    /\ {acquired, inFlight} \subseteq 0..MaxFrames
    /\ {completed, submitted} \subseteq Nat /\ nextFence \in 1..MaxAcquires + 1
    /\ completed <= submitted /\ submitted < nextFence
    /\ tokens \subseteq [image : Nat, serial : Serials, generation : 0..MaxGeneration]
    /\ presents \in [Serials -> Nat]

(* The counters acquire and recreate are decided by are the state of the slots.   *)
CountsExact ==
    /\ acquired = Cardinality(Leased)
    /\ inFlight = Cardinality(Flying)

(* Every leased image has a frame slot of its own, and every acquired frame slot   *)
(* its image, although a leased image may still be named by an older frame.      *)
LeaseHasItsFrame ==
    /\ \A i \in Leased : LET f == images[i].frame IN frames[f].acquired /\ frames[f].image = i
    /\ \A f \in FrameSlots : frames[f].acquired => images[frames[f].image].frame = f

(* A lease can be submitted as long as its acquire semaphore has not been handed  *)
(* to the device: its fence and pool are then not in use.  A frame that is free   *)
(* can always be given a new acquire.  Only a lease whose present could not wait  *)
(* for its pixels is neither.                                                    *)
FreshIsReady ==
    \A f \in FrameSlots :
        /\ frames[f].available => frames[f].acquired /\ frames[f].value = 0
        /\ frames[f].available \/ Free(f) => frames[f].fence # "pending"

(* Work that is submitted waits on the semaphore its image was acquired with, and *)
(* its fence is reset: no lease has a semaphore that will not be signalled, nor   *)
(* is the fence of a frame that does not fly in use.                              *)
FrameReady ==
    \A f \in FrameSlots :
        /\ frames[f].value = 0 => frames[f].fence # "pending"
        /\ frames[f].available <=> frames[f].acquired

(* A present is accepted only from the holder of a lease and ends that lease: a   *)
(* token from before a recreation, a reopening or a later acquire ends nobody's. *)
OnlyTheLeaseIsPresented ==
    [][\A s \in Serials : presents'[s] # presents[s] => s \in Taken /\ s \notin Taken']_vars

(* What has been retired does not fly, even when a wait failed half way.          *)
RetiredHasLanded == \A f \in Flying : completed < f /\ f <= submitted

(* What calls are decided by is the state of the slots, every lease has a frame   *)
(* of its own, a fresh lease can be submitted and a free frame leased, and what   *)
(* was retired does not fly.                                                     *)
SlotsAgree == CountsExact /\ LeaseHasItsFrame /\ FreshIsReady /\ RetiredHasLanded

(* The swapchain keeps the promise of FrameLeases.                              *)
Leases == INSTANCE FrameLeases WITH
    open <- configured, ring <- generation, taken <- Taken, flying <- Flying,
    given <- nextSerial - 1, fenced <- nextFence - 1
KeepsLeases == Leases!Spec
================================================================================
