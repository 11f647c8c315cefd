------------------------------- MODULE WindowSwapchain -------------------------------
(* ReferenceNativeWindowSwapchainApi (native_window_swapchain.cpp): the lifecycle *)
(* every backend certifies against.  One mutex covers each call, so a call is a  *)
(* step; rejected calls change nothing but counters left out here.  The window's *)
(* answers (acquire and present statuses, occlusion, loss) may be anything; the  *)
(* caller may present any token it was ever given.                              *)
(*                                                                            *)
(* A surface is its generation and its bytes per image.                         *)
EXTENDS Naturals, FiniteSets

CONSTANTS ImageCount, MaxFrames,
          Sizes,            \* bytes of one image
          MaxImageBytes,    \* the largest image the byte budgets allow
          MaxGeneration,    \* bound: swapchain and surface generations
          MaxAcquires,      \* bound: acquire serials
          MaxOpens          \* bound: configurations

Images == 0..ImageCount - 1
Surfaces == [generation : 1..MaxGeneration, bytes : Sizes]
NoSurface == [generation |-> 0, bytes |-> 0]

SwapchainAssumption ==
    /\ ImageCount \in Nat \ {0}
    /\ MaxFrames \in 1..ImageCount
    /\ Sizes \subseteq Nat \ {0}
    /\ {MaxImageBytes, MaxGeneration, MaxAcquires, MaxOpens} \subseteq Nat

VARIABLES configured, opens,
          generation, surface, pending,  \* config, pending_surface
          outOfDate, occluded, lost,
          slots,                         \* acquired, serial and fence of an image
          nextImage, nextSerial, nextFence,
          acquired, inFlight, inFlightBytes,
          submitted, completed,          \* last_submitted / completed fence
          tokens,                        \* the images handed to the caller
          presents                       \* history: accepted presents by serial

conf == <<configured, opens, generation, surface, pending>>
flags == <<outOfDate, occluded, lost>>
counts == <<acquired, inFlight, inFlightBytes>>
fences == <<nextFence, submitted, completed>>
lease == <<slots, nextImage, nextSerial, tokens, presents>>
vars == <<conf, flags, counts, fences, lease>>

Serials == 1..MaxAcquires
Empty == [acquired |-> FALSE, serial |-> 0, fence |-> 0]

Init ==
    /\ configured = FALSE /\ opens = 0
    /\ generation = 0 /\ surface = NoSurface /\ pending = NoSurface
    /\ outOfDate = FALSE /\ occluded = FALSE /\ lost = FALSE
    /\ slots = [i \in Images |-> Empty]
    /\ nextImage = 0 /\ nextSerial = 1 /\ nextFence = 1
    /\ acquired = 0 /\ inFlight = 0 /\ inFlightBytes = 0
    /\ submitted = 0 /\ completed = 0
    /\ tokens = {}
    /\ presents = [s \in Serials |-> 0]

ResetImages ==
    /\ slots' = [i \in Images |-> Empty]
    /\ acquired' = 0 /\ inFlight' = 0 /\ inFlightBytes' = 0
    /\ nextImage' = 0
    /\ UNCHANGED <<nextSerial, nextFence, tokens, presents>>

-----------------------------------------------------------------------------
(* Configuration.                                                             *)

WithinBudget(s) == s.bytes <= MaxImageBytes

Publish(g, s) ==
    /\ ResetImages
    /\ configured' = TRUE
    /\ generation' = g
    /\ surface' = s
    /\ pending' = NoSurface
    /\ outOfDate' = FALSE /\ occluded' = FALSE /\ lost' = FALSE
    /\ UNCHANGED <<submitted, completed>>

Configure(g, s) ==
    /\ ~configured
    /\ opens < MaxOpens
    /\ WithinBudget(s)
    /\ opens' = opens + 1
    /\ Publish(g, s)

RequestResize(s) ==
    /\ configured
    /\ s.generation > surface.generation
    /\ WithinBudget(s)
    /\ pending' = s
    /\ outOfDate' = TRUE
    /\ UNCHANGED <<configured, opens, generation, surface, occluded, lost, counts, fences, lease>>

Drained == acquired = 0 /\ inFlight = 0

(* The caller's new configuration carries the pending surface and a newer       *)
(* swapchain generation, or it is turned away as stale.                         *)
Recreate(g) ==
    /\ configured /\ outOfDate
    /\ pending # NoSurface
    /\ Drained
    /\ g > generation
    /\ Publish(g, pending)
    /\ UNCHANGED opens

Shutdown ==
    /\ ResetImages
    /\ configured' = FALSE
    /\ generation' = 0 /\ surface' = NoSurface /\ pending' = NoSurface
    /\ outOfDate' = FALSE /\ occluded' = FALSE /\ lost' = FALSE
    /\ submitted' = 0 /\ completed' = 0
    /\ UNCHANGED opens

-----------------------------------------------------------------------------
(* The window's own events, told by an acquire, a present or from outside.      *)

Marks(status) ==
    /\ outOfDate' = (outOfDate \/ status = "OutOfDate")
    /\ occluded' = (occluded \/ status = "Occluded")
    /\ lost' = (lost \/ status = "DeviceLost")

SetOccluded(b) ==
    /\ occluded' = b
    /\ UNCHANGED <<conf, outOfDate, lost, counts, fences, lease>>

SetDeviceLost(b) ==
    /\ lost' = b
    /\ UNCHANGED <<conf, outOfDate, occluded, counts, fences, lease>>

-----------------------------------------------------------------------------
(* Acquire.                                                                   *)

HasRoom == acquired + inFlight < MaxFrames

MayAcquire == configured /\ ~lost /\ ~outOfDate /\ ~occluded /\ HasRoom

Free(i) == ~slots[i].acquired /\ slots[i].fence = 0

Turn(i) == (i + ImageCount - nextImage) % ImageCount

Grant(i) ==
    /\ Free(i)
    /\ \A j \in Images : Free(j) => Turn(i) <= Turn(j)
    /\ nextImage' = (i + 1) % ImageCount
    /\ slots' = [slots EXCEPT ![i].acquired = TRUE, ![i].serial = nextSerial]
    /\ tokens' = tokens \cup {[image |-> i, serial |-> nextSerial, generation |-> generation]}
    /\ nextSerial' = nextSerial + 1
    /\ acquired' = acquired + 1

Acquire ==
    /\ MayAcquire
    /\ nextSerial <= MaxAcquires
    /\ \E i \in Images : Grant(i)
    /\ UNCHANGED <<conf, flags, inFlight, inFlightBytes, fences, presents>>

AcquireToldOtherwise(status) ==
    /\ MayAcquire
    /\ Marks(status)
    /\ UNCHANGED <<conf, counts, fences, lease>>

-----------------------------------------------------------------------------
(* Present and retire.                                                        *)

OwnedBySlot(t) == slots[t.image].acquired /\ t.generation = generation   \* wrong on purpose

Owned(t) ==
    /\ slots[t.image].acquired
    /\ t.generation = generation
    /\ t.serial = slots[t.image].serial

Answered(t) ==
    /\ presents' = [presents EXCEPT ![t.serial] = @ + 1]
    /\ acquired' = acquired - 1
    /\ UNCHANGED <<nextImage, nextSerial, tokens>>

GivenBack(t) ==
    /\ slots' = [slots EXCEPT ![t.image].acquired = FALSE]
    /\ Answered(t)
    /\ UNCHANGED <<conf, inFlight, inFlightBytes, fences>>

SkipNoDamage(t) ==
    /\ configured
    /\ Owned(t)
    /\ GivenBack(t)
    /\ UNCHANGED flags

StatusOf(requested) ==
    IF lost THEN "DeviceLost"
    ELSE IF outOfDate THEN "OutOfDate"
    ELSE IF occluded THEN "Occluded" ELSE requested

PresentRefused(t, requested) ==
    /\ configured
    /\ Owned(t)
    /\ StatusOf(requested) # "Presented"
    /\ GivenBack(t)
    /\ Marks(StatusOf(requested))

Present(t) ==
    /\ configured
    /\ Owned(t)
    /\ StatusOf("Presented") = "Presented"
    /\ slots' = [slots EXCEPT ![t.image].acquired = FALSE, ![t.image].fence = nextFence]
    /\ Answered(t)
    /\ inFlight' = inFlight + 1
    /\ inFlightBytes' = inFlightBytes + surface.bytes
    /\ submitted' = nextFence
    /\ nextFence' = nextFence + 1
    /\ UNCHANGED <<conf, flags, completed>>

Landed(v) == {i \in Images : slots[i].fence \in 1..v}

RetireCompleted(v) ==
    /\ v \in completed..submitted
    /\ slots' = [i \in Images |->
                    IF i \in Landed(v) THEN [slots[i] EXCEPT !.fence = 0] ELSE slots[i]]
    /\ inFlight' = inFlight - Cardinality(Landed(v))
    /\ inFlightBytes' = inFlightBytes - Cardinality(Landed(v)) * surface.bytes
    /\ completed' = v
    /\ UNCHANGED <<conf, flags, acquired, nextImage, nextSerial, tokens, presents, nextFence, submitted>>

Next ==
    \/ \E g \in 1..MaxGeneration :
        \/ \E s \in Surfaces : Configure(g, s)
        \/ Recreate(g)
    \/ \E s \in Surfaces : RequestResize(s)
    \/ Shutdown
    \/ \E b \in BOOLEAN : SetOccluded(b) \/ SetDeviceLost(b)
    \/ Acquire
    \/ \E status \in {"NotReady", "OutOfDate", "Occluded", "DeviceLost"} : AcquireToldOtherwise(status)
    \/ \E t \in tokens :
        \/ SkipNoDamage(t)
        \/ \E requested \in {"Presented", "OutOfDate", "Occluded", "DeviceLost"} :
             PresentRefused(t, requested)
        \/ Present(t)
    \/ \E v \in 0..MaxAcquires : RetireCompleted(v)

Spec == Init /\ [][Next]_vars

-----------------------------------------------------------------------------
(* Properties.                                                                *)

Taken == {slots[i].serial : i \in {j \in Images : slots[j].acquired}}
Flying == {slots[i].fence : i \in Images} \ {0}

SwapchainTypeOK ==
    /\ {configured, outOfDate, occluded, lost} \subseteq BOOLEAN
    /\ opens \in 0..MaxOpens
    /\ generation \in 0..MaxGeneration
    /\ {surface, pending} \subseteq Surfaces \cup {NoSurface}
    /\ slots \in [Images -> [acquired : BOOLEAN, serial : 0..MaxAcquires, fence : 0..MaxAcquires]]
    /\ nextImage \in Images
    /\ nextSerial \in 1..MaxAcquires + 1
    /\ {acquired, inFlight} \subseteq 0..MaxFrames
    /\ inFlightBytes \in Nat
    /\ {completed, submitted} \subseteq Nat /\ nextFence \in 1..MaxAcquires + 1
    /\ completed <= submitted /\ submitted < nextFence
    /\ tokens \subseteq [image : Images, serial : Serials, generation : 1..MaxGeneration]
    /\ presents \in [Serials -> Nat]

(* The counters the guards of acquire and recreate read are the slots' own state, *)
(* and the bytes are those of the surface now configured.                        *)
CountsExact ==
    /\ acquired = Cardinality({i \in Images : slots[i].acquired})
    /\ inFlight = Cardinality({i \in Images : slots[i].fence # 0})
    /\ inFlightBytes = inFlight * surface.bytes

(* A present is accepted only from the holder of a lease, and ends that lease: a  *)
(* token of an earlier acquire of the same image, or of a swapchain since        *)
(* recreated or reopened, never ends another's.                                 *)
OnlyTheLeaseIsPresented ==
    [][\A s \in Serials : presents'[s] # presents[s] => s \in Taken /\ s \notin Taken']_vars

(* A frame whose fence has been retired is not in flight, and fences fly in the   *)
(* order they were submitted.                                                   *)
RetiredHasLanded == \A f \in Flying : completed < f /\ f <= submitted

(* The swapchain keeps the promise of FrameLeases.                              *)
Leases == INSTANCE FrameLeases WITH
    open <- configured, ring <- generation, taken <- Taken, flying <- Flying,
    given <- nextSerial - 1, fenced <- nextFence - 1
KeepsLeases == Leases!Spec
================================================================================
