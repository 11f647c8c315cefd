------------------------------- MODULE MCWindow -------------------------------
(* The windows, side by side: the Vulkan swapchain, and beside it the leases *)
(* of a Vulkan context, the reference swapchain, a Vulkan swapchain that is  *)
(* opened again, the frames that redraw only what changed, and the frames    *)
(* that a backend draws from packets. In a behaviour one of them moves.      *)
EXTENDS VulkanSwapchain, WsiContext, Integers

CONSTANTS owner, p1, p2, e1

TwoPresenters == {p1, p2}

Rect(x, y, w, h) == [x |-> x, y |-> y, w |-> w, h |-> h]
Drawings == [column |-> <<Rect(2, 0, 3, 2)>>, bar |-> <<Rect(0, 0, 1, 2)>>,
             dot |-> <<Rect(2, 0, 1, 1)>>, blank |-> <<>>,
             words |-> <<Rect(0, 1, 1, 1), Rect(2, 1, 1, 1)>>]
Anywhere == Rect(-1, -1, 9, 9)
Commands(names) == [i \in DOMAIN names |-> [sum |-> names[i], clip |-> Anywhere]]
TwoFrames == {Commands(<<"column", "bar", "dot">>), Commands(<<"column", "blank", "blank", "words">>)}
ThreeFrames == TwoFrames \cup
    {<<[sum |-> "words", clip |-> Rect(0, 0, 2, 2)], [sum |-> "column", clip |-> Anywhere]>>}
Policy(rects, touch, fall, permille) ==
    [maximum_rects |-> rects, touching |-> touch, collapse |-> fall, threshold |-> permille, full |-> FALSE]
ThreePolicies == {Policy(1, TRUE, FALSE, 0), Policy(2, FALSE, TRUE, 0), Policy(1, FALSE, TRUE, 700)}
TwoSizes == <<<<3, 2>>, <<2, 2>>>>

Fill(layer, clip) == [layer |-> layer, clip |-> clip, color |-> layer]
Glyph(page, version, clip) ==
    [page |-> page, generation |-> version, clip |-> clip, format |-> "alpha"]
Upload(page, version, content) ==
    [page |-> page, generation |-> version, content |-> content, format |-> "alpha"]
Fills(layer, from, many) == [kind |-> "fill", layer |-> layer, first |-> from, count |-> many]
Batch(from, many) == [kind |-> "glyph", layer |-> "glyph", first |-> from, count |-> many]
Draft(fills, glyphs, uploads, commands, size) ==
    [fills |-> fills, glyphs |-> glyphs, uploads |-> uploads, commands |-> commands, size |-> size]
Selections == <<Fill("selection", "all"), Fill("caret", "all")>>
MarksDrawn(batch) == <<Fills("selection", 0, 1), batch, Fills("caret", 1, 1)>>
Cold == Draft(Selections, <<Glyph(0, 1, "line"), Glyph(0, 1, "line")>>, <<Upload(0, 1, "a")>>,
              MarksDrawn(Batch(0, 2)), 1)
Hot == Draft(<<>>, <<Glyph(2, 1, "line"), Glyph(0, 1, "all")>>, <<Upload(2, 1, "b")>>,
             <<Batch(0, 1), Batch(1, 1)>>, 2)
Newer == Draft(<<>>, <<Glyph(0, 2, "all")>>, <<Upload(0, 2, "c")>>, <<Batch(0, 1)>>, 1)
Repainted == [Newer EXCEPT !.uploads = <<Upload(0, 1, "d")>>, !.glyphs[1].generation = 1, !.size = 3]
Blank == Draft(<<>>, <<>>, <<>>, <<>>, 1)
Third == [Blank EXCEPT !.uploads = <<Upload(3, 1, "a")>>]
Undrawn == [Cold EXCEPT !.commands = MarksDrawn(Batch(0, 1))]
Twice == [Cold EXCEPT !.commands = <<Fills("selection", 0, 1), Batch(0, 2), Batch(0, 2), Fills("caret", 1, 1)>>]
CaretFirst == [Cold EXCEPT !.fills = <<Fill("caret", "line")>>,
                           !.commands = <<Fills("caret", 0, 1), Batch(0, 2)>>]
TwoClips == [Hot EXCEPT !.glyphs = <<Glyph(0, 1, "line"), Glyph(0, 1, "all")>>,
                        !.commands = <<Batch(0, 2)>>]
ColdGlyph == [Cold EXCEPT !.uploads[1].format = "color"]
ThreeClips == [Blank EXCEPT !.fills = <<Fill("selection", "all"), Fill("selection", "line"),
                                         Fill("caret", "cell")>>,
                             !.commands = <<Fills("selection", 0, 1), Fills("selection", 1, 1),
                                            Fills("caret", 2, 1)>>]
Rejected == {Undrawn, Twice, CaretFirst, TwoClips, ColdGlyph, ThreeClips}
SomeDrafts == {Cold, Hot, Newer, Repainted, Third} \cup Rejected

VARIABLE part   \* the component that moves; the others stay as they begin
ASSUME VulkanAssumption

(* One owner that begins two contexts, two presenters and an executor.       *)
ASSUME WsiAssumption

(* Three images of which two may be owned, four acquires, one reopening.     *)
VARIABLES rConfigured, rOpens, rGeneration, rSurface, rPending, rOutOfDate,
          rOccluded, rLost, rSlots, rNextImage, rNextSerial, rNextFence,
          rAcquired, rInFlight, rInFlightBytes, rSubmitted, rCompleted,
          rTokens, rPresents
Reference == INSTANCE WindowSwapchain
    WITH ImageCount <- 3, MaxFrames <- 2, Sizes <- {1, 2, 3},
         MaxImageBytes <- 2, MaxGeneration <- 2, MaxAcquires <- 4,
         MaxOpens <- 2, configured <- rConfigured, opens <- rOpens,
         generation <- rGeneration, surface <- rSurface, pending <- rPending,
         outOfDate <- rOutOfDate, occluded <- rOccluded, lost <- rLost,
         slots <- rSlots, nextImage <- rNextImage, nextSerial <- rNextSerial,
         nextFence <- rNextFence, acquired <- rAcquired,
         inFlight <- rInFlight, inFlightBytes <- rInFlightBytes,
         submitted <- rSubmitted, completed <- rCompleted, tokens <- rTokens,
         presents <- rPresents
ASSUME Reference!SwapchainAssumption

(* Two or three images for two frame slots, two acquires, one reopening.     *)
VARIABLES oConfigured, oOpens, oGeneration, oSurface, oPending, oOutOfDate,
          oLost, oImageCount, oImages, oFrames, oEngine, oNextSerial,
          oNextFence, oAcquired, oInFlight, oSubmitted, oCompleted, oTokens,
          oPresents
Reopened == INSTANCE VulkanSwapchain
    WITH ImageCounts <- {2, 3}, MaxFrames <- 2, MaxGeneration <- 2,
         MaxAcquires <- 2, MaxOpens <- 2, configured <- oConfigured,
         opens <- oOpens, generation <- oGeneration, surface <- oSurface,
         pending <- oPending, outOfDate <- oOutOfDate, lost <- oLost,
         imageCount <- oImageCount, images <- oImages, frames <- oFrames,
         engine <- oEngine, nextSerial <- oNextSerial,
         nextFence <- oNextFence, acquired <- oAcquired,
         inFlight <- oInFlight, submitted <- oSubmitted,
         completed <- oCompleted, tokens <- oTokens, presents <- oPresents
ASSUME Reopened!VulkanAssumption

(* Three frames on two surfaces of one image, compared with frames that were shown: commands *)
(* that move, disappear, are clipped or lie partly outside, rectangles that overlap in a chain. *)
VARIABLES dMade, dBuffer, dShown, dOlder, dExposed, dSurface, dImages,
          dNextImage, dFront, dRing, dNextFence, dCompleted, dSubmitted
Display == INSTANCE DamageFrames
    WITH Sizes <- TwoSizes, Shapes <- Drawings, Pictures <- ThreeFrames,
         Exposures <- {Rect(1, 1, 1, 1)}, Policies <- ThreePolicies,
         KeepsUnshown <- FALSE, ImageCount <- 1, MaxFrames <- 2,
         MaxGeneration <- 3, made <- dMade, buffer <- dBuffer,
         shown <- dShown, older <- dOlder, exposed <- dExposed,
         surface <- dSurface, images <- dImages, nextImage <- dNextImage,
         front <- dFront, ring <- dRing, nextFence <- dNextFence,
         completed <- dCompleted, submitted <- dSubmitted
ASSUME Display!DamageAssumption

(* The same on two images in turn, compared with frames that were not shown as well. *)
VARIABLES tMade, tBuffer, tShown, tOlder, tExposed, tSurface, tImages,
          tNextImage, tFront, tRing, tNextFence, tCompleted, tSubmitted
Turning == INSTANCE DamageFrames
    WITH Sizes <- TwoSizes, Shapes <- Drawings, Pictures <- TwoFrames,
         Exposures <- {Rect(1, 1, 1, 1)}, Policies <- ThreePolicies,
         KeepsUnshown <- TRUE, ImageCount <- 2, MaxFrames <- 2,
         MaxGeneration <- 3, made <- tMade, buffer <- tBuffer,
         shown <- tShown, older <- tOlder, exposed <- tExposed,
         surface <- tSurface, images <- tImages, nextImage <- tNextImage,
         front <- tFront, ring <- tRing, nextFence <- tNextFence,
         completed <- tCompleted, submitted <- tSubmitted
ASSUME Turning!DamageAssumption

(* Frames on Direct3D, where every call may fail.                            *)
VARIABLES eFrame, ePacket, eResident, eOpens, eExec
Direct == INSTANCE ShaderFrames
    WITH Backend <- "d3d12",
         Faults <- {"atlas", "output", "record", "close", "wait", "publish", "pipeline"},
         Presents <- FALSE, Drafts <- SomeDrafts, Pages <- {0, 2, 3},
         MaxScissors <- 2, MaxPages <- 2, MaxReadback <- 2,
         Handles <- {1, 2}, MaxFrames <- 3, MaxGeneration <- 3,
         MaxOpens <- 2, frame <- eFrame, packet <- ePacket,
         resident <- eResident, opens <- eOpens, exec <- eExec
ASSUME Direct!ShaderAssumption

(* Frames on Vulkan, where every call may fail; a presenter may copy the image. *)
VARIABLES sFrame, sPacket, sResident, sOpens, sExec
Shader == INSTANCE ShaderFrames
    WITH Backend <- "vulkan",
         Faults <- {"idle", "atlas", "output", "readback", "record", "submit", "publish", "pipeline"},
         Presents <- TRUE, Drafts <- {Cold, Hot, Repainted},
         Pages <- {0, 2, 3}, MaxScissors <- 2, MaxPages <- 2,
         MaxReadback <- 2, Handles <- {1, 2}, MaxFrames <- 3,
         MaxGeneration <- 3, MaxOpens <- 1, frame <- sFrame,
         packet <- sPacket, resident <- sResident, opens <- sOpens,
         exec <- sExec
ASSUME Shader!ShaderAssumption

ReferenceVars == <<rConfigured, rOpens, rGeneration, rSurface, rPending,
                   rOutOfDate, rOccluded, rLost, rSlots, rNextImage,
                   rNextSerial, rNextFence, rAcquired, rInFlight,
                   rInFlightBytes, rSubmitted, rCompleted, rTokens, rPresents>>
VulkanVars == vars
ReopenedVars == <<oConfigured, oOpens, oGeneration, oSurface, oPending,
                  oOutOfDate, oLost, oImageCount, oImages, oFrames, oEngine,
                  oNextSerial, oNextFence, oAcquired, oInFlight, oSubmitted,
                  oCompleted, oTokens, oPresents>>
DisplayVars == <<dMade, dBuffer, dShown, dOlder, dExposed, dSurface, dImages,
                 dNextImage, dFront, dRing, dNextFence, dCompleted, dSubmitted>>
TurningVars == <<tMade, tBuffer, tShown, tOlder, tExposed, tSurface, tImages,
                 tNextImage, tFront, tRing, tNextFence, tCompleted, tSubmitted>>
ShaderVars == <<sFrame, sPacket, sResident, sOpens, sExec>>
DirectVars == <<eFrame, ePacket, eResident, eOpens, eExec>>
all == <<part, contextVars, ReferenceVars, VulkanVars, ReopenedVars,
         DisplayVars, TurningVars, ShaderVars, DirectVars>>

Start == /\ part \in {"context", "reference", "vulkan", "reopened",
                       "display", "turning", "shader", "direct"}
         /\ ContextInit
         /\ Reference!Init
         /\ Init
         /\ Reopened!Init
         /\ Display!Init
         /\ Turning!Init
         /\ Shader!Init
         /\ Direct!Init

ContextMoves == /\ part = "context" /\ ContextNext
                /\ UNCHANGED <<part, ReferenceVars, VulkanVars, ReopenedVars,
                               DisplayVars, TurningVars, ShaderVars,
                               DirectVars>>
ReferenceMoves == /\ part = "reference" /\ Reference!Next
                  /\ UNCHANGED <<part, contextVars, VulkanVars, ReopenedVars,
                                 DisplayVars, TurningVars, ShaderVars,
                                 DirectVars>>
VulkanMoves == /\ part = "vulkan" /\ Next
               /\ UNCHANGED <<part, contextVars, ReferenceVars, ReopenedVars,
                              DisplayVars, TurningVars, ShaderVars,
                              DirectVars>>
ReopenedMoves == /\ part = "reopened" /\ Reopened!Next
                 /\ UNCHANGED <<part, contextVars, ReferenceVars, VulkanVars,
                                DisplayVars, TurningVars, ShaderVars,
                                DirectVars>>
DisplayMoves == /\ part = "display" /\ Display!Next
                /\ UNCHANGED <<part, contextVars, ReferenceVars, VulkanVars,
                               ReopenedVars, TurningVars, ShaderVars,
                               DirectVars>>
TurningMoves == /\ part = "turning" /\ Turning!Next
                /\ UNCHANGED <<part, contextVars, ReferenceVars, VulkanVars,
                               ReopenedVars, DisplayVars, ShaderVars,
                               DirectVars>>
ShaderMoves == /\ part = "shader" /\ Shader!Next
               /\ UNCHANGED <<part, contextVars, ReferenceVars, VulkanVars,
                              ReopenedVars, DisplayVars, TurningVars,
                              DirectVars>>
DirectMoves == /\ part = "direct" /\ Direct!Next
               /\ UNCHANGED <<part, contextVars, ReferenceVars, VulkanVars,
                              ReopenedVars, DisplayVars, TurningVars,
                              ShaderVars>>

Moves == ContextMoves \/ ReferenceMoves \/ VulkanMoves \/ ReopenedMoves \/
         DisplayMoves \/ TurningMoves \/ ShaderMoves \/ DirectMoves

SumSpec == Start /\ [][Moves]_all
--------------------------------------------------------------------------------
(* A token ends only the lease it was given for, nobody comes to hold a    *)
(* context its owner has begun to close, and the reference and a reopened  *)
(* swapchain keep the promise of FrameLeases as well, deciding by what is  *)
(* the state of their images too.                                          *)
OthersKeepLeases ==
    /\ [](part = "context" => WsiTypeOK) /\ NoLeaseAfterClose
    /\ [](part = "vulkan" => VulkanTypeOK) /\ OnlyTheLeaseIsPresented
    /\ [](part = "reopened" => Reopened!VulkanTypeOK /\ Reopened!SlotsAgree)
    /\ Reopened!OnlyTheLeaseIsPresented /\ Reopened!KeepsLeases
    /\ [](part = "reference" => /\ Reference!SwapchainTypeOK /\ Reference!CountsExact
                                /\ Reference!RetiredHasLanded)
    /\ Reference!OnlyTheLeaseIsPresented /\ Reference!KeepsLeases

(* A frame that is shown by redrawing what changed is what a full redraw   *)
(* of it would be: all of it on one image and against a frame that was     *)
(* shown, and on images in turn whatever was damaged or held what the      *)
(* frame compared with has there. What is in flight is of the surface in   *)
(* use. What a backend draws is what the sources of the frame ask for; the *)
(* image an executor exports holds the frame its view names, and stays     *)
(* while it is copied, but for what a failure is known to leave.           *)
ShownExactly ==
    /\ []Display!DamageTypeOK /\ Display!ShownExactly
    /\ []Turning!DamageTypeOK /\ Turning!RedrawsWhatChanged
    /\ Shader!DrawnAsWanted /\ Direct!DrawnAsWanted
    /\ [](part = "shader" => Shader!ImageAsNamed)
    /\ [](part = "direct" => Direct!ImageAsNamed)
================================================================================
