-------------------------------- MODULE MCTabs --------------------------------
(* The tabs, side by side: one tab and its layout thread, the frame          *)
(* scheduler by itself, the runtime services with and without lists that may *)
(* fail to grow, two tabs that read ahead, the frames of a tab on their way  *)
(* to the device, and the lines of a window. In a behaviour one of them      *)
(* moves.                                                                    *)
EXTENDS TabRuntime, RuntimeServices, ReadAhead, TLC

CONSTANTS t1, t2, long, short

TwoTabs == {t1, t2}
TwoRecords == {long, short}
Alike == Permutations(TwoTabs)
(* A record of several windows and a rest, and one shorter than a window.   *)
Lengths == [r \in TwoRecords |-> IF r = long THEN 5 ELSE 1]
Halved == [c \in {"prefetch", "background", "maintenance"} |-> 2]
Odd == [c \in {"prefetch", "background", "maintenance"} |->
          CASE c = "prefetch" -> 3 [] c = "background" -> 2 [] OTHER -> 0]
GlyphSizes == <<[w |-> 2, h |-> 1, format |-> "a8"], [w |-> 2, h |-> 1, format |-> "a8"],
                [w |-> 3, h |-> 2, format |-> "rgba"], [w |-> 2, h |-> 2, format |-> "rgba"]>>
Shapings == {{1, 2}, {1, 3}, {4}}

VARIABLE part   \* the component that moves; the others stay as they begin
(* Requests of one or two units; the half of an odd budget is rounded down.  *)
VARIABLES fSched, fOvertaken, fGranted
Frames == INSTANCE FrameScheduler
    WITH FrameUs <- 4, ClassUs <- Odd, Costs <- {1, 2}, MaxEpoch <- 5,
         scheduler <- fSched, overtaken <- fOvertaken, granted <- fGranted
ASSUME Frames!CostAssumption

(* The services have four generations of runtimes for two tabs.  The same    *)
(* when the list of retired runtimes may fail to grow.                       *)
VARIABLES gSlot, gEntry, gPressure, gTold, gNext, gCount, gRetired, gLeaving,
          gRunning
Growing == INSTANCE RuntimeServices
    WITH Tabs <- TwoTabs, LastGeneration <- 3, Retains <- BOOLEAN,
         slot <- gSlot, entry <- gEntry, inForce <- gPressure,
         told <- gTold, next <- gNext, count <- gCount, retired <- gRetired,
         leaving <- gLeaving, running <- gRunning
ASSUME ServicesAssumption /\ Growing!ServicesAssumption

(* Two glyphs that share a page, two that do not; no texture has to give way. *)
VARIABLES aPages, aEntries, aAtlas, aEpoch, aHeld, aStep, aReceipts, aDevice,
          aScheduler
Shown == INSTANCE AtlasFrames
    WITH Glyphs <- 1..4, Raster <- GlyphSizes, PageWidth <- 3,
         PageHeight <- 2, Padding <- 0, MaxPages <- 2, MaxEntries <- 4,
         Holders <- {"ui"}, MaxEpoch <- 3, Producer <- "ui",
         MaxTextures <- 6, DeviceFrames <- 2, ScheduledFrames <- 2,
         MaxResident <- 2, MaxPins <- 4, Repeats <- TRUE,
         WorkingSets <- Shapings, MaxFence <- 4, pages <- aPages,
         entries <- aEntries, atlas <- aAtlas, epoch <- aEpoch,
         held <- aHeld, step <- aStep, receipts <- aReceipts,
         device <- aDevice, scheduler <- aScheduler
ASSUME Shown!FramesAssumption

(* A device with two textures, which gives one up for the next page, and a  *)
(* renderer that does not try a refused upload again.                       *)
TwoPages == <<[w |-> 2, h |-> 1, format |-> "a8"], [w |-> 1, h |-> 1, format |-> "a8"],
              [w |-> 3, h |-> 1, format |-> "rgba"]>>
Scarce == INSTANCE AtlasFrames
    WITH Glyphs <- 1..3, Raster <- TwoPages, PageWidth <- 3,
         PageHeight <- 1, Padding <- 0, MaxPages <- 2, MaxEntries <- 3,
         Holders <- {"ui"}, MaxEpoch <- 3, Producer <- "ui",
         MaxTextures <- 2, DeviceFrames <- 2, ScheduledFrames <- 2,
         MaxResident <- 2, MaxPins <- 4, Repeats <- FALSE,
         WorkingSets <- {{1, 3}, {1, 2}}, MaxFence <- 4, pages <- aPages,
         entries <- aEntries, atlas <- aAtlas, epoch <- aEpoch,
         held <- aHeld, step <- aStep, receipts <- aReceipts,
         device <- aDevice, scheduler <- aScheduler
ASSUME Scarce!FramesAssumption

TabVars == vars
FramesVars == <<fSched, fOvertaken, fGranted>>
GrowingVars == <<gSlot, gEntry, gPressure, gTold, gNext, gCount, gRetired,
                 gLeaving, gRunning>>
ShownVars == <<aPages, aEntries, aAtlas, aEpoch, aHeld, aStep, aReceipts,
               aDevice, aScheduler>>
all == <<part, TabVars, FramesVars, servicesVars, GrowingVars, readVars, ShownVars>>

Start == /\ part \in {"tab", "frames", "services", "growing", "reading", "shown", "scarce"}
         /\ Init
         /\ Frames!SchedulerInit
         /\ ServicesInit
         /\ Growing!ServicesInit
         /\ ReadInit
         /\ Shown!FramesInit

TabMoves == /\ part = "tab" /\ Next
            /\ UNCHANGED <<part, FramesVars, servicesVars, GrowingVars,
                           readVars, ShownVars>>
FramesMoves == /\ part = "frames" /\ Frames!SchedulerNext
               /\ UNCHANGED <<part, TabVars, servicesVars, GrowingVars,
                              readVars, ShownVars>>
ServicesMoves == /\ part = "services" /\ ServicesNext
                 /\ UNCHANGED <<part, TabVars, FramesVars, GrowingVars,
                                readVars, ShownVars>>
GrowingMoves == /\ part = "growing" /\ Growing!ServicesNext
                /\ UNCHANGED <<part, TabVars, FramesVars, servicesVars,
                               readVars, ShownVars>>
ReadingMoves == /\ part = "reading" /\ ReadNext
                /\ UNCHANGED <<part, TabVars, FramesVars, servicesVars,
                               GrowingVars, ShownVars>>
ShownMoves == /\ part = "shown" /\ Shown!FramesNext
              /\ UNCHANGED <<part, TabVars, FramesVars, servicesVars,
                             GrowingVars, readVars>>
ScarceMoves == /\ part = "scarce" /\ Scarce!FramesNext
               /\ UNCHANGED <<part, TabVars, FramesVars, servicesVars,
                              GrowingVars, readVars>>
Moves == TabMoves \/ FramesMoves \/ ServicesMoves \/ GrowingMoves \/
         ReadingMoves \/ ShownMoves \/ ScarceMoves

SumSpec == Start /\ [][Moves]_all
--------------------------------------------------------------------------------
ASSUME BudgetAssumption /\ TabAssumption /\ Frames!BudgetAssumption
       /\ ReadAheadAssumption

(* No frame spends more than its pressure leaves it, a ticket that was     *)
(* overtaken buys nothing, the window a tab cut to its record is found     *)
(* under the key it asked for, a texture in use is neither written nor     *)
(* given up, and where the list of retired runtimes may fail to grow, runs *)
(* are safe and shown tabs are served all the same.                        *)
OthersAreSound == /\ []Frames!FrameWithinBudget /\ Frames!StaleBuysNothing
                  /\ CutOnce
                  /\ Shown!PinnedUntouched
                  /\ [](Growing!RunsAreSafe /\ Growing!ServicesReachTabs)

(* Scheduler and device count their pins exactly, and a frame in flight has *)
(* the textures it pinned, filled in time; as long as no texture is given  *)
(* up and refused uploads are tried again, all it draws is in them.        *)
DrawnAsPut == IF part = "scarce"
              THEN /\ Scarce!FramesTypeOK /\ Scarce!PinsExact
                   /\ Scarce!PinnedIsReady /\ Scarce!ScheduledIsPresented
              ELSE Shown!DrawnAsPut
================================================================================
