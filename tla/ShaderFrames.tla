------------------------------ MODULE ShaderFrames ------------------------------
(* A frame on the graphics processor: its sources are compiled into a packet   *)
(* (shader_draw_packet.cpp), the pages its glyphs are on are kept resident,    *)
(* and the executor of one backend draws the packet into an image that a       *)
(* presenter copies (native_shader_execution_vulkan.cpp and _d3d12.cpp).       *)
(*                                                                             *)
(* A call to a driver may fail where Faults says; what the executor has then   *)
(* done stays.  A checksum of page contents identifies them.  An image is      *)
(* known by its handle, and a driver uses the handle of a destroyed image      *)
(* again.  Pixels, pipelines and command bytes are left out: a picture is the  *)
(* list of what was drawn.  One thread compiles and executes.                  *)
EXTENDS Integers, Sequences, SequencesExt, FiniteSets, FiniteSetsExt

CONSTANTS Backend,      \* "vulkan" or "d3d12"
          Faults,       \* the calls that may fail
          Presents,     \* a presenter copies the image on the same queue
          Drafts,       \* the sources of frames
          Pages,        \* indices of atlas pages
          MaxScissors, MaxPages, MaxReadback,
          Handles, MaxFrames, MaxGeneration, MaxOpens

ShaderAssumption ==
    /\ Backend \in {"vulkan", "d3d12"} /\ Presents \in BOOLEAN
    /\ Presents => Backend = "vulkan"
    /\ Pages \subseteq Nat /\ Cardinality(Handles) > 1
    /\ {MaxScissors, MaxPages, MaxGeneration} \subseteq Nat \ {0}
    /\ {MaxReadback, MaxFrames, MaxOpens} \subseteq Nat

VARIABLES frame,      \* frames compiled
          packet,     \* the packet of the last one
          resident,   \* per page what is resident, NoPage: nothing
          opens,      \* configurations begun
          exec        \* the executor: its images, the view it exports
vars == <<frame, packet, resident, opens, exec>>

Vulkan == Backend = "vulkan"
NoPacket == [frame |-> 0]
NoPage == [generation |-> 0]
NoImage == [handle |-> 0]
NoView == [frame |-> 0]
Layers == [selection |-> 0, glyph |-> 1, caret |-> 2]

(* layout is what the executor believes the image is in, real what it is in.   *)
(* doubt remembers, for the properties, a failure that leaves the image other   *)
(* than the executor's fields tell: the "layout" of a list that was not closed,  *)
(* the "picture" of a frame that was drawn and not published, an image that is  *)
(* "gone" with a submission.                                                    *)
Idle == [configured |-> FALSE, atlas |-> NoImage, signature |-> {},
         output |-> NoImage, readback |-> 0, next |-> 1, last |-> NoView,
         copying |-> 0, doubt |-> "none"]

-----------------------------------------------------------------------------
(* Compiling a packet.                                                         *)

NothingCompiled == [ok |-> TRUE, layer |-> 0, fill |-> 0, glyph |-> 0,
                    scissors |-> <<>>, commands |-> <<>>]

Scissors(list, clip) ==
    IF \E i \in DOMAIN list : list[i] = clip THEN list ELSE Append(list, clip)
ScissorOf(list, clip) == CHOOSE i \in DOMAIN list : list[i] = clip

FillFits(acc, c, draft) ==
    /\ c.layer \in {"selection", "caret"}
    /\ c.count = 1 /\ c.first = acc.fill /\ c.first < Len(draft.fills)
    /\ draft.fills[c.first + 1].layer = c.layer

GlyphsFit(acc, c, draft) ==
    /\ c.layer = "glyph"
    /\ c.first = acc.glyph /\ c.count <= Len(draft.glyphs) - c.first
    /\ \A i \in 2..c.count :
           /\ draft.glyphs[c.first + i].page = draft.glyphs[c.first + 1].page
           /\ draft.glyphs[c.first + i].generation = draft.glyphs[c.first + 1].generation
           /\ draft.glyphs[c.first + i].format = draft.glyphs[c.first + 1].format
           /\ draft.glyphs[c.first + i].clip = draft.glyphs[c.first + 1].clip

Sources(c, draft) == IF c.kind = "fill" THEN draft.fills ELSE draft.glyphs

Compiled(acc, c, scissors, clip) ==
    [acc EXCEPT !.ok = Len(scissors) <= MaxScissors,
                !.layer = Layers[c.layer],
                !.fill = IF c.kind = "fill" THEN @ + 1 ELSE @,
                !.glyph = IF c.kind = "fill" THEN @ ELSE @ + c.count,
                !.scissors = scissors,
                !.commands = Append(@, [kind |-> c.kind, first |-> c.first, count |-> c.count,
                                        scissor |-> ScissorOf(scissors, clip)])]

CompileCommand(acc, c, draft) ==
    IF /\ acc.ok /\ c.count > 0 /\ Layers[c.layer] >= acc.layer
       /\ IF c.kind = "fill" THEN FillFits(acc, c, draft) ELSE GlyphsFit(acc, c, draft)
    THEN Compiled(acc, c, Scissors(acc.scissors, Sources(c, draft)[c.first + 1].clip),
                  Sources(c, draft)[c.first + 1].clip)
    ELSE [acc EXCEPT !.ok = FALSE]

CompileCommands(draft) ==
    FoldLeft(LAMBDA acc, c : CompileCommand(acc, c, draft), NothingCompiled, draft.commands)

(* A source no command draws is an error, as is one drawn twice, and a glyph   *)
(* that an upload of its page does not fit.                                    *)
Accepted(acc, draft) ==
    /\ acc.ok /\ acc.fill = Len(draft.fills) /\ acc.glyph = Len(draft.glyphs)
    /\ \A g \in ToSet(draft.glyphs), u \in ToSet(draft.uploads) :
           (u.page = g.page /\ u.generation = g.generation) => u.format = g.format

Packet(acc, draft) ==
    [frame |-> frame + 1, draft |-> draft, size |-> draft.size, fills |-> draft.fills,
     glyphs |-> draft.glyphs, uploads |-> draft.uploads,
     scissors |-> acc.scissors, commands |-> acc.commands]

Compile ==
    /\ frame < MaxFrames
    /\ \E draft \in Drafts :
           /\ Accepted(CompileCommands(draft), draft)
           /\ packet' = Packet(CompileCommands(draft), draft)
    /\ frame' = frame + 1
    /\ UNCHANGED <<resident, opens, exec>>

-----------------------------------------------------------------------------
(* The pages that are resident.                                                *)

Resident(pages) == {i \in Pages : pages[i] # NoPage}

Uploaded(pages, upload) ==
    [pages EXCEPT ![upload.page] =
        [generation |-> upload.generation, content |-> upload.content, used |-> packet.frame]]

AfterUploads == FoldLeft(Uploaded, resident, packet.uploads)

ApplyUploads ==
    /\ packet # NoPacket
    /\ Cardinality(Resident(AfterUploads)) <= MaxPages
    /\ resident' = AfterUploads
    /\ UNCHANGED <<frame, packet, opens, exec>>

Found(g) == resident[g.page].generation = g.generation

MarkPagesUsed ==
    /\ packet # NoPacket
    /\ resident' = [i \in Pages |->
           IF \E k \in DOMAIN packet.glyphs : packet.glyphs[k].page = i /\ Found(packet.glyphs[k])
           THEN [resident[i] EXCEPT !.used = Max({@, packet.frame})] ELSE resident[i]]
    /\ UNCHANGED <<frame, packet, opens, exec>>

EvictBefore(minimum) ==
    /\ resident' = [i \in Pages |->
           IF resident[i] # NoPage /\ resident[i].used < minimum THEN NoPage ELSE resident[i]]
    /\ UNCHANGED <<frame, packet, opens, exec>>

Clear ==
    /\ resident' = [i \in Pages |-> NoPage]
    /\ UNCHANGED <<frame, packet, opens, exec>>

-----------------------------------------------------------------------------
(* What the executor may end in after each stage of a frame.                   *)

Went(e) == [exec |-> e, ok |-> TRUE]
Failed(e) == [exec |-> e, ok |-> FALSE]
Fails(fault, e) == IF fault \in Faults THEN {Failed(e)} ELSE {}

(* vkDeviceWaitIdle: nothing that was submitted is still at work.              *)
Waited(e) == [e EXCEPT !.copying = 0]

PagesOf(p) == {p.glyphs[k].page : k \in DOMAIN p.glyphs}
CollectsPages(p) == \A k \in DOMAIN p.glyphs : Found(p.glyphs[k])
Signature(p) == {<<i, resident[i].generation, resident[i].content>> : i \in PagesOf(p)}

(* Vulkan has a layer per page index, Direct3D a slice per page of the packet. *)
LayerOf(p, i) == IF Vulkan THEN i ELSE Cardinality({j \in PagesOf(p) : j < i})
AtlasOf(p) == [handle |-> 1,
               layers |-> [l \in {LayerOf(p, i) : i \in PagesOf(p)} |->
                              resident[CHOOSE i \in PagesOf(p) : LayerOf(p, i) = l].content]]
WithAtlas(e, p) == [e EXCEPT !.atlas = AtlasOf(p), !.signature = Signature(p)]

MadeFor(e, p) == e.atlas # NoImage /\ e.signature = Signature(p)

VulkanAtlas(e, p) ==
    IF MadeFor(e, p) THEN {Went(e)}
    ELSE {Went(WithAtlas(Waited(e), p))} \cup Fails("idle", e)
         \cup Fails("atlas", [Waited(e) EXCEPT !.atlas = NoImage])

(* The new atlas is made before the old one is released.                       *)
DirectAtlas(e, p) ==
    IF MadeFor(e, p) THEN {Went(e)}
    ELSE {Went(WithAtlas(e, p))} \cup Fails("atlas", e)

FitsOutput(e, size) == e.output # NoImage /\ e.output.size = size
Without(e) == [e EXCEPT !.output = NoImage, !.last = NoView, !.doubt = "none"]
NewOutput(e, h, size) ==
    [e EXCEPT !.output = [handle |-> h, size |-> size, generation |-> e.next,
                          layout |-> IF Vulkan THEN "undefined" ELSE "writable",
                          real |-> IF Vulkan THEN "undefined" ELSE "writable",
                          drawn |-> [frame |-> 0]],
              !.next = @ + 1, !.last = NoView, !.doubt = "none"]

VulkanSurface(e, size) ==
    IF FitsOutput(e, size) THEN {Went(e)}
    ELSE Fails("idle", e) \cup Fails("output", Without(Waited(e)))
         \cup IF e.next = MaxGeneration THEN {Failed(Without(Waited(e)))}
              ELSE {Went(NewOutput(Waited(e), h, size)) : h \in Handles}

VulkanReadback(e, size) ==
    IF size > MaxReadback THEN {Failed(e)}
    ELSE IF e.readback >= size THEN {Went(e)}
    ELSE {Went([Waited(e) EXCEPT !.readback = size])} \cup Fails("idle", e)
         \cup Fails("readback", [Waited(e) EXCEPT !.readback = 0])

DirectOutput(e, size) ==
    IF FitsOutput(e, size) THEN {Went(e)}
    ELSE IF size > MaxReadback \/ e.next = MaxGeneration THEN {Failed(e)}
    ELSE Fails("output", e)
         \cup {Went([NewOutput(e, h, size) EXCEPT !.readback = size])
                   : h \in Handles \ {e.output.handle}}

Drawing(e, c, p, k) ==
    IF c.kind = "fill" THEN [clip |-> p.scissors[c.scissor], what |-> p.fills[k].color]
    ELSE [clip |-> p.scissors[c.scissor], what |-> e.atlas.layers[LayerOf(p, p.glyphs[k].page)]]

Picture(e, p) ==
    FlattenSeq([i \in DOMAIN p.commands |->
        [k \in 1..p.commands[i].count |->
            Drawing(e, p.commands[i], p, p.commands[i].first + k)]])

Finished == IF Vulkan THEN "general" ELSE "readable"
Drawn(e, p) ==
    [Waited(e) EXCEPT !.output.layout = Finished, !.output.real = Finished,
                      !.output.drawn = [frame |-> p.frame, picture |-> Picture(e, p)]]
ViewOf(e, p) == [frame |-> p.frame, handle |-> e.output.handle, size |-> p.size,
                 generation |-> e.output.generation]
Shows(e, p) == [Drawn(e, p) EXCEPT !.last = ViewOf(e, p), !.doubt = "none"]
Unpublished(e) == [e EXCEPT !.doubt = "picture"]
FailsToRead(e, p, reads) ==
    IF reads THEN Fails("publish", Unpublished(Drawn(e, p))) ELSE {}

(* A submission that fails, or is not seen to end, takes the image with it.    *)
VulkanDraws(e, p, reads) ==
    {Went(Shows(e, p))} \cup FailsToRead(e, p, reads)
    \cup Fails("record", [e EXCEPT !.output.layout = "undefined"])
    \cup Fails("submit", [Without(e) EXCEPT !.readback = 0, !.doubt = "gone"])

(* The state of the image is noted when the list is recorded: one that cannot   *)
(* be closed is not executed, one that is not seen to end may have drawn or not. *)
DirectDraws(e, p, reads) ==
    LET noted == [e EXCEPT !.output.layout = Finished]
    IN  {Went(Shows(e, p))} \cup FailsToRead(e, p, reads) \cup Fails("record", e)
        \cup Fails("close", [noted EXCEPT !.doubt = IF @ = "picture" THEN @ ELSE "layout"])
        \cup Fails("wait", Unpublished(Drawn(e, p)))
        \cup Fails("wait", Unpublished([noted EXCEPT !.output.real = Finished]))

-----------------------------------------------------------------------------
Then(results, Stage(_)) ==
    UNION {IF r.ok THEN Stage(r.exec) ELSE {r} : r \in results}

AfterAtlas(e, p) == IF Vulkan THEN VulkanAtlas(e, p) ELSE DirectAtlas(e, p)
AfterReadback(e, p, reads) ==
    IF Vulkan /\ reads THEN VulkanReadback(e, p.size) ELSE {Went(e)}
AfterOutput(e, p, reads) ==
    IF Vulkan THEN Then(VulkanSurface(e, p.size), LAMBDA f : AfterReadback(f, p, reads))
    ELSE DirectOutput(e, p.size)
AfterDrawing(e, p, reads) ==
    IF Vulkan THEN VulkanDraws(e, p, reads) ELSE DirectDraws(e, p, reads)

Results(e, p, reads) ==
    Then(Then(AfterAtlas(e, p), LAMBDA f : AfterOutput(f, p, reads)),
         LAMBDA f : AfterDrawing(f, p, reads))

Execute ==
    /\ exec.configured /\ packet # NoPacket
    /\ CollectsPages(packet)
    /\ \E reads \in BOOLEAN : \E r \in Results(exec, packet, reads) : exec' = r.exec
    /\ UNCHANGED <<frame, packet, resident, opens>>

(* Configuring resets; a pipeline that cannot be made leaves nothing.          *)
Configure ==
    /\ opens < MaxOpens
    /\ opens' = opens + 1
    /\ \/ exec' = [Idle EXCEPT !.configured = TRUE]
       \/ "pipeline" \in Faults /\ exec' = Idle
    /\ UNCHANGED <<frame, packet, resident>>

Shutdown ==
    /\ exec.configured /\ exec' = Idle
    /\ UNCHANGED <<frame, packet, resident, opens>>

(* What export_surface decides by.                                             *)
Exports(e) ==
    /\ e.last # NoView /\ e.output # NoImage
    /\ Vulkan => e.output.layout = "general" /\ e.output.handle = e.last.handle

(* The presenter takes the view and copies the image it names; the copy is     *)
(* submitted and not waited for.                                               *)
Present ==
    /\ Presents /\ Exports(exec) /\ exec.copying = 0
    /\ exec' = [exec EXCEPT !.copying = exec.last.handle]
    /\ UNCHANGED <<frame, packet, resident, opens>>

CopyEnds ==
    /\ exec.copying # 0
    /\ exec' = Waited(exec)
    /\ UNCHANGED <<frame, packet, resident, opens>>

Init ==
    /\ frame = 0 /\ packet = NoPacket /\ resident = [i \in Pages |-> NoPage]
    /\ opens = 0 /\ exec = Idle

Next ==
    \/ Compile \/ ApplyUploads \/ MarkPagesUsed
    \/ \E minimum \in 1..MaxFrames : EvictBefore(minimum)
    \/ Clear \/ Execute \/ Configure \/ Shutdown \/ Present \/ CopyEnds

Spec == Init /\ [][Next]_vars

-----------------------------------------------------------------------------
(* The executor's images and view are what their fields say, and no more pages *)
(* are resident than the residency holds.                                      *)
ShaderTypeOK ==
    /\ frame \in 0..MaxFrames /\ opens \in 0..MaxOpens
    /\ exec.next \in 1..MaxGeneration /\ exec.copying \in Handles \cup {0}
    /\ exec.output = NoImage \/ exec.output.handle \in Handles
    /\ exec.last = NoView \/ exec.last.handle \in Handles
    /\ Cardinality(Resident(resident)) <= MaxPages

(* What export_surface hands out is an image of the handle, size and generation *)
(* its view names, in the state the view promises, and holds that frame; where a *)
(* frame was drawn and not published since, it holds that one or a later.        *)
ExportIsDrawn ==
    Exports(exec) =>
        /\ exec.output.handle = exec.last.handle
        /\ exec.output.size = exec.last.size
        /\ exec.output.generation = exec.last.generation
        /\ exec.output.real = Finished
        /\ \/ exec.output.drawn.frame = exec.last.frame
           \/ exec.doubt = "picture" /\ exec.output.drawn.frame > exec.last.frame

(* A barrier begins at the state the image is in, or discards what it held,     *)
(* unless a list that noted the state was not closed.                           *)
LayoutKnown ==
    exec.output # NoImage =>
        \/ exec.output.layout \in {"undefined", exec.output.real}
        \/ exec.doubt = "layout"

(* The image a presenter's copy still reads is not destroyed, but by a           *)
(* submission that fails.                                                       *)
CopiedImageStays ==
    exec.copying # 0 => exec.output.handle = exec.copying \/ exec.doubt = "gone"

ImageAsNamed == ShaderTypeOK /\ ExportIsDrawn /\ LayoutKnown /\ CopiedImageStays

(* Selections, glyphs and carets in this order, each once, in its own clip and *)
(* each glyph from the page of its generation.                                 *)
FillsOf(draft, layer) ==
    LET fills == SelectSeq(draft.fills, LAMBDA f : f.layer = layer)
    IN  [k \in DOMAIN fills |-> [clip |-> fills[k].clip, what |-> fills[k].color]]
GlyphsOf(draft) ==
    [k \in DOMAIN draft.glyphs |-> [clip |-> draft.glyphs[k].clip,
                                   what |-> resident[draft.glyphs[k].page].content]]
Wanted(draft) ==
    FillsOf(draft, "selection") \o GlyphsOf(draft) \o FillsOf(draft, "caret")

Holds(e) == IF e.output = NoImage THEN NoPacket ELSE e.output.drawn

(* A frame that is drawn, whether it is made available or a failure hides it, is *)
(* what its sources ask for, drawn with the pages resident now, whatever the     *)
(* atlas image was made for before and whatever failed half way.                 *)
DrawnAsWanted ==
    [][Holds(exec') \notin {Holds(exec), NoPacket} \/ exec'.last \notin {exec.last, NoView} =>
           /\ Holds(exec') = [frame |-> packet.frame, picture |-> Wanted(packet.draft)]
           /\ \A g \in ToSet(packet.glyphs) : resident[g.page].generation = g.generation]_vars
=============================================================================
