------------------------------- MODULE GlyphAtlas -------------------------------
(***************************************************************************)
(* GlyphAtlasCache and prepare_glyph_atlas_submission                      *)
(* (src/glyph_atlas_submission.cpp): pages of a fixed size on which the    *)
(* rasters of glyphs are placed in rows, and a table that says where each  *)
(* glyph is.  A submission names the places of the glyphs of one frame,    *)
(* and is out of date once a page it names was reset or the atlas cleared. *)
(* The keys of glyphs are numbers, their order is the order of the table   *)
(* and of the working set.                                                 *)
(***************************************************************************)
EXTENDS Integers, Sequences, FiniteSetsExt, Functions

CONSTANTS Glyphs,      \* keys
          Raster,      \* Raster[g]: [w, h, format] of what a raster worker supplies
          PageWidth, PageHeight, Padding,
          MaxPages, MaxEntries,
          Holders,     \* threads that prepare submissions and hold one each
          MaxEpoch     \* bound: how often a submission is prepared

Empty(g) == Raster[g].format = "none"   \* a glyph without pixels

AtlasAssumption ==
    /\ Glyphs \subseteq Nat \ {0} /\ IsFiniteSet(Glyphs)
    /\ PageWidth \in Nat /\ PageHeight \in Nat
    /\ \A g \in Glyphs : IF Empty(g) THEN Raster[g].w = 0 /\ Raster[g].h = 0
                         ELSE Raster[g].w \in 1..PageWidth /\ Raster[g].h \in 1..PageHeight
    /\ Padding \in 0..(PageWidth - 1) /\ Padding < PageHeight
    /\ MaxPages \in Nat \ {0} /\ MaxEntries \in Nat \ {0} /\ MaxEpoch \in Nat

VARIABLES pages,     \* GlyphAtlasCache::pages_; generation 0: not initialized
          entries,   \* entries_, a function from the glyphs that have one
          atlas,     \* atlas_generation_id_
          epoch,     \* use_epoch_
          held       \* held[t]: the GlyphAtlasSubmission thread t holds

atlasVars == <<pages, entries, atlas, epoch, held>>
cache == <<pages, entries, atlas, epoch>>

Blank == [gen |-> 0, used |-> 0, format |-> "none", x |-> 0, y |-> 0, row |-> 0,
          area |-> 0, live |-> 0]
NoPages == [p \in 1..MaxPages |-> Blank]
NoEntries == [g \in {} |-> 0]
(* A released submission: no atlas has generation 0.                       *)
Nothing == [atlas |-> 0, at |-> 0, places |-> NoEntries, uploads |-> <<>>]

AtlasInit == /\ pages = NoPages /\ entries = NoEntries
             /\ atlas = 1 /\ epoch = 0
             /\ held = [t \in Holders |-> Nothing]

InUse(p, pg) == pg[p].gen # 0
Lowest(S) == CHOOSE i \in S : \A j \in S : i <= j
(* The one longest unused, the lowest among equals.                        *)
Oldest(S, used) == Lowest({i \in S : \A j \in S : used[i] <= used[j]})
--------------------------------------------------------------------------------
(* The next place on a page: beside the last glyph, or in a new row.       *)
Place(pg, g) ==
    LET newRow == pg.x # 0 /\ Raster[g].w > PageWidth - pg.x
        x == IF newRow THEN 0 ELSE pg.x
        row == IF newRow THEN 0 ELSE pg.row
    IN [x |-> x, y |-> IF newRow THEN pg.y + pg.row + Padding ELSE pg.y,
        row |-> IF row > Raster[g].h THEN row ELSE Raster[g].h,
        next |-> IF x + Raster[g].w + Padding < PageWidth
                 THEN x + Raster[g].w + Padding ELSE PageWidth]

HasRoom(pg, g) == Place(pg, g).y + Raster[g].h <= PageHeight

(* What prepare stages: the tables, the pages this submission already      *)
(* uses, which may not be reset any more, and the glyphs to upload.        *)
Reset(d, p, format, e) ==
    [d EXCEPT !.entries = Restrict(@, {g \in DOMAIN @ : @[g].page # p}),
              !.pages[p] = [Blank EXCEPT !.gen = d.pages[p].gen + 1,
                                         !.used = e, !.format = format]]

Failed(d) == [d EXCEPT !.ok = FALSE]
Unpinned(d) == {p \in 1..MaxPages : p \notin d.pinned}

(* A full table gives up an empty glyph this submission does not use, or   *)
(* else a whole page.                                                      *)
WithEntryFree(d, e) ==
    LET idle == {g \in DOMAIN d.entries : Empty(g) /\ d.entries[g].used # e}
        reset == {p \in Unpinned(d) : InUse(p, d.pages)}
    IN IF Cardinality(DOMAIN d.entries) < MaxEntries THEN d
       ELSE IF idle # {}
       THEN LET g == Oldest(idle, [i \in idle |-> d.entries[i].used])
            IN [d EXCEPT !.entries = Restrict(@, DOMAIN @ \ {g})]
       ELSE IF reset # {}
       THEN LET p == Oldest(reset, [i \in reset |-> d.pages[i].used])
            IN Reset(d, p, d.pages[p].format, e)
       ELSE Failed(d)

(* A page with room for the glyph: one in use, one not used yet, or the    *)
(* longest unused one, reset.                                              *)
WithPage(d, g, e) ==
    LET roomy == {p \in 1..MaxPages : /\ d.pages[p].format = Raster[g].format
                                      /\ InUse(p, d.pages) /\ HasRoom(d.pages[p], g)}
        fresh == {p \in 1..MaxPages : ~InUse(p, d.pages)}
    IN IF roomy # {} THEN [draft |-> d, page |-> Lowest(roomy)]
       ELSE IF fresh \cup Unpinned(d) = {} THEN [draft |-> Failed(d), page |-> 0]
       ELSE LET p == IF fresh # {} THEN Lowest(fresh)
                     ELSE Oldest(Unpinned(d), [i \in Unpinned(d) |-> d.pages[i].used])
            IN [draft |-> Reset(d, p, Raster[g].format, e), page |-> p]

Entered(table, g, entry) ==
    [k \in DOMAIN table \cup {g} |-> IF k = g THEN entry ELSE table[k]]

Filled(page, g, at, e) ==
    [gen |-> page.gen, used |-> e, format |-> page.format, x |-> at.next, y |-> at.y,
     row |-> at.row, area |-> page.area + Raster[g].w * Raster[g].h, live |-> page.live + 1]

WithGlyph(d, g, e) ==
    LET found == WithPage(d, g, e)
        b == found.draft
        p == found.page
        at == Place(b.pages[p], g)
        entry == [page |-> p, gen |-> b.pages[p].gen, x |-> at.x, y |-> at.y, used |-> e]
    IN IF ~b.ok THEN b
       ELSE [ok |-> TRUE, pages |-> [b.pages EXCEPT ![p] = Filled(@, g, at, e)],
             entries |-> Entered(b.entries, g, entry),
             pinned |-> b.pinned \cup {p}, uploads |-> Append(b.uploads, g)]

(* An entry must agree with its page.                                      *)
Resident(d, g) == d.pages[d.entries[g].page].gen = d.entries[g].gen

Hit(d, g, e) ==
    LET p == d.entries[g].page
        used == [d.entries EXCEPT ![g].used = e]
    IN IF Empty(g) THEN [d EXCEPT !.entries = used]
       ELSE IF ~Resident(d, g) THEN Failed(d)
       ELSE [d EXCEPT !.entries = used, !.pinned = @ \cup {p},
                      !.pages = [@ EXCEPT ![p].used = e]]

Miss(d, g, e) ==
    LET free == WithEntryFree(d, e) IN
    IF ~free.ok THEN free
    ELSE IF Empty(g)
    THEN [free EXCEPT !.entries =
            Entered(@, g, [page |-> 0, gen |-> 0, x |-> 0, y |-> 0, used |-> e])]
    ELSE WithGlyph(free, g, e)

Keyed(d, g, e) == IF ~d.ok THEN d
                  ELSE IF g \in DOMAIN d.entries THEN Hit(d, g, e)
                  ELSE Miss(d, g, e)

(* The keys of the working set, in their order.                            *)
Staged(working, e) ==
    MapThenFoldSet(LAMBDA g, d : Keyed(d, g, e),
                   [ok |-> TRUE, pages |-> pages, entries |-> entries,
                    pinned |-> {}, uploads |-> <<>>],
                   LAMBDA g : g, LAMBDA s : Max(s), working)

PlaceOf(e) == [page |-> e.page, gen |-> e.gen, x |-> e.x, y |-> e.y]

(* prepare_glyph_atlas_submission: everything is staged and published at   *)
(* once.                                                                   *)
Prepare(t, working) ==
    LET d == Staged(working, epoch + 1) IN
    /\ epoch < MaxEpoch
    /\ d.ok
    /\ pages' = d.pages /\ entries' = d.entries
    /\ epoch' = epoch + 1
    /\ held' = [held EXCEPT ![t] =
                  [atlas |-> atlas, at |-> epoch + 1,
                   places |-> [g \in {k \in working : ~Empty(k)} |-> PlaceOf(d.entries[g])],
                   uploads |-> d.uploads]]
    /\ UNCHANGED atlas

(* It fails: for want of a source, of room, at a limit, or of memory.      *)
PrepareFails(t) == /\ held' = [held EXCEPT ![t] = Nothing]
                   /\ UNCHANGED cache

Clear == /\ atlas < 2   \* bound
         /\ pages' = NoPages /\ entries' = NoEntries
         /\ atlas' = atlas + 1 /\ epoch' = 0
         /\ UNCHANGED held

(* glyph_atlas_submission_is_current.                                      *)
Current(s) == /\ s.atlas = atlas
              /\ \A g \in DOMAIN s.places : pages[s.places[g].page].gen = s.places[g].gen

AtlasNext == \/ \E t \in Holders, working \in SUBSET Glyphs \ {{}} : Prepare(t, working)
             \/ \E t \in Holders : PrepareFails(t)
             \/ Clear

AtlasSpec == AtlasInit /\ [][AtlasNext]_atlasVars
--------------------------------------------------------------------------------
(* A reset page stays empty until a glyph is placed; the atlas and the     *)
(* submissions are of the kinds named above.                               *)
AtlasTypeOK ==
    /\ \A p \in 1..MaxPages : /\ pages[p].x \in 0..PageWidth
                             /\ pages[p].y + pages[p].row <= PageHeight
                             /\ pages[p].used <= epoch
    /\ DOMAIN entries \subseteq Glyphs /\ atlas \in 1..2 /\ epoch \in 0..MaxEpoch
    /\ \A t \in Holders : /\ DOMAIN held[t].places \subseteq Glyphs
                          /\ Range(held[t].uploads) \subseteq DOMAIN held[t].places

On(p) == {g \in DOMAIN entries : entries[g].page = p}
Apart(a, aw, b, bw) == a + aw + Padding <= b \/ b + bw + Padding <= a

(* Whatever was placed, reset and placed again, the glyphs of a page lie   *)
(* within it and do not overlap, padding included.                         *)
PlacesDisjoint ==
    \A p \in 1..MaxPages : \A g \in On(p) :
        /\ entries[g].x + Raster[g].w <= PageWidth
        /\ entries[g].y + Raster[g].h <= PageHeight
        /\ \A k \in On(p) \ {g} :
             \/ Apart(entries[g].x, Raster[g].w, entries[k].x, Raster[k].w)
             \/ Apart(entries[g].y, Raster[g].h, entries[k].y, Raster[k].h)

(* Every entry is of the generation and the format of its page, and the    *)
(* count and the area a page keeps by hand are those of its entries.       *)
TableExact == \A p \in 1..MaxPages :
    /\ \A g \in On(p) : /\ entries[g].gen = pages[p].gen
                        /\ Raster[g].format = pages[p].format
    /\ pages[p].live = Cardinality(On(p))
    /\ pages[p].area = MapThenSumSet(LAMBDA g : Raster[g].w * Raster[g].h, On(p))

(* A submission that passes for current, however many others were prepared *)
(* since, names places where its glyphs still are.                         *)
CurrentIsThere == \A t \in Holders : Current(held[t]) =>
    \A g \in DOMAIN held[t].places :
        g \in DOMAIN entries /\ PlaceOf(entries[g]) = held[t].places[g]

(* No sequence of resets makes a stale submission current again.           *)
StaleStaysStale == [][\A t \in Holders :
    held[t].atlas # 0 /\ held'[t] = held[t] /\ ~Current(held[t]) => ~Current(held[t])']_atlasVars

(* The table holds no more entries than it was made for                    *)
(* (docs/Z2F2_BOUNDED_GLYPH_RASTER_ATLAS_SUBMISSION.md).  It does not hold *)
(* where a page without entries is reset to make room for one.             *)
EntriesBounded == Cardinality(DOMAIN entries) <= MaxEntries
================================================================================
