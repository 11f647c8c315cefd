------------------------------ MODULE MCAtlasFrames ------------------------------
(* Two glyphs that share a page and one that wants a page of its own, on a   *)
(* device with as many textures as the atlas has pages.                      *)
EXTENDS AtlasFrames

Sizes == <<[w |-> 2, h |-> 1, format |-> "a8"], [w |-> 1, h |-> 1, format |-> "a8"],
           [w |-> 3, h |-> 1, format |-> "rgba"]>>
ThreeGlyphs == 1..3
ManyTexts == {{1, 3}, {1, 2}}
================================================================================
