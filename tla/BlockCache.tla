----------------------------------- MODULE BlockCache -----------------------------------
(***************************************************************************)
(* The cache of immutable source blocks: blocks enter the warm tier, a     *)
(* second read promotes them to the hot tier, and what a promotion pushes  *)
(* out of the hot tier is warm again.  The bytes of both tiers and of the  *)
(* ledger are counted by hand.  All work is done under one mutex; a read   *)
(* goes block by block.                                                    *)
(***************************************************************************)
EXTENDS Integers, FiniteSetsExt

CONSTANTS Blocks,
          BlockSize,           \* BlockSize[b]: bytes of b; the last block of a source is short
          BlockBytes, HotBytes, WarmBytes

NoBlock == "none"

BlockCacheAssumption ==
    /\ IsFiniteSet(Blocks) /\ NoBlock \notin Blocks
    /\ BlockBytes \in Nat \ {0} /\ BlockSize \in [Blocks -> 1..BlockBytes]
    /\ HotBytes \in {0} \cup {n \in Nat : n >= BlockBytes}
    /\ WarmBytes \in {0} \cup {n \in Nat : n >= BlockBytes}
    /\ HotBytes > 0 => WarmBytes > 0

VARIABLES cache,   \* [tier, older, hot, warm, charged]: the tier of each block; <<x, y>> where
                   \* x was last touched before y; bytes of the tiers; bytes of the ledger
          last,    \* the last read that left its block here: [block, was]
          lost     \* bytes reserved for blocks whose admission threw

blockVars == <<cache, last, lost>>

NoRead == [block |-> NoBlock, was |-> NoBlock]
NoBlocks == [tier |-> [b \in Blocks |-> "cold"], older |-> {}, hot |-> 0, warm |-> 0, charged |-> 0]

BlockInit == cache = NoBlocks /\ last = NoRead /\ lost = 0
-----------------------------------------------------------------------------
InTier(c, tier) == {b \in Blocks : c.tier[b] = tier}
Present(c) == {b \in Blocks : c.tier[b] # "cold"}
SizeOf(S) == MapThenSumSet(LAMBDA b : BlockSize[b], S)
Among(older, S) == {p \in older : p[1] \in S /\ p[2] \in S}

(* b is touched after all the others.                                      *)
Newest(c, b) == Among(c.older, Blocks \ {b}) \cup ((Present(c) \ {b}) \X {b})
Touched(c, b) == [c EXCEPT !.older = Newest(c, b)]
Moved(c, b, tier) == [c.tier EXCEPT ![b] = tier]

Evicted(c, gone) ==
    [tier |-> [b \in Blocks |-> IF b \in gone THEN "cold" ELSE c.tier[b]],
     older |-> Among(c.older, Present(c) \ gone),
     hot |-> c.hot, warm |-> c.warm - SizeOf(gone), charged |-> c.charged - SizeOf(gone)]

(* The oldest warm blocks go, spared excepted, until the tier is within n: *)
(* those with which it is not, when all that are older have gone.          *)
EvictedToNewest(c, n, spared) ==   \* wrong on purpose
    LET warm == InTier(c, "warm") \ {spared}
        newer(b) == {d \in warm : <<b, d>> \in c.older}
    IN Evicted(c, {b \in warm : c.warm - SizeOf(newer(b)) > n})
EvictedTo(c, n, spared) ==
    LET warm == InTier(c, "warm") \ {spared}
        older(b) == {d \in warm : <<d, b>> \in c.older}
    IN Evicted(c, {b \in warm : c.warm - SizeOf(older(b)) > n})

Demoted(c, b, spared) ==
    EvictedTo([tier |-> Moved(c, b, "warm"), older |-> c.older, hot |-> c.hot - BlockSize[b],
               warm |-> c.warm + BlockSize[b], charged |-> c.charged], WarmBytes, spared)

(* The bytes of the block leave the warm tier first, so that what is       *)
(* demoted for its sake finds room; the oldest hot blocks are demoted      *)
(* until the block fits.                                                   *)
LastTouched(c, S) == CHOOSE b \in S : \A d \in S \ {b} : <<d, b>> \in c.older
Promoted(c, b) ==
    LET out == [c EXCEPT !.warm = @ - BlockSize[b]]
        room == MapThenFoldSet(LAMBDA d, acc : IF acc.hot <= HotBytes - BlockSize[b] THEN acc
                                               ELSE Demoted(acc, d, b),
                               out, LAMBDA d : d, LAMBDA S : LastTouched(out, S), InTier(c, "hot"))
    IN [tier |-> Moved(room, b, "hot"), older |-> room.older, hot |-> room.hot + BlockSize[b],
        warm |-> room.warm, charged |-> room.charged]

ReadResident(b) ==
    LET was == cache.tier[b]
        c == Touched(cache, b)
    IN /\ was # "cold"
       /\ cache' = IF was = "warm" /\ HotBytes > 0 THEN Promoted(c, b) ELSE c
       /\ last' = [block |-> b, was |-> was]
       /\ UNCHANGED lost
-----------------------------------------------------------------------------
(* The loader failed, or the cache keeps no block.                         *)
ReadUncached(b) == /\ cache.tier[b] = "cold"
                   /\ UNCHANGED blockVars

Reserves(c, n) == c.charged + n <= HotBytes + WarmBytes

(* Room is made in the warm tier before the ledger is asked.               *)
MadeRoom(b) == EvictedTo(cache, WarmBytes - BlockSize[b], NoBlock)
Admitted(c, b) == [tier |-> Moved(c, b, "warm"), older |-> Newest(c, b), hot |-> c.hot,
                   warm |-> c.warm + BlockSize[b], charged |-> c.charged + BlockSize[b]]

(* throws: the map could not take the entry, and the reservation stays.    *)
ReadCold(b, throws) ==
    LET c == MadeRoom(b) IN
    /\ cache.tier[b] = "cold" /\ WarmBytes > 0
    /\ \/ /\ ~Reserves(c, BlockSize[b])
          /\ cache' = c /\ last' = NoRead /\ UNCHANGED lost
       \/ /\ Reserves(c, BlockSize[b]) /\ throws
          /\ cache' = [c EXCEPT !.charged = @ + BlockSize[b]]
          /\ lost' = lost + BlockSize[b] /\ last' = NoRead
       \/ /\ Reserves(c, BlockSize[b]) /\ ~throws
          /\ cache' = Admitted(c, b)
          /\ last' = [block |-> b, was |-> "cold"]
          /\ UNCHANGED lost

EvictAll == /\ cache' = [NoBlocks EXCEPT !.charged = cache.charged - SizeOf(Present(cache))]
            /\ last' = NoRead
            /\ UNCHANGED lost

BlockNext == \/ \E b \in Blocks : ReadResident(b) \/ ReadUncached(b)
             \/ \E b \in Blocks, throws \in BOOLEAN : ReadCold(b, throws)
             \/ EvictAll

BlockSpec == BlockInit /\ [][BlockNext]_blockVars
-----------------------------------------------------------------------------
(* The order of touching is one of all that are present.                   *)
BlockCacheTypeOK ==
    /\ cache.tier \in [Blocks -> {"cold", "warm", "hot"}]
    /\ cache.older \subseteq Present(cache) \X Present(cache)
    /\ \A x, y \in Present(cache) : x = y \/ <<x, y>> \in cache.older \/ <<y, x>> \in cache.older
    /\ cache.hot \in Nat /\ cache.warm \in Nat /\ cache.charged \in Nat /\ lost \in Nat
    /\ last \in [block : Blocks, was : {"cold", "warm", "hot"}] \cup {NoRead}

(* The counters say what is resident; the ledger is ahead of them only by  *)
(* what failed admissions left behind.                                     *)
BytesExact == /\ cache.hot = SizeOf(InTier(cache, "hot"))
              /\ cache.warm = SizeOf(InTier(cache, "warm"))
              /\ cache.charged = cache.hot + cache.warm + lost

(* Neither tier outgrows its budget, in no order of promotions.            *)
BudgetsKept == /\ cache.hot <= HotBytes /\ cache.warm <= WarmBytes
               /\ cache.charged <= HotBytes + WarmBytes

(* A block that is read again is hot and still there, and the last to go:  *)
(* the code's ways out of a promotion that finds no room are never taken.  *)
ReadAgainIsHot == last # NoRead =>
    /\ cache.tier[last.block] = IF last.was = "cold" \/ HotBytes = 0 THEN "warm" ELSE "hot"
    /\ \A b \in Present(cache) \ {last.block} : <<b, last.block>> \in cache.older

(* What one read pushes out entirely is no hotter than what it keeps: no   *)
(* hot block leaves the cache while an older warm one stays.               *)
OlderGoesFirst ==
    [][\A x, y \in Blocks :
          <<x, y>> \in cache.older /\ cache.tier[x] = "warm" /\ cache'.tier[y] = "cold"
          => cache'.tier[x] # "warm"]_blockVars
================================================================================
