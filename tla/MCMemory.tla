------------------------------- MODULE MCMemory -------------------------------
(* What is kept in memory, side by side: a font cache, the block cache, the  *)
(* mapped window of cold segments, the glyph atlas, the ledger with its       *)
(* shadow, and the checkpoints and source windows from which lines are laid  *)
(* out. In a behaviour one of them moves.                                    *)
EXTENDS LayoutWindows, SingleFlightCache, ResourceLedger, TLC

CONSTANTS t1, t2, t3, one, two

ThreeThreads == {t1, t2, t3}
Pair == {one, two}
Alike == Permutations(ThreeThreads) \cup Permutations(Pair)
FontSizes == [f \in {"large", "small"} |-> IF f = "large" THEN 4 ELSE 2]
BlockSizes == [x \in {"b1", "b2", "b3", "b4", "b5"} |-> IF x \in {"b1", "b2", "b5"} THEN 2 ELSE 1]
GlyphSizes == <<[w |-> 2, h |-> 1, format |-> "a8"], [w |-> 2, h |-> 2, format |-> "a8"],
                [w |-> 1, h |-> 2, format |-> "rgba"], [w |-> 0, h |-> 0, format |-> "none"]>>

(* In the font cache one font fills the cache, the other half of it.  The   *)
(* sizes of the ledger have two bits, so that two classes can overflow.     *)
ASSUME CacheAssumption
ASSUME LedgerAssumption

(* Three records: a sequence cut short inside and at the end, a tab wider  *)
(* than a line, a newline at the end; one height guessed too small, one too *)
(* large, one right.  At most three lines are shown.                        *)
Pages == <<<<"char", "lead3", "tail", "newline", "char">>, <<"newline", "tab", "char", "lead2">>, <<"char", "newline">>>>
Guesses == <<4, 12, 5>>

VARIABLE part   \* the component that moves; the others stay as they begin

(* Three whole blocks and two short ones; the hot tier holds two blocks.     *)
VARIABLES bCache, bLast, bLeaked
Blocks == INSTANCE BlockCache
    WITH Blocks <- DOMAIN BlockSizes, BlockSize <- BlockSizes, BlockBytes <- 2,
         HotBytes <- 4, WarmBytes <- 3, cache <- bCache, last <- bLast,
         lost <- bLeaked
ASSUME Blocks!BlockCacheAssumption

(* Segments of up to two pages, a window of one and a half.                  *)
VARIABLES cSize, cView, cCharged, cLeaked, cRequest, cResult
Cold == INSTANCE ColdWindow
    WITH Paths <- Pair, MaxSize <- 4, Granularity <- 2, Window <- 3,
         size <- cSize, view <- cView, charged <- cCharged,
         leaked <- cLeaked, request <- cRequest, result <- cResult
ASSUME Cold!ColdWindowAssumption

(* Three glyphs of which each wants a page, one empty, and three entries.    *)
VARIABLES aPages, aEntries, aAtlas, aEpoch, aHeld
Atlas == INSTANCE GlyphAtlas
    WITH Glyphs <- 1..4, Raster <- GlyphSizes, PageWidth <- 3,
         PageHeight <- 2, Padding <- 0, MaxPages <- 2, MaxEntries <- 3,
         Holders <- Pair, MaxEpoch <- 2, pages <- aPages,
         entries <- aEntries, atlas <- aAtlas, epoch <- aEpoch, held <- aHeld
ASSUME Atlas!AtlasAssumption

BlocksVars == <<bCache, bLast, bLeaked>>
ColdVars == <<cSize, cView, cCharged, cLeaked, cRequest, cResult>>
AtlasVars == <<aPages, aEntries, aAtlas, aEpoch, aHeld>>
LinesVars == vars
all == <<part, cacheVars, BlocksVars, ColdVars, AtlasVars, ledgerVars, LinesVars>>

Start == /\ part \in {"fonts", "blocks", "cold", "atlas", "ledger", "lines"}
         /\ CacheInit
         /\ Blocks!BlockInit
         /\ Cold!Init
         /\ part = "cold" \/ \A p \in Pair : cSize[p] = 0
         /\ Atlas!AtlasInit
         /\ LedgerInit
         /\ Init
         /\ part = "lines" \/ files = {}

FontsMoves == /\ part = "fonts" /\ CacheNext
              /\ UNCHANGED <<part, BlocksVars, ColdVars, AtlasVars, ledgerVars, LinesVars>>
BlocksMoves == /\ part = "blocks" /\ Blocks!BlockNext
               /\ UNCHANGED <<part, cacheVars, ColdVars, AtlasVars, ledgerVars, LinesVars>>
ColdMoves == /\ part = "cold" /\ Cold!Next
             /\ UNCHANGED <<part, cacheVars, BlocksVars, AtlasVars, ledgerVars, LinesVars>>
AtlasMoves == /\ part = "atlas" /\ Atlas!AtlasNext
              /\ UNCHANGED <<part, cacheVars, BlocksVars, ColdVars, ledgerVars, LinesVars>>
LedgerMoves == /\ part = "ledger" /\ LedgerNext
              /\ UNCHANGED <<part, cacheVars, BlocksVars, ColdVars, AtlasVars, LinesVars>>
LinesMoves == /\ part = "lines" /\ Next
              /\ UNCHANGED <<part, cacheVars, BlocksVars, ColdVars, AtlasVars, ledgerVars>>

Moves == FontsMoves \/ BlocksMoves \/ ColdMoves \/ AtlasMoves \/ LedgerMoves \/ LinesMoves

SumSpec == Start /\ [][Moves]_all
--------------------------------------------------------------------------------
ASSUME WindowsAssumption

(* Every account says what it accounts for: the blocks of each tier, the   *)
(* mapped bytes, the glyphs of a page; the fonts and the ledgers have       *)
(* invariants of their own.  No order of promotions, evictions and          *)
(* remappings outgrows a budget, and the cold window is never refused       *)
(* because of the window it replaces.                                       *)
AccountsExact ==
    /\ CacheTypeOK /\ Blocks!BlockCacheTypeOK /\ Cold!ColdWindowTypeOK
    /\ Blocks!BytesExact /\ Blocks!BudgetsKept
    /\ Cold!ChargeExact /\ Cold!NeverRefused
    /\ Atlas!AtlasTypeOK /\ Atlas!TableExact

(* What was asked for is there: a block read again is hot, a range that    *)
(* was touched is mapped, within the file, and the glyphs of a submission  *)
(* that passes for current are where it says, apart from each other.       *)
AskedIsThere == /\ Blocks!ReadAgainIsHot /\ Cold!TouchedIsMapped
                /\ Atlas!CurrentIsThere /\ Atlas!PlacesDisjoint

(* What is cached is accounted for and there when it is asked for; no hot  *)
(* block leaves before an older warm one, no class of the ledger grows      *)
(* beyond its limit nor lowers its peak, and a stale submission of glyphs   *)
(* stays stale.                                                             *)
CachesAreTrue == /\ []AccountsExact /\ []AskedIsThere
                 /\ Blocks!OlderGoesFirst /\ LimitsHonoured /\ Atlas!StaleStaysStale

(* A window laid out from checkpoints has the lines a full scan finds, the *)
(* record under the scroll position stays there, and a window laid out     *)
(* again where it says it is stays as it is.                               *)
LinesAsScanned == /\ []WindowsTypeOK /\ []Settled
                  /\ SameAsFullScan /\ AnchorKept
================================================================================
