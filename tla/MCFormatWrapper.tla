--------------------------- MODULE MCFormatWrapper ---------------------------
(* An instance of FormatWrapper for TLC: block sizes 2 to 8, a counter that
   holds up to 79, progress every 7 blocks, lengths around the ends of groups. *)
EXTENDS FormatWrapper

SomeLengths == 0 .. 100 \cup {127, 128, 129, 255, 256, 511, 512, 513}
SomeConfigs == [block : {0, 1, 2, 4, 8, 16}, inode : 0 .. 5, progress : BOOLEAN]
SomeCounts == {0, 1, 6, 7, 75, 79}
=============================================================================
