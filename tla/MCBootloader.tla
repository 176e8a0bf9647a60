---------------------------- MODULE MCBootloader ----------------------------
(* Bootloader on a slot of a few flash words: chunks that straddle sectors, *)
(* sizes around every boundary, and a checksum with collisions that also    *)
(* takes the value of a blank tag.                                          *)
EXTENDS Bootloader

MCCrc(s) ==
  LET term[w \in SlotWord] == IF w = 0 THEN s[0] ELSE term[w - 1] + (w + 1) * s[w]
  IN  term[SlotWords - 1] % 3
=============================================================================
