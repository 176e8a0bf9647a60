------------------------------- MODULE MCUpload -------------------------------
(* Upload over a slot of three words and chunks of two: an image of one    *)
(* chunk and one of two, which contain the symbol of 'u'; the checksum of   *)
(* one is the blank tag.                                                    *)
EXTENDS Upload

MCCrc(s) == (s[0] + 2 * s[1] + s[2]) % 4

MCImage == {<<2, 1, 1>>, <<1, 1>>}
=============================================================================
