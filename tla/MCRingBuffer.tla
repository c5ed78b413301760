---------------------------- MODULE MCRingBuffer ----------------------------
(***************************************************************************)
(* An instance of RingBuffer for TLC.                                      *)
(***************************************************************************)
EXTENDS RingBuffer

(* Everything a caller may append, up to one byte more than fits.          *)
AllData == UNION {[1 .. n -> Byte] : n \in 1 .. Capacity + 1}
=============================================================================
