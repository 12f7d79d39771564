---------------------------- MODULE MCRingBuffer ----------------------------
(* The ring buffer with four slots of two distinguishable bytes; calls of  *)
(* up to five bytes overrun it.                                            *)
EXTENDS RingBuffer
=============================================================================
