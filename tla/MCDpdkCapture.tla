---------------------------- MODULE MCDpdkCapture ----------------------------
(* One reader with two workers: readers share nothing but what the main       *)
(* thread waits for.                                                          *)
EXTENDS DpdkCapture

MCReaders == {"r1"}
=============================================================================
