---------------------------- MODULE MCRingBuffer ----------------------------
(***************************************************************************)
(* Small instances of RingBuffer for TLC.                                  *)
(***************************************************************************)
EXTENDS RingBuffer

TwoProducers == {"process_at", "recv"}
OneWatcher == {"intr_in"}
Long == {3}

=============================================================================
