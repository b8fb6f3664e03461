----------------------------- MODULE MCFixStore -----------------------------
(* Instance of FixStore for TLC: two request ids, one fingerprint (a second *)
(* one is only refused), one wire, two kinds of events, and sequence        *)
(* numbers, event ids and transmission ids up to small bounds.              *)
EXTENDS FixStore

MCSeqNums == 0..2
MCEventIds == 1..4
MCTransmissionIds == 1..2
=============================================================================
