-------------------------- MODULE MCTransferClaim --------------------------
(* Settings files, with one admin request at a time.                       *)
EXTENDS SettingsTransfer, TransferSamples
=============================================================================
