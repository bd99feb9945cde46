---------------------------- MODULE MCApplyPatch ----------------------------
(* Small scripts for TLC.                                                  *)
EXTENDS ApplyPatch, Sequences

MCFiles     == <<"inplace", "copy", "inplace">>
MCMixed     == <<"part", "inplace", "copy">>
MCOnePart   == <<"part">>

=============================================================================
