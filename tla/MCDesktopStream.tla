-------------------------- MODULE MCDesktopStream --------------------------
(***************************************************************************)
(* The module of the TLC runs of DesktopStream.                            *)
(***************************************************************************)
EXTENDS DesktopStream
=============================================================================
