------------------------------ MODULE MCDaemon ------------------------------
(* The daemon with no thread pinned: every item's announcement passes.     *)
EXTENDS Daemon

MCAnnounced == 1..NumItems
=============================================================================
