---------------------------- MODULE MCWorkspaces ----------------------------
(* Small instances of Workspaces, with what panels are told, for TLC.      *)
EXTENDS ExtWorkspace

CONSTANTS o1, o2, o3

ThreeOutputs == {o1, o2, o3}
=============================================================================
