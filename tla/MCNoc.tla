------------------------------- MODULE MCNoc -------------------------------
(***************************************************************************)
(* Portals and synchronization points for TLC.  The first state picks one  *)
(* part, and only that part moves: portals that receive from another node  *)
(* and from the node itself, portals that send to another node, the        *)
(* synchronization points of two nodes, or those of three nodes, whose     *)
(* groups outnumber the points.                                            *)
(***************************************************************************)
EXTENDS MCChannels

CONSTANTS Master, ReleaseFails

VARIABLES part, tab, points, ops, refs

syncVars == <<tab, points, ops, refs>>

O == INSTANCE Channels WITH Targets <- RemoteZero, Filters <- RemoteZero

S == INSTANCE VSync WITH
        hw <- points, SYNC_CREATE_MAX <- 2, SYNC_OPEN_MAX <- 1, Nodes <- {"n0", "n1"},
        LocalNode <- "n0", Modes <- {"ONE_TO_ALL", "ALL_TO_ONE"}, MaxRefs <- 1

G == INSTANCE VSync WITH
        hw <- points, SYNC_CREATE_MAX <- 1, SYNC_OPEN_MAX <- 1, Nodes <- {"n0", "n1", "n2"},
        LocalNode <- "n0", Modes <- {"ONE_TO_ALL", "ALL_TO_ONE"}, MaxRefs <- 1

ASSUME VSyncInstances == S!VSyncAssumption /\ G!VSyncAssumption

MCInit ==
    /\ part \in {"portal", "sender", "sync", "groups"}
    /\ Init
    /\ IF part = "groups" THEN G!Init ELSE S!Init

MCNext ==
    /\ UNCHANGED part
    /\ \/ part = "portal" /\ Next /\ UNCHANGED syncVars
       \/ part = "sender" /\ O!Next /\ UNCHANGED syncVars
       \/ part = "sync" /\ S!Next /\ UNCHANGED vars
       \/ part = "groups" /\ G!Next /\ UNCHANGED vars

MCSpec == MCInit /\ [][MCNext]_<<part, vars, syncVars>>

(* The property of the same name of VSync, about _do_sync_alloc(),         *)
(* _do_sync_release() and _do_sync_operate().                              *)
EntriesExact ==
    /\ part = "sync" => S!EntriesExact
    /\ part = "groups" => G!EntriesExact

(* The property of the same name of VSync, about _do_sync_release() by one *)
(* of the users that share an entry.                                       *)
ReferenceStable == S!ReferenceStable
=============================================================================
