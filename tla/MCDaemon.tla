------------------------------- MODULE MCDaemon -------------------------------
(***************************************************************************)
(* Configurations for TLC: what components_to_skip may leave.  The last    *)
(* two lack a dependency, and the daemon refuses to start.                 *)
(***************************************************************************)
EXTENDS Daemon

Stores == {"upnp", "database", "blobs", "wallet"}

MCConfigs ==
    {Stores \cup {"files", "tracker"}, Stores \cup {"files", "disk"}, Stores \cup {"peer", "exchange"},
     {"database", "blobs", "upnp", "dht", "announcer", "disk", "background"},
     {"database", "blobs", "disk", "background"}, {"torrent"},
     {"database", "files", "blobs"}, {"tracker"}}
===============================================================================
