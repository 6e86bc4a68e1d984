-------------------------- MODULE MCNotifications --------------------------
(* Instances of module Notifications for TLC. *)
EXTENDS Notifications

CONSTANTS c1, c2

MCReplica == {c1, c2}
MCMessage == {"created", "other", "malformed", "unsendable"}
=============================================================================
