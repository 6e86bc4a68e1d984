------------------------------ MODULE MCAudit ------------------------------
(* Instances of module Audit for TLC. *)
EXTENDS Audit

CONSTANTS c1, c2, e1, e2

MCReplica == {c1, c2}
MCEventId == {e1, e2}

MCMessage ==
  {[id |-> e1, form |-> "event"], [id |-> e2, form |-> "event"],
   [id |-> e1, form |-> "no_id"], [id |-> e2, form |-> "malformed"]}
=============================================================================
