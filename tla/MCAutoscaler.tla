---------------------------- MODULE MCAutoscaler ----------------------------
(* Instances of Autoscaler for TLC. *)
EXTENDS Autoscaler

AllEvents == {"decrease", "reload", "restart", "added", "removed",
              "softList", "lostAnswer", "deleteFails"}

=============================================================================
