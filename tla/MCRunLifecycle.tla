--------------------------- MODULE MCRunLifecycle ---------------------------
(* Instances of RunLifecycle for TLC. *)
EXTENDS RunLifecycle, TLC

CONSTANTS t1, r1, r2

(* Two requests for one task. *)
OneTaskOf == r1 :> t1 @@ r2 :> t1

(* A single request. *)
OneRunOf == r1 :> t1

=============================================================================
