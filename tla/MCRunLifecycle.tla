--------------------------- MODULE MCRunLifecycle ---------------------------
(***************************************************************************)
(* RunLifecycle for TLC: the shared path's two processes.                  *)
(***************************************************************************)
EXTENDS RunLifecycle

SharedPath == <<"adapter", "proxy">>

=============================================================================
