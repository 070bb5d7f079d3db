---------------------------- MODULE MCVmLifecycle ----------------------------
(* VmLifecycle with up to three vCPUs and RAM that is no whole page: one   *)
(* size is rounded up by a byte, the other wraps around to 0.              *)
EXTENDS VmLifecycle
=============================================================================
