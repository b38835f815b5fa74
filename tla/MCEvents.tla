------------------------------ MODULE MCEvents ------------------------------
(* Two requests, run by libevent's loop or by one of the script.           *)
EXTENDS EventLoop

MCKinds == {"event", "user"}
=============================================================================
