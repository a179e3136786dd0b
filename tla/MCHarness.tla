----------------------------- MODULE MCHarness -----------------------------
(* The scripts of code/scripts on two servers and two levels.              *)
EXTENDS Harness

MCServers == <<"server_select", "epoll_lt_server">>
MCLevels == <<0, 2000>>
=============================================================================
