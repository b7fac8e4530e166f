------------------------------ MODULE MCMonitor ------------------------------
(* Monitor for three notifications.                                          *)
EXTENDS Monitor
=============================================================================
