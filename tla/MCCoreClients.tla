---------------------------- MODULE MCCoreClients ----------------------------
(***************************************************************************)
(* A small instance of CoreClients for TLC: a breaker that opens after two *)
(* failures, one sender beside the flushers, and a queue that is flushed   *)
(* at two events.                                                          *)
(***************************************************************************)
EXTENDS CoreClients, TLC

CONSTANTS s1

Senders == {s1}
Encodes == {1, 2}
=============================================================================
