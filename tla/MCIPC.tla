------------------------------- MODULE MCIPC -------------------------------
(* Instances of IPC: who calls which service with how much. *)
EXTENDS IPCInv, TLC

CONSTANTS t1, t2, t3, s1, s2, s3

J(c, s, sync, req, resp, n) ==
    [core |-> c, ser |-> s, sync |-> sync, req |-> req, resp |-> resp, times |-> n]

\* Core 0 sends a message of two fragments and one of one fragment to the same
\* service, whose fragments could mix.  Core 1 calls another service and waits;
\* the answer competes with the messages for tx_mutex on core 0 and for rx_mutex
\* on core 1.
MCLink == (t1 :> J(0, s1, FALSE, 2, 1, 1)) @@ (t2 :> J(1, s2, TRUE, 1, 1, 1))
          @@ (t3 :> J(0, s1, FALSE, 1, 1, 1))

\* Both cores call the same service, and each answer is longer than queue,
\* receive task and slot can hold together.
MCBoth == (t1 :> J(0, s1, TRUE, 1, 4, 1)) @@ (t2 :> J(1, s1, TRUE, 1, 4, 1))

\* Core 0 adds a service of its own while the others are in use.
MCLate == {<<0, s3>>}
=============================================================================
