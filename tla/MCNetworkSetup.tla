-------------------------- MODULE MCNetworkSetup --------------------------
(* NetworkSetup with the interfaces of three machine classes. *)
EXTENDS NetworkSetup, TLC

Interface(device, efa, prefixes) ==
    [device |-> device, efa |-> efa, prefixes |-> prefixes]

\* No device index: every interface is where the class lists it.
InOrder == <<Interface(None, FALSE, 1), Interface(None, TRUE, None),
             Interface(None, FALSE, 2)>>

\* One interface per network card, all but the first with device index 1, the
\* last of them with a prefix.
OnCards == <<Interface(0, FALSE, 1), Interface(1, TRUE, None),
             Interface(1, FALSE, 1)>>
==========================================================================
