------------------------------- MODULE MCBus -------------------------------
(***************************************************************************)
(* The device API with one multiboot module and four names; a driver on a  *)
(* bus that may be registered twice; and scans of a handful of machines.   *)
(***************************************************************************)
EXTENDS Pci

CONSTANTS mbmod00, driver1, driver2

MCMbMod == <<mbmod00>>

Only(as, did) == [x \in as |-> [did |-> did, vid |-> 4660]]
\* A host bridge, an ISA bridge, and a device of two functions that has the name of
\* slot 30; function 7 of slot 2 alone is never asked for.
Desktop ==
    (<<0, 0, 0>> :> [did |-> 4663, vid |-> 32902]) @@ (<<0, 1, 0>> :> [did |-> 28672, vid |-> 32902])
      @@ Only({<<0, 3, 0>>, <<0, 2, 7>>}, 272) @@ Only({<<0, 3, 7>>}, 400)
      @@ (<<0, 30, 0>> :> [did |-> 273, vid |-> 4369])
\* Two bridges lead to bus 6.
Bridged == Only({<<0, 0, 0>>, <<0, 5, 0>>}, 1540) @@ Only({<<6, 4, 0>>}, 128)
\* Functions of device 0 stand for buses; one of them has a device of pin 1 in slot 0.
Many == Only({<<0, 0, 0>>, <<0, 0, 1>>, <<0, 0, 6>>}, 128)
          @@ (<<1, 0, 0>> :> [did |-> 28944, vid |-> 32902]) @@ Only({<<6, 0, 0>>}, 260)
\* A bridge on bus 6.
Endless == Only({<<0, 0, 0>>, <<6, 1, 0>>}, 1540)

Registry ==
    [dev |-> TRUE, drivers |-> {}, buses |-> {}, entries |-> {}, machines |-> {<<>>}, scans |-> 0]
Drivers ==
    [dev |-> FALSE, drivers |-> {driver1}, buses |-> {"usb"}, entries |-> {1, 2}, machines |-> {<<>>},
     scans |-> 0]
Scans(n, machines) ==
    [dev |-> FALSE, drivers |-> {}, buses |-> {}, entries |-> {}, machines |-> machines, scans |-> n]
MCPlan == {Registry, Drivers, Scans(1, {Desktop, Many, Endless}), Scans(2, {Bridged})}
=============================================================================
