-------------------------------- MODULE Pci --------------------------------
(***************************************************************************)
(* The module bus_pci (newland/arch/x86/modules/bus/pci.c): it registers   *)
(* the bus "pci", scans the configuration space and adds an entry for each *)
(* function it finds.                                                      *)
(*                                                                         *)
(* pci_read32 and the others leave the register out of the address, so     *)
(* that every read gives register 0: the device number above the vendor    *)
(* number.  The header type, the class, the interrupt line and pin, the    *)
(* secondary bus and the base addresses are all taken from there.  Writes  *)
(* go to register 0 too, which is read-only.                               *)
(*                                                                         *)
(* The recursion of check_bus through bridges is a stack of the buses      *)
(* being checked and the last function seen on each; a step is one         *)
(* check_func.  The scan runs at boot with interrupts off.                 *)
(***************************************************************************)
EXTENDS Bus

CONSTANTS PciBus,     \* "pci"
          MaxDepth,   \* frames of check_bus the kernel stack has room for
          Plan        \* what is done in a behaviour, see below

\* A behaviour explores the device API alone, or a few drivers and the calls on
\* buses and entries of these names, or scans of one of these machines, which give
\* a device and a vendor number per function; a function is <<bus, slot, func>>,
\* numbers of 8, 5 and 3 bits.  The module is initialised p.scans times at most.
Below(n) == 0..(n - 1)
Addr == Below(256) \X Below(32) \X Below(8)
ASSUME PlanAssumption ==
    \A p \in Plan :
        /\ p.dev \in BOOLEAN /\ p.drivers \subseteq Name
        /\ p.machines = {<<>>} \/ p.buses = {}
        /\ \A mach \in p.machines : \A a \in DOMAIN mach :
              a \in Addr /\ mach[a].did \in Below(65536) /\ mach[a].vid \in Below(65535)
ASSUME MaxDepthAssumption == MaxDepth \in Nat /\ MaxDepth >= 2

VARIABLES machine,
          scan,       \* st, the buses still to check, the stack of check_bus
          scans,
          hasisa,
          plan        \* chosen at the start

pci_vars == <<machine, scan, scans, hasisa, plan>>
-----------------------------------------------------------------------------
(* The configuration space as the code reads it *)

pci_read32(a) == IF a \in DOMAIN machine THEN machine[a] ELSE [did |-> 65535, vid |-> 65535]
pcidev_getdevice(a) == pci_read32(a).did
pcidev_getvendor(a) == pci_read32(a).vid
pcidev_gethdrtype(a) == pci_read32(a).did % 256
pcidev_get2ndbus(a) == pci_read32(a).did \div 256
pcidev_getintpin(a) == pci_read32(a).did \div 256
pcidev_getintline(a) == pci_read32(a).did % 256

There(a) == pcidev_getvendor(a) # 65535
Multi(a) == pcidev_gethdrtype(a) >= 128
Bridge(a) == pcidev_getdevice(a) \div 256 = 6 /\ pcidev_getdevice(a) % 256 = 4

\* The interrupts it may get.  Once the ISA bridge has been seen the line comes
\* from remaps, which stays zero; for pin 1 of slot 0 it comes from remaps[-1].
pci_getint(a) ==
    IF ~hasisa \/ pcidev_getintpin(a) = 0 THEN {pcidev_getintline(a)}
    ELSE IF pcidev_getintpin(a) + a[2] = 1 THEN {0, 1, pcidev_getintline(a)}
    ELSE {0}

\* genres of one base address, and the list the six of them, which are alike,
\* leave.  Numbers of 32 bits are a pair of halves.
genres(a) ==
    LET r == pci_read32(a)
        io == r.vid % 2 = 1 /\ (r.vid \div 4) % 2 = 0
        value == IF io THEN <<0, 4 * (r.vid \div 4)>> ELSE <<r.did, 16 * (r.vid \div 16)>>
        size == IF r.vid = 0 THEN <<65536 - r.did, 0>> ELSE <<65535 - r.did, 65536 - r.vid>>
    IN  IF <<0, 0>> \in {<<r.did, r.vid>>, value} THEN <<>>
        ELSE <<[type |-> IF io THEN "io" ELSE "mem", value |-> value, size |-> size]>>
Resources(a) == IF Multi(a) \/ genres(a) = <<>> THEN <<>> ELSE [i \in 1..6 |-> genres(a)[1]]

\* The name is written by itoa, the least digits left out filled up on the right:
\* bus 1 reads as bus 10 and 100 do, slot 3 as slot 30.
itoa(width, n) ==
    IF width = 3 THEN (IF n < 10 THEN n * 100 ELSE IF n < 100 THEN n * 10 ELSE n)
    ELSE IF n < 10 THEN n * 10 ELSE n
pci_name(a) == <<itoa(3, a[1]), itoa(2, a[2]), a[3]>>
-----------------------------------------------------------------------------
(* The scan *)

Scanning == scan.st = "scanning"
NoScan == [st |-> "idle", todo |-> {}, stack |-> <<>>]

\* scan_buses: bus 0, or the bus of the number of each function of device 0.
scan_buses ==
    IF ~Multi(<<0, 0, 0>>) THEN {0} ELSE {func \in Below(8) : There(<<0, 0, func>>)}

\* MODULE_INIT: it may be called more than once, see Loader.
pci_init ==
    /\ ~Scanning /\ scans < plan.scans
    /\ register_bus(PciBus)
    /\ scan' = [st |-> "scanning", todo |-> scan_buses, stack |-> <<>>]
    /\ scans' = scans + 1
    /\ UNCHANGED <<machine, hasisa, plan>>

\* MODULE_FINI: the loader keeps it in modinfo_t and does not call it yet.
pci_fini ==
    /\ scan.st = "done"
    /\ unregister_bus(PciBus)
    /\ scan' = NoScan
    /\ UNCHANGED <<machine, scans, hasisa, plan>>

\* Mutant: the last function of a device is left out.
check_dev_seven(bus, pos) ==
    {8 * x[2] + x[3] : x \in {y \in DOMAIN machine :
        y[1] = bus /\ 8 * y[2] + y[3] > pos /\ There(<<bus, y[2], 0>>) /\ y[3] < 7}}

\* check_bus and check_dev: the functions of a bus after position pos, in order of
\* device and function, of the devices that have a function 0.
check_dev(bus, pos) ==
    {8 * x[2] + x[3] : x \in {y \in DOMAIN machine :
        y[1] = bus /\ 8 * y[2] + y[3] > pos /\ There(<<bus, y[2], 0>>)}}

check_bus_next ==
    /\ Scanning /\ scan.stack = <<>> /\ scan.todo # {}
    /\ scan' = [scan EXCEPT !.todo = @ \ {Min(scan.todo)}, !.stack = <<[bus |-> Min(scan.todo), pos |-> -1]>>]
    /\ UNCHANGED <<bus_vars, machine, scans, hasisa, plan>>

check_bus_ends ==
    /\ Scanning /\ scan.stack # <<>>
    /\ check_dev(Last(scan.stack).bus, Last(scan.stack).pos) = {}
    /\ scan' = [scan EXCEPT !.stack = Front(@)]
    /\ UNCHANGED <<bus_vars, machine, scans, hasisa, plan>>

\* found_dev: bus_adddev, whose EEXIST is not looked at, and what is written into
\* the entry of that name, the new one or the one that was there.  r is what of the
\* resources could be allocated; each is put in front of what the list begins with.
found_entry(k, a, r, int, new) ==
    LET old == IF pci_name(a) \in Names(k) THEN buses[k].dev_list[bus_getdevbyname(k, pci_name(a))]
               ELSE new
    IN  [name |-> pci_name(a), dname |-> old.dname, addr |-> a, res |-> r \o old.res,
         int |-> IF int = 0 THEN old.int ELSE int]

found_put(k, new) ==
    \/ /\ new.name \in Names(k)
       /\ buses' = [buses EXCEPT ![k].dev_list[bus_getdevbyname(k, new.name)] = new]
    \/ /\ new.name \notin Names(k)
       /\ buses' = [buses EXCEPT ![k].dev_list = SlistInsertHead(@, new), ![k].dev_count = @ + 1]

found_dev(a, r) ==
    \E int \in pci_getint(a), new \in NewEntry(pci_name(a)) :
        found_put(TheBus(PciBus), found_entry(TheBus(PciBus), a, r, int, new))
IsaBridge(a) == pcidev_getvendor(a) = 32902 /\ pcidev_getdevice(a) \in {28672, 28944}

\* Mutant: a bridge leads to the bus it is on.
check_func_same(a) == a[1]

\* The bus behind a bridge.
check_func(a) == pcidev_get2ndbus(a)

\* The next function of the bus on top of the stack.
NextFunc ==
    LET top == Last(scan.stack) p == Min(check_dev(top.bus, top.pos))
    IN  <<top.bus, p \div 8, p % 8>>
AtFunc ==
    /\ Scanning /\ scan.stack # <<>>
    /\ check_dev(Last(scan.stack).bus, Last(scan.stack).pos) # {}

check_func_found ==
    /\ AtFunc /\ buses[TheBus(PciBus)].clean
    /\ LET a == NextFunc
           at == [bus |-> a[1], pos |-> 8 * a[2] + a[3]]
       IN  /\ Bridge(a) => Len(scan.stack) < MaxDepth
           /\ scan' = [scan EXCEPT !.stack =
                 Front(@) \o <<at>> \o IF Bridge(a) THEN <<[bus |-> check_func(a), pos |-> -1]>> ELSE <<>>]
           /\ hasisa' = (hasisa \/ IsaBridge(a))
           /\ found_dev(a, Resources(a))
    /\ UNCHANGED <<buses_count, stale, lost, machine, scans, plan>>

\* A resource cannot be allocated: the error ends the scan, before the ISA bridge is
\* looked for.
check_func_fails ==
    /\ AtFunc /\ buses[TheBus(PciBus)].clean
    /\ Resources(NextFunc) # <<>>
    /\ scan' = [NoScan EXCEPT !.st = "failed"]
    /\ LET a == NextFunc
           r == Resources(a)
       IN  \E n \in 0..5 : found_dev(a, SubSeq(r, 1, n))
    /\ UNCHANGED <<buses_count, stale, lost, machine, scans, hasisa, plan>>

\* The list of the new bus starts anywhere, or an entry cannot be allocated and is
\* written through NULL.
check_func_lost ==
    /\ AtFunc
    /\ lost' = TRUE
    /\ UNCHANGED <<buses, buses_count, stale, pci_vars>>

\* The stack of the kernel is used up.
check_func_overflow ==
    /\ AtFunc /\ Bridge(NextFunc) /\ Len(scan.stack) = MaxDepth
    /\ scan' = [NoScan EXCEPT !.st = "overflow"]
    /\ UNCHANGED <<bus_vars, machine, scans, hasisa, plan>>

scan_done ==
    /\ Scanning /\ scan.stack = <<>> /\ scan.todo = {}
    /\ scan' = [scan EXCEPT !.st = "done"]
    /\ UNCHANGED <<bus_vars, machine, scans, hasisa, plan>>

PciInit == plan \in Plan /\ machine \in plan.machines /\ scan = NoScan /\ scans = 0 /\ hasisa = FALSE

ScanStep ==
    check_bus_next \/ check_bus_ends \/ check_func_found \/ check_func_fails
        \/ check_func_lost \/ check_func_overflow \/ scan_done

\* The three registries together.  The modules are initialised one after another
\* with interrupts off, so that nothing else happens during a scan.
SystemInit == Init /\ BusInit /\ PciInit

DevCalls ==
    /\ ~Scanning
    /\ \/ plan.dev /\ Next
       \/ \E name \in plan.drivers : register_tty(name) \/ unregister_tty(name)
    /\ UNCHANGED <<bus_vars, pci_vars>>
DriverCalls ==
    /\ ~Scanning
    /\ BusCalls(plan.buses, plan.entries, plan.drivers)
    /\ UNCHANGED <<vars, pci_vars>>
Scan == ScanStep /\ UNCHANGED vars
ModuleCalls == plan.machines # {<<>>} /\ (pci_init \/ pci_fini) /\ UNCHANGED vars

SystemNext == ~lost /\ (DevCalls \/ DriverCalls \/ ModuleCalls \/ Scan)

\* The scan is a loop of the boot thread, which nothing interrupts.
SystemSpec ==
    /\ SystemInit /\ [][SystemNext]_<<vars, bus_vars, pci_vars>>
    /\ WF_<<vars, bus_vars, pci_vars>>(~lost /\ Scan)
-----------------------------------------------------------------------------
(* What the scan is for, without its order: the functions on a set of buses *)
(* and the buses there are.                                                *)

FunctionsOn(bs) == {a \in DOMAIN machine : a[1] \in bs /\ <<a[1], a[2], 0>> \in DOMAIN machine}
Roots == IF ~Multi(<<0, 0, 0>>) THEN {0} ELSE {a[3] : a \in {b \in DOMAIN machine : b[1] = 0 /\ b[2] = 0}}
Reached == FunctionsOn(IF \E a \in FunctionsOn(Roots) : Bridge(a) THEN Roots \cup {6} ELSE Roots)

(***************************************************************************)
(* When the scan is over the bus has an entry for every function there is  *)
(* on the buses that can be reached, with the name the function gets and   *)
(* no other, and each entry has the address of a function of its name.     *)
(* The resources in its list are of functions of its name, but for what    *)
(* the memory of the entry held, which comes after all of them and which   *)
(* the list cannot be told from: nothing says where the scan's own end.    *)
(***************************************************************************)
ScanFinds ==
    scan.st = "done" =>
        LET list == Entries(TheBus(PciBus))
        IN  /\ {e.name : e \in list} = {pci_name(a) : a \in Reached}
            /\ \A e \in list :
                  /\ e.addr \in Reached /\ pci_name(e.addr) = e.name
                  /\ \A i \in 1..Len(e.res) :
                        \/ e.res[i] = Junk /\ i = Len(e.res)
                        \/ \E a \in Reached : pci_name(a) = e.name /\ <<e.res[i]>> = genres(a)

(***************************************************************************)
(* The scan comes to an end, whatever bridges there are, unless one sits   *)
(* on bus 6, the bus every bridge is taken to lead to.                     *)
(***************************************************************************)
ScanReturns ==
    (\A a \in FunctionsOn({6}) : ~Bridge(a)) => (Scanning ~> (scan.st \in {"done", "failed"} \/ lost))
=============================================================================
