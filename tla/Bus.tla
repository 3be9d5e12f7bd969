-------------------------------- MODULE Bus --------------------------------
(***************************************************************************)
(* The buses of newland/src/bus.c, composed with the device API of Dev: an *)
(* entry of a bus names the device that drives it, and what bus_getdev     *)
(* finds depends on the devices that are registered at that moment.        *)
(*                                                                         *)
(* register_bus and bus_adddev take memory from kmalloc and leave parts of *)
(* it as they come.  The head of a new bus's list is NULL or anything      *)
(* (clean says which), and walking anything loses the kernel.  The driver  *)
(* name of a new entry is empty, or nothing a device is called, or what an *)
(* entry freed before had there.  Its list of resources is empty, or       *)
(* begins with what lay there, Junk: a resource freed before or no         *)
(* resource at all.                                                        *)
(***************************************************************************)
EXTENDS Dev, SequencesExt

CONSTANTS NoName,       \* the empty driver name
          MaxBuses      \* bound on the buses registered

ASSUME NoNameAssumption == NoName \notin Name

VARIABLES buses,        \* the list of buses, newest first
          buses_count,
          stale,        \* the driver names of entries given to kfree
          lost          \* the kernel walked a wild pointer

bus_vars == <<buses, buses_count, stale, lost>>

\* A bus is called by its name, so it is the newest of that name: nothing keeps
\* a name from being registered twice.
bus_fromname(name) == {k \in 1..Len(buses) : buses[k].name = name}
TheBus(name) == Min(bus_fromname(name))

Entries(k) == SlistElems(buses[k].dev_list)
Names(k) == {e.name : e \in Entries(k)}

\* The device of that name, if it is registered and drives an entry of the bus.
bus_getdev(k, dname) ==
    IF \E e \in Entries(k) : e.dname = dname THEN device_fromname(dname) ELSE NoDevice
bus_getdevbyname(k, name) ==
    CHOOSE i \in 1..Len(buses[k].dev_list) :
        /\ buses[k].dev_list[i].name = name
        /\ \A j \in 1..(i - 1) : buses[k].dev_list[j].name # name

\* A call on a bus that is there, and whose list can be walked.
OnBus(k) == k \in 1..Len(buses) /\ buses[k].clean
-----------------------------------------------------------------------------
register_bus(name) ==
    /\ Len(buses) < MaxBuses
    /\ \E clean \in BOOLEAN :
          buses' = SlistInsertHead(buses,
                      [name |-> name, dev_list |-> <<>>, dev_count |-> 0, clean |-> clean])
    /\ buses_count' = buses_count + 1
    /\ UNCHANGED <<stale, lost>>

\* The loop frees an entry and then reads its link, and walks the entry's list of
\* resources, whose end is as kmalloc left it: it gets through or is lost.
unregister_bus(name) ==
    /\ bus_fromname(name) # {}
    /\ buses' = RemoveAt(buses, TheBus(name))
    /\ buses_count' = buses_count - 1
    /\ stale' = stale \cup ({e.dname : e \in Entries(TheBus(name))} \ {NoName})
    /\ lost' \in {~buses[TheBus(name)].clean, Entries(TheBus(name)) # {}}

\* A new entry; res_list is not initialised, and addr and int are not either.
Junk == [type |-> "junk", value |-> <<0, 0>>, size |-> <<0, 0>>]
NewEntry(name) ==
    {[name |-> name, dname |-> dname, addr |-> <<>>, int |-> -1, res |-> rest] :
        dname \in stale \cup {NoName}, rest \in {<<>>, <<Junk>>}}

\* Mutant: a name is added again.
bus_adddev_again(k, name) ==
    \E e \in NewEntry(name) :
        buses' = [buses EXCEPT ![k].dev_list = SlistInsertHead(@, e), ![k].dev_count = @ + 1]

bus_adddev(k, name) ==
    /\ name \notin Names(k)
    /\ \E e \in NewEntry(name) :
          buses' = [buses EXCEPT ![k].dev_list = SlistInsertHead(@, e), ![k].dev_count = @ + 1]

\* The entry is not freed.
bus_remdev(k, name) ==
    /\ name \in Names(k)
    /\ buses' = [buses EXCEPT
          ![k].dev_list = RemoveAt(@, bus_getdevbyname(k, name)),
          ![k].dev_count = @ - 1]

bus_regdev(k, name, dname) ==
    /\ bus_getdev(k, dname) = NoDevice
    /\ name \in Names(k)
    /\ buses' = [buses EXCEPT ![k].dev_list[bus_getdevbyname(k, name)].dname = dname]

\* Whatever entry the driver is on, the named one loses its driver.
bus_unregdev(k, name, dname) ==
    /\ bus_getdev(k, dname) # NoDevice
    /\ name \in Names(k)
    /\ buses' = [buses EXCEPT ![k].dev_list[bus_getdevbyname(k, name)].dname = NoName]

\* A walk of a list that starts anywhere.
bus_astray(k) ==
    /\ k \in 1..Len(buses) /\ ~buses[k].clean
    /\ lost' = TRUE
    /\ UNCHANGED <<buses, buses_count, stale>>

BusInit == buses = <<>> /\ buses_count = 0 /\ stale = {} /\ lost = FALSE

\* What the drivers of buses with these names and entries call.
BusCalls(busnames, names, dnames) ==
    \/ \E b \in busnames : register_bus(b) \/ unregister_bus(b)
    \/ \E b \in busnames : bus_fromname(b) # {} /\ bus_astray(TheBus(b))
    \/ /\ \E b \in busnames, name \in names :
             /\ bus_fromname(b) # {} /\ OnBus(TheBus(b))
             /\ \/ bus_adddev(TheBus(b), name)
                \/ bus_remdev(TheBus(b), name)
                \/ \E dname \in dnames : bus_regdev(TheBus(b), name, dname)
                \/ \E dname \in dnames : bus_unregdev(TheBus(b), name, dname)
       /\ UNCHANGED <<buses_count, stale, lost>>
-----------------------------------------------------------------------------
(***************************************************************************)
(* The entries of a bus have different names, and the counters of buses    *)
(* and of their entries are right, whether entries come from a driver or   *)
(* from a scan that ignores EEXIST, and although two buses may have one    *)
(* name.                                                                   *)
(***************************************************************************)
EntriesNamed ==
    /\ buses_count = Len(buses)
    /\ \A k \in 1..Len(buses) :
          /\ buses[k].dev_count = Len(buses[k].dev_list)
          /\ Cardinality(Names(k)) = Len(buses[k].dev_list)
=============================================================================
