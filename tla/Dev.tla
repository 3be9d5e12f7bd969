-------------------------------- MODULE Dev --------------------------------
(***************************************************************************)
(* The central device API of newland/src/dev.c, the TTY and block device   *)
(* registries built on it (newland/src/dev/tty.c, newland/src/dev/block.c) *)
(* and the nodes devfs makes of devices (newland/src/fs/devfs.c).          *)
(*                                                                         *)
(* A registration writes two registries: register_tty first registers a    *)
(* device whose minor number is the number of TTYs, then links the TTY     *)
(* into a list of its own; unregister_tty takes the position of the TTY in *)
(* that list for its minor number.  Block devices do the same.  The module *)
(* keeps both registries, and the width of a minor number, because what is *)
(* worth checking is whether they agree.                                   *)
(*                                                                         *)
(* A call that returns an error (EEXIST, ENODEV, ENOMEM) changes nothing   *)
(* and is a stuttering step; an allocation may fail at any call, so every  *)
(* action below may also not happen.  Names are shorter than NAME_MAX.     *)
(***************************************************************************)
EXTENDS Slist, FiniteSets

CONSTANTS Name,     \* device names shorter than NAME_MAX
          MbMod,    \* the names mbi_modules_init gives the multiboot modules
          Minors,   \* the number of minor numbers: 256, as DEV_MINOR masks 0xFF
          NoDevice  \* NULL

\* The boot stops unless there is a multiboot module, the initrd.
ASSUME MbModAssumption ==
    /\ MbMod \in Seq(Name) /\ Len(MbMod) \in 1..Minors
    /\ \A i, j \in 1..Len(MbMod) : MbMod[i] = MbMod[j] => i = j
ASSUME MinorsAssumption == Minors \in Nat \ {0}
ASSUME NoDeviceAssumption == NoDevice \notin [name : Name, dev : (0..3) \X (0..Minors - 1)]

VARIABLES devices,             \* the list of registered devices, newest first
          dev_count,
          ttys,                \* the list of TTYs, newest first
          tty_cnt,
          block_devices,       \* the list of block devices, newest first
          block_device_count,
          devfs_nodes,         \* the nodes devfs_get has made, newest first
          root                 \* the node bootstrap_main mounts on /

registry == <<devices, dev_count>>
tty_list == <<ttys, tty_cnt>>
blkdev_list == <<block_devices, block_device_count>>
nodes == <<devfs_nodes, root>>
vars == <<registry, tty_list, blkdev_list, nodes>>

DEVMAJ_BLOCK == 1
DEVMAJ_TTY == 2
DEVMAJ_MBMOD == 3

\* dev_t: the major number and the minor number below it.
DevT == (0..3) \X (0..Minors - 1)
DEV_MAJOR(dev) == dev[1]
DEV_MINOR(dev) == dev[2]

\* Mutant: the number is not cut to its width.
MKDEV_wide(ma, mi) == <<ma, mi>>

\* MKDEV ors the number into the shifted major: from Minors on, the next bit
\* lands in the lowest bit of the major number.  Numbers stay below 2 * Minors.
MKDEV(ma, mi) ==
    <<IF mi >= Minors /\ ma % 2 = 0 THEN ma + 1 ELSE ma, mi % Minors>>

Device == [name : Name, dev : DevT]

TypeOK ==
    /\ devices \in Seq(Device) /\ dev_count \in Nat
    /\ ttys \in Seq(Name) /\ tty_cnt \in Nat
    /\ block_devices \in Seq(Name) /\ block_device_count \in Nat
    /\ devfs_nodes \in Seq(Device) /\ root \in Device \cup {NoDevice}
-----------------------------------------------------------------------------
\* The walks of device_fromname, device_fromdev, tty_fromname, blkdev_fromname.
device_fromname(name) ==
    IF \E d \in SlistElems(devices) : d.name = name
    THEN CHOOSE d \in SlistElems(devices) : d.name = name
    ELSE NoDevice
device_fromdev(dev) ==
    IF \E d \in SlistElems(devices) : d.dev = dev
    THEN CHOOSE d \in SlistElems(devices) : d.dev = dev
    ELSE NoDevice

\* device_get, tty_indexof and blkdev_indexof count from the head.
device_get(i) == SlistGet(devices, i, NoDevice)
IndexOf(list, name) == SlistFind(list, name) - 1

\* Mutant: the device number is not looked up.
register_device_named(dev, name) ==
    /\ device_fromname(name) = NoDevice
    /\ devices' = SlistInsertHead(devices, [name |-> name, dev |-> dev])
    /\ dev_count' = dev_count + 1

register_device(dev, name) ==
    /\ device_fromname(name) = NoDevice /\ device_fromdev(dev) = NoDevice
    /\ devices' = SlistInsertHead(devices, [name |-> name, dev |-> dev])
    /\ dev_count' = dev_count + 1

\* Mutant: the counter is left alone.
unregister_device_uncounted(dev) ==
    /\ device_fromdev(dev) # NoDevice
    /\ devices' = SlistRemove(devices, device_fromdev(dev))
    /\ UNCHANGED dev_count

unregister_device(dev) ==
    /\ device_fromdev(dev) # NoDevice
    /\ devices' = SlistRemove(devices, device_fromdev(dev))
    /\ dev_count' = dev_count - 1
-----------------------------------------------------------------------------
register_tty(name) ==
    /\ name \notin SlistElems(ttys) /\ device_fromname(name) = NoDevice
    /\ register_device(MKDEV(DEVMAJ_TTY, tty_cnt), name)
    /\ ttys' = SlistInsertHead(ttys, name)
    /\ tty_cnt' = tty_cnt + 1
    /\ UNCHANGED <<blkdev_list, nodes>>

\* Mutant: the failure of unregister_device is ignored.
unregister_tty_anyway(name) ==
    /\ name \in SlistElems(ttys) /\ device_fromname(name) # NoDevice
    /\ LET dev == MKDEV(DEVMAJ_TTY, IndexOf(ttys, name))
       IN  \/ unregister_device(dev)
           \/ device_fromdev(dev) = NoDevice /\ UNCHANGED registry
    /\ ttys' = SlistRemove(ttys, name)
    /\ tty_cnt' = tty_cnt - 1
    /\ UNCHANGED <<blkdev_list, nodes>>

\* The minor number given up is the position in the list.
unregister_tty(name) ==
    /\ name \in SlistElems(ttys) /\ device_fromname(name) # NoDevice
    /\ unregister_device(MKDEV(DEVMAJ_TTY, IndexOf(ttys, name)))
    /\ ttys' = SlistRemove(ttys, name)
    /\ tty_cnt' = tty_cnt - 1
    /\ UNCHANGED <<blkdev_list, nodes>>

register_blkdev(name) ==
    /\ name \notin SlistElems(block_devices) /\ device_fromname(name) = NoDevice
    /\ register_device(MKDEV(DEVMAJ_BLOCK, block_device_count), name)
    /\ block_devices' = SlistInsertHead(block_devices, name)
    /\ block_device_count' = block_device_count + 1
    /\ UNCHANGED <<tty_list, nodes>>

unregister_blkdev(name) ==
    /\ name \in SlistElems(block_devices) /\ device_fromname(name) # NoDevice
    /\ unregister_device(MKDEV(DEVMAJ_BLOCK, IndexOf(block_devices, name)))
    /\ block_devices' = SlistRemove(block_devices, name)
    /\ block_device_count' = block_device_count - 1
    /\ UNCHANGED <<tty_list, nodes>>

\* devfs_get makes a node of the i-th device when there is no i-th node yet; a
\* node that is found is returned as it is.
devfs_node(i) == IF i < Len(devfs_nodes) THEN devfs_nodes[i + 1] ELSE device_get(i)
devfs_get(i) ==
    devfs_nodes' = IF i < Len(devfs_nodes) \/ device_get(i) = NoDevice THEN devfs_nodes
                   ELSE SlistInsertHead(devfs_nodes, device_get(i))
-----------------------------------------------------------------------------
\* mbi_modules_init registers the multiboot modules in their order.
initrd == [name |-> MbMod[1], dev |-> MKDEV(DEVMAJ_MBMOD, 0)]

Init ==
    /\ devices = [i \in 1..Len(MbMod) |->
                    [name |-> MbMod[Len(MbMod) + 1 - i],
                     dev |-> MKDEV(DEVMAJ_MBMOD, Len(MbMod) - i)]]
    /\ dev_count = Len(MbMod)
    /\ ttys = <<>> /\ tty_cnt = 0
    /\ block_devices = <<>> /\ block_device_count = 0
    /\ devfs_nodes = <<>> /\ root = NoDevice

\* After modules_init has let the modules register what they drive,
\* bootstrap_main looks for the initrd and mounts the node of its index.
mount_initrd ==
    /\ root = NoDevice /\ device_fromname(MbMod[1]) # NoDevice
    /\ LET i == SlistFind(devices, device_fromname(MbMod[1])) - 1
       IN  devfs_get(i) /\ root' = devfs_node(i)
    /\ UNCHANGED <<registry, tty_list, blkdev_list>>

\* Later lookups; nothing looks into devfs before the initrd is mounted.
lookup(i) ==
    /\ root # NoDevice
    /\ devfs_get(i)
    /\ UNCHANGED <<root, registry, tty_list, blkdev_list>>

Next ==
    \/ \E name \in Name : register_tty(name)
    \/ \E name \in Name : unregister_tty(name)
    \/ \E name \in Name : register_blkdev(name)
    \/ \E name \in Name : unregister_blkdev(name)
    \/ mount_initrd
    \/ \E i \in 0..dev_count : lookup(i)

Spec == Init /\ [][Next]_vars
-----------------------------------------------------------------------------
\* Devices of one major number.
OfMajor(ma) == {d \in SlistElems(devices) : DEV_MAJOR(d.dev) = ma}

(***************************************************************************)
(* No two devices share a name or a device number, which register_device   *)
(* promises by its EEXIST, and dev_count is the length of the list.  The   *)
(* lookups by name and by number are unambiguous because of it, although   *)
(* minor numbers are handed out from a counter that also goes down.        *)
(***************************************************************************)
DevicesUnique ==
    /\ dev_count = Len(devices)
    /\ \A i, j \in 1..Len(devices) :
          devices[i].name = devices[j].name \/ devices[i].dev = devices[j].dev => i = j

(***************************************************************************)
(* Even though unregister_tty and unregister_blkdev give up a device by    *)
(* its position in the list, each registry holds as many entries as the    *)
(* central API has devices of its major number, and its counter says how   *)
(* many: an unregistration never takes a device of another kind and a      *)
(* registration whose number would spill into the next major is refused.   *)
(***************************************************************************)
CountsAgree ==
    /\ tty_cnt <= Minors /\ tty_cnt = Len(ttys) /\ tty_cnt = Cardinality(OfMajor(DEVMAJ_TTY))
    /\ block_device_count <= Minors /\ block_device_count = Len(block_devices)
    /\ block_device_count = Cardinality(OfMajor(DEVMAJ_BLOCK))

(***************************************************************************)
(* Whatever the modules have registered before, the node mounted on / is   *)
(* the one of the first multiboot module, and it stays the node of a       *)
(* registered device: no sequence of registrations, not even one that runs *)
(* out of minor numbers (TTY number Minors has the device number of the    *)
(* initrd), takes the device away or gives its number to another.          *)
(***************************************************************************)
InitrdKept ==
    /\ root # NoDevice => root = initrd /\ root \in SlistElems(devfs_nodes)
    /\ device_fromdev(initrd.dev) = initrd
    /\ Cardinality(OfMajor(DEVMAJ_MBMOD)) = Len(MbMod)

(***************************************************************************)
(* When a TTY or a block device has been unregistered no device of its     *)
(* name is left in the central device API (docs/devices/tty.md and         *)
(* docs/devices/block.md).                                                 *)
(***************************************************************************)
UnregisteredCentrally ==
    [][\A name \in Name :
          \/ name \in SlistElems(ttys) /\ name \notin SlistElems(ttys')
          \/ name \in SlistElems(block_devices) /\ name \notin SlistElems(block_devices')
          => \A d \in SlistElems(devices') : d.name # name]_vars
=============================================================================
