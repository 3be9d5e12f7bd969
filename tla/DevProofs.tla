------------------------------ MODULE DevProofs ------------------------------
(***************************************************************************)
(* The safety of the device registries for any set of names, any number of *)
(* minor numbers and any list of multiboot modules.                        *)
(*                                                                         *)
(* The inductive invariant adds to the checked invariants that the TTY and *)
(* block device lists hold a name once and that devfs is empty until the   *)
(* initrd is mounted.  The counters cannot pass Minors for two different   *)
(* reasons: TTY number Minors would have the initrd's device number, and   *)
(* when Minors block devices are registered all their numbers are taken.   *)
(***************************************************************************)
EXTENDS Dev, SlistProofs, FiniteSetTheorems

Registered == SlistElems(devices)

\* A name or a number leads to one device.
Unambiguous ==
    \A d, e \in Registered : d.name = e.name \/ d.dev = e.dev => d = e

NamesOnce == SlistNoDup(ttys) /\ SlistNoDup(block_devices)
DevfsLater == root = NoDevice => devfs_nodes = <<>>

IInv == TypeOK /\ DevicesUnique /\ CountsAgree /\ InitrdKept /\ NamesOnce /\ DevfsLater
-----------------------------------------------------------------------------
\* Numbers below Minors are minor numbers; the number Minors spills.
LEMMA Numbers ==
    /\ Minors \in Nat /\ Minors > 0
    /\ \A ma \in 0..3, mi \in 0..(Minors - 1) : MKDEV(ma, mi) = <<ma, mi>>
    /\ MKDEV(DEVMAJ_TTY, Minors) = <<DEVMAJ_MBMOD, 0>>
    /\ MKDEV(DEVMAJ_BLOCK, Minors) = <<DEVMAJ_BLOCK, 0>>
    /\ initrd.dev = <<DEVMAJ_MBMOD, 0>>
  <1>1. Minors \in Nat /\ Minors > 0
    BY MinorsAssumption
  <1>2. \A mi \in 0..(Minors - 1) : mi % Minors = mi
    BY <1>1
  <1>3. Minors % Minors = 0
    BY <1>1
  <1>4. \A ma \in 0..3, mi \in 0..(Minors - 1) : MKDEV(ma, mi) = <<ma, mi>>
    <2> TAKE ma \in 0..3, mi \in 0..(Minors - 1)
    <2>1. ~(mi >= Minors) /\ mi % Minors = mi
      BY <1>1, <1>2
    <2> QED BY <2>1 DEF MKDEV
  <1>5. MKDEV(DEVMAJ_TTY, Minors) = <<DEVMAJ_MBMOD, 0>>
    BY <1>1, <1>3 DEF MKDEV, DEVMAJ_TTY, DEVMAJ_MBMOD
  <1>6. MKDEV(DEVMAJ_BLOCK, Minors) = <<DEVMAJ_BLOCK, 0>>
    BY <1>1, <1>3 DEF MKDEV, DEVMAJ_BLOCK
  <1>7. initrd.dev = <<DEVMAJ_MBMOD, 0>>
    BY <1>1, <1>4 DEF initrd, DEVMAJ_MBMOD
  <1> QED BY <1>1, <1>4, <1>5, <1>6, <1>7

\* NULL is not a device.
LEMMA NoDeviceIsNone == NoDevice \notin Device
  BY NoDeviceAssumption DEF Device, DevT

\* The first multiboot module's node is a device.
LEMMA InitrdIsDevice == initrd \in Device /\ MbMod[1] \in Name /\ initrd.name = MbMod[1]
  <1>1. MbMod[1] \in Name
    BY MbModAssumption
  <1>2. <<DEVMAJ_MBMOD, 0>> \in DevT
    BY Numbers DEF DevT, DEVMAJ_MBMOD
  <1>3. initrd = [name |-> MbMod[1], dev |-> <<DEVMAJ_MBMOD, 0>>]
    BY Numbers DEF initrd
  <1> QED BY <1>1, <1>2, <1>3 DEF Device

\* What the walks find.
LEMMA Walks ==
    ASSUME TypeOK
    PROVE  /\ Registered \subseteq Device
           /\ \A dev : device_fromdev(dev) = NoDevice <=> \A d \in Registered : d.dev # dev
           /\ \A dev : device_fromdev(dev) # NoDevice
                 => device_fromdev(dev) \in Registered /\ device_fromdev(dev).dev = dev
           /\ \A name : device_fromname(name) = NoDevice
                 <=> \A d \in Registered : d.name # name
           /\ \A name : device_fromname(name) # NoDevice
                 => device_fromname(name) \in Registered /\ device_fromname(name).name = name
  <1>1. Registered \subseteq Device
    BY ElemsIn DEF TypeOK, Registered
  <1>2. NoDevice \notin Registered
    BY <1>1, NoDeviceIsNone
  <1>3. \A dev : /\ device_fromdev(dev) = NoDevice <=> \A d \in Registered : d.dev # dev
                 /\ device_fromdev(dev) # NoDevice
                       => device_fromdev(dev) \in Registered /\ device_fromdev(dev).dev = dev
    BY <1>2 DEF device_fromdev, Registered
  <1>4. \A name : /\ device_fromname(name) = NoDevice <=> \A d \in Registered : d.name # name
                  /\ device_fromname(name) # NoDevice
                        => device_fromname(name) \in Registered
                           /\ device_fromname(name).name = name
    BY <1>2 DEF device_fromname, Registered
  <1> QED BY <1>1, <1>3, <1>4

\* DevicesUnique in terms of elements instead of positions.
LEMMA ByElements ==
    ASSUME TypeOK
    PROVE  DevicesUnique <=> dev_count = Len(devices) /\ SlistNoDup(devices) /\ Unambiguous
  <1>1. Registered = {devices[i] : i \in 1..Len(devices)}
    BY DEF Registered, SlistElems
  <1>2. ASSUME DevicesUnique PROVE SlistNoDup(devices) /\ Unambiguous
    BY <1>1, <1>2 DEF DevicesUnique, SlistNoDup, Unambiguous
  <1>3. ASSUME dev_count = Len(devices), SlistNoDup(devices), Unambiguous
        PROVE  DevicesUnique
    BY <1>1, <1>3 DEF DevicesUnique, SlistNoDup, Unambiguous
  <1> QED BY <1>2, <1>3 DEF DevicesUnique

\* A list has finitely many elements.
LEMMA FiniteElems ==
    ASSUME NEW S, NEW s \in Seq(S)
    PROVE  IsFiniteSet(SlistElems(s))
  <1>1. s \in Surjection(1..Len(s), SlistElems(s))
    BY DEF Surjection, SlistElems
  <1>2. IsFiniteSet(1..Len(s))
    BY FS_Interval
  <1> QED BY <1>1, <1>2, FS_Surjection

LEMMA FiniteRegistered ==
    ASSUME TypeOK
    PROVE  IsFiniteSet(Registered) /\ \A ma : IsFiniteSet(OfMajor(ma))
  <1>1. IsFiniteSet(Registered)
    BY FiniteElems DEF TypeOK, Registered
  <1>2. \A ma : OfMajor(ma) \in SUBSET Registered
    BY DEF OfMajor, Registered
  <1> QED BY <1>1, <1>2, FS_Subset
-----------------------------------------------------------------------------
\* register_device links one new device and keeps the lookups unambiguous.
LEMMA RegisterStep ==
    ASSUME TypeOK, DevicesUnique, NEW name \in Name, NEW dev \in DevT,
           register_device(dev, name)
    PROVE  LET d == [name |-> name, dev |-> dev]
           IN  /\ devices' \in Seq(Device) /\ dev_count' \in Nat
               /\ d \in Device /\ d \notin Registered
               /\ Registered' = Registered \cup {d}
               /\ dev_count' = Len(devices') /\ SlistNoDup(devices') /\ Unambiguous'
  <1> DEFINE d == [name |-> name, dev |-> dev]
  <1>1. /\ devices \in Seq(Device) /\ dev_count = Len(devices) /\ SlistNoDup(devices)
        /\ Unambiguous /\ Len(devices) \in Nat
    BY ByElements DEF TypeOK
  <1>2. d \in Device
    BY DEF Device
  <1>3. devices' = SlistInsertHead(devices, d) /\ dev_count' = dev_count + 1
    BY DEF register_device
  <1>4. \A e \in Registered : e.name # name /\ e.dev # dev
    BY Walks DEF register_device
  <1>5. d \notin Registered
    BY <1>4
  <1>6. devices' \in Seq(Device) /\ Len(devices') = Len(devices) + 1
    BY <1>1, <1>2, <1>3, InsertHead
  <1>7. Registered' = Registered \cup {d}
    <2> HIDE DEF d
    <2>1. SlistElems(SlistInsertHead(devices, d)) = SlistElems(devices) \cup {d}
      BY <1>1, <1>2, InsertHead
    <2> QED BY <2>1, <1>3 DEF Registered
  <1>8. SlistNoDup(devices')
    BY <1>1, <1>2, <1>3, <1>5, InsertNoDup DEF Registered
  <1>9. Unambiguous'
    <2>1. \A x, y \in Registered \cup {d} : x.name = y.name \/ x.dev = y.dev => x = y
      BY <1>1, <1>4 DEF Unambiguous
    <2> QED BY <2>1, <1>7 DEF Unambiguous
  <1> QED BY <1>1, <1>2, <1>3, <1>5, <1>6, <1>7, <1>8, <1>9

\* unregister_device unlinks the device of that number.
LEMMA UnregisterStep ==
    ASSUME TypeOK, DevicesUnique, NEW dev, unregister_device(dev)
    PROVE  LET d == device_fromdev(dev)
           IN  /\ devices' \in Seq(Device) /\ dev_count' \in Nat
               /\ d \in Registered /\ d.dev = dev
               /\ Registered' = Registered \ {d}
               /\ dev_count' = Len(devices') /\ SlistNoDup(devices') /\ Unambiguous'
  <1> DEFINE d == device_fromdev(dev)
  <1>1. /\ devices \in Seq(Device) /\ dev_count = Len(devices) /\ SlistNoDup(devices)
        /\ Unambiguous /\ Len(devices) \in Nat
    BY ByElements DEF TypeOK
  <1>2. d \in Registered /\ d.dev = dev
    BY Walks DEF unregister_device
  <1>3. devices' = SlistRemove(devices, d) /\ dev_count' = dev_count - 1
    BY DEF unregister_device
  <1> HIDE DEF d
  <1>4. d \in SlistElems(devices)
    BY <1>2 DEF Registered
  <1>5. devices' \in Seq(Device) /\ Len(devices') = Len(devices) - 1
    BY <1>1, <1>3, <1>4, RemoveElem
  <1>6. Registered' = Registered \ {d}
    <2>1. SlistElems(SlistRemove(devices, d)) = SlistElems(devices) \ {d}
      BY <1>1, <1>4, RemoveElem
    <2> QED BY <2>1, <1>3 DEF Registered
  <1>7. SlistNoDup(devices')
    BY <1>1, <1>3, <1>4, RemoveNoDup
  <1>8. Unambiguous'
    BY <1>1, <1>6 DEF Unambiguous
  <1>9. Len(devices') \in Nat
    BY <1>5
  <1> QED BY <1>1, <1>2, <1>3, <1>5, <1>6, <1>7, <1>8, <1>9 DEF d

\* How a registration and an unregistration move the numbers of devices.
LEMMA CountAdded ==
    ASSUME TypeOK, NEW d, d \notin Registered, Registered' = Registered \cup {d}, NEW ma
    PROVE  Cardinality(OfMajor(ma))' =
              IF DEV_MAJOR(d.dev) = ma THEN Cardinality(OfMajor(ma)) + 1
              ELSE Cardinality(OfMajor(ma))
  <1>1. IsFiniteSet(OfMajor(ma)) /\ d \notin OfMajor(ma)
    BY FiniteRegistered DEF OfMajor, Registered
  <1>2. OfMajor(ma)' = {e \in Registered \cup {d} : DEV_MAJOR(e.dev) = ma}
    BY DEF OfMajor, Registered, DEV_MAJOR
  <1>3. CASE DEV_MAJOR(d.dev) = ma
    <2>1. OfMajor(ma)' = OfMajor(ma) \cup {d}
      BY <1>2, <1>3 DEF OfMajor, Registered
    <2>2. Cardinality(OfMajor(ma) \cup {d}) = Cardinality(OfMajor(ma)) + 1
      BY <1>1, FS_AddElement
    <2> QED BY <2>1, <2>2, <1>3
  <1>4. CASE DEV_MAJOR(d.dev) # ma
    <2>1. OfMajor(ma)' = OfMajor(ma)
      BY <1>2, <1>4 DEF OfMajor, Registered
    <2> QED BY <2>1, <1>4
  <1> QED BY <1>3, <1>4

LEMMA CountRemoved ==
    ASSUME TypeOK, NEW d \in Registered, Registered' = Registered \ {d}, NEW ma
    PROVE  Cardinality(OfMajor(ma))' =
              IF DEV_MAJOR(d.dev) = ma THEN Cardinality(OfMajor(ma)) - 1
              ELSE Cardinality(OfMajor(ma))
  <1>1. IsFiniteSet(OfMajor(ma))
    BY FiniteRegistered
  <1>2. OfMajor(ma)' = {e \in Registered \ {d} : DEV_MAJOR(e.dev) = ma}
    BY DEF OfMajor, Registered, DEV_MAJOR
  <1>3. CASE DEV_MAJOR(d.dev) = ma
    <2>1. OfMajor(ma)' = OfMajor(ma) \ {d} /\ d \in OfMajor(ma)
      BY <1>2, <1>3 DEF OfMajor, Registered
    <2>2. Cardinality(OfMajor(ma) \ {d}) = Cardinality(OfMajor(ma)) - 1
      BY <1>1, <2>1, FS_RemoveElement
    <2> QED BY <2>1, <2>2, <1>3
  <1>4. CASE DEV_MAJOR(d.dev) # ma
    <2>1. OfMajor(ma)' = OfMajor(ma)
      BY <1>2, <1>4 DEF OfMajor, Registered
    <2> QED BY <2>1, <1>4
  <1> QED BY <1>3, <1>4

\* When Minors block devices are registered, number 0 is taken.
LEMMA BlockNumbersTaken ==
    ASSUME TypeOK, Unambiguous, Cardinality(OfMajor(DEVMAJ_BLOCK)) = Minors
    PROVE  \E d \in Registered : d.dev = <<DEVMAJ_BLOCK, 0>>
  <1> DEFINE B == OfMajor(DEVMAJ_BLOCK)
             T == 0..(Minors - 1)
             f == [d \in B |-> DEV_MINOR(d.dev)]
  <1>1. \A d \in B : d \in Registered /\ d.dev \in DevT /\ d.dev[1] = DEVMAJ_BLOCK
    <2>1. Registered \subseteq Device
      BY Walks
    <2> QED BY <2>1 DEF OfMajor, Registered, Device, DEV_MAJOR
  <1>2. \A d \in B : d.dev[2] \in T /\ d.dev = <<DEVMAJ_BLOCK, d.dev[2]>>
    BY <1>1 DEF DevT
  <1>3. f \in [B -> T]
    BY <1>2 DEF DEV_MINOR
  <1>4. \A d, e \in B : f[d] = f[e] => d = e
    BY <1>1, <1>2 DEF DEV_MINOR, Unambiguous
  <1>5. f \in Injection(B, T)
    BY <1>3, <1>4 DEF Injection, IsInjective
  <1>6. IsFiniteSet(T) /\ Cardinality(T) = Minors /\ 0 \in T
    <2>1. Minors \in Nat /\ Minors > 0
      BY Numbers
    <2>2. IsFiniteSet(T) /\ Cardinality(T) = IF 0 > Minors - 1 THEN 0 ELSE (Minors - 1) - 0 + 1
      BY <2>1, FS_Interval
    <2> QED BY <2>1, <2>2
  <1>7. f \in Surjection(B, T)
    BY <1>5, <1>6, FS_Injection
  <1>8. PICK d \in B : f[d] = 0
    BY <1>6, <1>7 DEF Surjection
  <1> QED BY <1>1, <1>2, <1>8 DEF DEV_MINOR
-----------------------------------------------------------------------------
\* InitrdKept in terms of elements.
LEMMA InitrdByElements ==
    ASSUME TypeOK, Unambiguous
    PROVE  device_fromdev(initrd.dev) = initrd <=> initrd \in Registered
  <1>1. initrd \in Device /\ initrd # NoDevice
    BY InitrdIsDevice, NoDeviceIsNone
  <1>2. ASSUME device_fromdev(initrd.dev) = initrd PROVE initrd \in Registered
    BY <1>1, <1>2, Walks
  <1>3. ASSUME initrd \in Registered PROVE device_fromdev(initrd.dev) = initrd
    <2>1. device_fromdev(initrd.dev) # NoDevice
      BY <1>3, Walks
    <2>2. /\ device_fromdev(initrd.dev) \in Registered
          /\ device_fromdev(initrd.dev).dev = initrd.dev
      BY <2>1, Walks
    <2> QED BY <1>3, <2>2 DEF Unambiguous
  <1> QED BY <1>2, <1>3

\* The two restatements in the state after a step.
LEMMA ByElementsNext ==
    (TypeOK => (DevicesUnique <=> dev_count = Len(devices) /\ SlistNoDup(devices) /\ Unambiguous))'
  <1>1. TypeOK => (DevicesUnique <=> dev_count = Len(devices) /\ SlistNoDup(devices) /\ Unambiguous)
    BY ByElements
  <1> QED BY <1>1, PTL

LEMMA InitrdNext ==
    (TypeOK /\ Unambiguous => (device_fromdev(initrd.dev) = initrd <=> initrd \in Registered))'
  <1>1. TypeOK /\ Unambiguous => (device_fromdev(initrd.dev) = initrd <=> initrd \in Registered)
    BY InitrdByElements
  <1> QED BY <1>1, PTL

\* What a step of the registries keeps of the part that it does not write.
LEMMA NodesUnchanged ==
    ASSUME IInv, UNCHANGED nodes
    PROVE  /\ devfs_nodes' \in Seq(Device) /\ root' \in Device \cup {NoDevice}
           /\ (root # NoDevice => root = initrd /\ root \in SlistElems(devfs_nodes))'
           /\ DevfsLater'
  BY DEF IInv, TypeOK, InitrdKept, DevfsLater, nodes

LEMMA RegisterTtyStep ==
    ASSUME IInv, NEW name \in Name, register_tty(name)
    PROVE  IInv'
  <1> DEFINE dev == MKDEV(DEVMAJ_TTY, tty_cnt)
             d == [name |-> name, dev |-> dev]
  <1>1. /\ TypeOK /\ DevicesUnique /\ CountsAgree /\ InitrdKept /\ NamesOnce
        /\ tty_cnt \in Nat /\ Minors \in Nat /\ Minors > 0 /\ Unambiguous
    BY Numbers, ByElements DEF IInv, TypeOK
  <1>2. initrd \in Registered
    BY <1>1, InitrdByElements DEF InitrdKept
  <1>3. register_device(dev, name) /\ \A e \in Registered : e.dev # dev
    BY <1>1, Walks DEF register_tty, register_device
  <1>4. tty_cnt \in 0..(Minors - 1)
    <2>1. tty_cnt # Minors
      BY <1>2, <1>3, Numbers
    <2> QED BY <2>1, <1>1 DEF CountsAgree
  <1>5. dev = <<DEVMAJ_TTY, tty_cnt>> /\ dev \in DevT
    BY <1>4, Numbers DEF DevT, DEVMAJ_TTY
  <1> HIDE DEF dev
  <1>6. /\ devices' \in Seq(Device) /\ dev_count' \in Nat /\ d \notin Registered
        /\ Registered' = Registered \cup {d}
        /\ dev_count' = Len(devices') /\ SlistNoDup(devices') /\ Unambiguous'
    BY <1>1, <1>3, <1>5, RegisterStep
  <1>7. DEV_MAJOR(d.dev) = DEVMAJ_TTY
    BY <1>5 DEF DEV_MAJOR
  <1>8. /\ Cardinality(OfMajor(DEVMAJ_TTY))' = Cardinality(OfMajor(DEVMAJ_TTY)) + 1
        /\ Cardinality(OfMajor(DEVMAJ_BLOCK))' = Cardinality(OfMajor(DEVMAJ_BLOCK))
        /\ Cardinality(OfMajor(DEVMAJ_MBMOD))' = Cardinality(OfMajor(DEVMAJ_MBMOD))
    <2> HIDE DEF d
    <2>1. DEVMAJ_TTY # DEVMAJ_BLOCK /\ DEVMAJ_TTY # DEVMAJ_MBMOD
      BY DEF DEVMAJ_TTY, DEVMAJ_BLOCK, DEVMAJ_MBMOD
    <2> QED BY <1>1, <1>6, <1>7, <2>1, CountAdded
  <1>9. /\ ttys \in Seq(Name) /\ name \notin SlistElems(ttys)
        /\ ttys' = SlistInsertHead(ttys, name) /\ tty_cnt' = tty_cnt + 1
        /\ UNCHANGED <<block_devices, block_device_count>> /\ UNCHANGED nodes
    BY <1>1 DEF register_tty, TypeOK, blkdev_list
  <1>10. ttys' \in Seq(Name) /\ Len(ttys') = Len(ttys) + 1
    BY <1>9, InsertHead
  <1>11. SlistNoDup(ttys')
    BY <1>1, <1>9, InsertNoDup DEF NamesOnce
  <1>12. TypeOK'
    BY <1>1, <1>6, <1>9, <1>10, NodesUnchanged DEF TypeOK
  <1>13. DevicesUnique'
    BY <1>6, <1>12, ByElementsNext
  <1>14. CountsAgree'
    <2>0. tty_cnt = Len(ttys)
      BY <1>1 DEF CountsAgree
    <2>1. tty_cnt' <= Minors /\ tty_cnt' = Len(ttys')
      BY <1>1, <1>4, <1>9, <1>10, <2>0
    <2>2. tty_cnt' = Cardinality(OfMajor(DEVMAJ_TTY))'
      BY <1>1, <1>8, <1>9 DEF CountsAgree
    <2>3. /\ (block_device_count <= Minors /\ block_device_count = Len(block_devices))'
          /\ block_device_count' = Cardinality(OfMajor(DEVMAJ_BLOCK))'
      BY <1>1, <1>8, <1>9 DEF CountsAgree
    <2> QED BY <2>1, <2>2, <2>3 DEF CountsAgree
  <1>15. InitrdKept'
    <2>1. (device_fromdev(initrd.dev) = initrd)'
      BY <1>2, <1>6, <1>12, InitrdNext
    <2> QED BY <1>1, <1>8, <1>9, <2>1, NodesUnchanged DEF InitrdKept
  <1> QED BY <1>1, <1>9, <1>11, <1>12, <1>13, <1>14, <1>15, NodesUnchanged DEF IInv, NamesOnce

LEMMA UnregisterTtyStep ==
    ASSUME IInv, NEW name \in Name, unregister_tty(name)
    PROVE  IInv'
  <1> DEFINE n == IndexOf(ttys, name)
             dev == MKDEV(DEVMAJ_TTY, n)
             d == device_fromdev(dev)
  <1>1. /\ TypeOK /\ DevicesUnique /\ CountsAgree /\ InitrdKept /\ NamesOnce
        /\ tty_cnt \in Nat /\ Minors \in Nat /\ Minors > 0 /\ Unambiguous
    BY Numbers, ByElements DEF IInv, TypeOK
  <1>2. initrd \in Registered
    BY <1>1, InitrdByElements DEF InitrdKept
  <1>3. /\ ttys \in Seq(Name) /\ name \in SlistElems(ttys)
        /\ ttys' = SlistRemove(ttys, name) /\ tty_cnt' = tty_cnt - 1
        /\ UNCHANGED <<block_devices, block_device_count>> /\ UNCHANGED nodes
        /\ unregister_device(dev)
    BY <1>1 DEF unregister_tty, TypeOK, blkdev_list
  <1>4. n \in 0..(Minors - 1)
    <2>1. SlistFind(ttys, name) \in 1..Len(ttys)
      BY <1>3, FindPosition
    <2>2. Len(ttys) <= Minors /\ Len(ttys) \in Nat
      BY <1>1, <1>3 DEF CountsAgree
    <2> QED BY <2>1, <2>2, <1>1 DEF IndexOf
  <1> HIDE DEF n
  <1>5. dev = <<DEVMAJ_TTY, n>>
    BY <1>4, Numbers DEF DEVMAJ_TTY
  <1> HIDE DEF dev
  <1>6. /\ devices' \in Seq(Device) /\ dev_count' \in Nat /\ d \in Registered /\ d.dev = dev
        /\ Registered' = Registered \ {d}
        /\ dev_count' = Len(devices') /\ SlistNoDup(devices') /\ Unambiguous'
    BY <1>1, <1>3, UnregisterStep
  <1> HIDE DEF d
  <1>7. DEV_MAJOR(d.dev) = DEVMAJ_TTY
    BY <1>5, <1>6 DEF DEV_MAJOR
  <1>8. /\ Cardinality(OfMajor(DEVMAJ_TTY))' = Cardinality(OfMajor(DEVMAJ_TTY)) - 1
        /\ Cardinality(OfMajor(DEVMAJ_BLOCK))' = Cardinality(OfMajor(DEVMAJ_BLOCK))
        /\ Cardinality(OfMajor(DEVMAJ_MBMOD))' = Cardinality(OfMajor(DEVMAJ_MBMOD))
    <2>1. DEVMAJ_TTY # DEVMAJ_BLOCK /\ DEVMAJ_TTY # DEVMAJ_MBMOD
      BY DEF DEVMAJ_TTY, DEVMAJ_BLOCK, DEVMAJ_MBMOD
    <2> QED BY <1>1, <1>6, <1>7, <2>1, CountRemoved
  <1>9. ttys' \in Seq(Name) /\ Len(ttys') = Len(ttys) - 1
    BY <1>1, <1>3, RemoveElem DEF NamesOnce
  <1>10. SlistNoDup(ttys')
    BY <1>1, <1>3, RemoveNoDup DEF NamesOnce
  <1>11. tty_cnt = Len(ttys) /\ tty_cnt' = Len(ttys') /\ tty_cnt' \in Nat /\ tty_cnt' <= Minors
    <2>1. tty_cnt = Len(ttys) /\ tty_cnt <= Minors
      BY <1>1 DEF CountsAgree
    <2>2. Len(ttys') \in Nat
      BY <1>9
    <2> QED BY <1>1, <1>3, <1>9, <2>1, <2>2
  <1>12. TypeOK'
    BY <1>1, <1>3, <1>6, <1>9, <1>11, NodesUnchanged DEF TypeOK
  <1>13. DevicesUnique'
    BY <1>6, <1>12, ByElementsNext
  <1>14. CountsAgree'
    <2>1. tty_cnt' = Cardinality(OfMajor(DEVMAJ_TTY))'
      BY <1>1, <1>3, <1>8 DEF CountsAgree
    <2>2. /\ (block_device_count <= Minors /\ block_device_count = Len(block_devices))'
          /\ block_device_count' = Cardinality(OfMajor(DEVMAJ_BLOCK))'
      BY <1>1, <1>3, <1>8 DEF CountsAgree
    <2> QED BY <1>11, <2>1, <2>2 DEF CountsAgree
  <1>15. InitrdKept'
    <2>1. initrd # d
      BY <1>5, <1>6, Numbers DEF DEVMAJ_TTY, DEVMAJ_MBMOD
    <2>2. (device_fromdev(initrd.dev) = initrd)'
      BY <1>2, <1>6, <1>12, <2>1, InitrdNext
    <2> QED BY <1>1, <1>3, <1>8, <2>2, NodesUnchanged DEF InitrdKept
  <1> QED BY <1>1, <1>3, <1>10, <1>12, <1>13, <1>14, <1>15, NodesUnchanged DEF IInv, NamesOnce

LEMMA UnregisterBlkdevStep ==
    ASSUME IInv, NEW name \in Name, unregister_blkdev(name)
    PROVE  IInv'
  <1> DEFINE n == IndexOf(block_devices, name)
             dev == MKDEV(DEVMAJ_BLOCK, n)
             d == device_fromdev(dev)
  <1>1. /\ TypeOK /\ DevicesUnique /\ CountsAgree /\ InitrdKept /\ NamesOnce
        /\ block_device_count \in Nat /\ Minors \in Nat /\ Minors > 0 /\ Unambiguous
    BY Numbers, ByElements DEF IInv, TypeOK
  <1>2. initrd \in Registered
    BY <1>1, InitrdByElements DEF InitrdKept
  <1>3. /\ block_devices \in Seq(Name) /\ name \in SlistElems(block_devices)
        /\ block_devices' = SlistRemove(block_devices, name) /\ block_device_count' = block_device_count - 1
        /\ UNCHANGED <<ttys, tty_cnt>> /\ UNCHANGED nodes
        /\ unregister_device(dev)
    BY <1>1 DEF unregister_blkdev, TypeOK, tty_list
  <1>4. n \in 0..(Minors - 1)
    <2>1. SlistFind(block_devices, name) \in 1..Len(block_devices)
      BY <1>3, FindPosition
    <2>2. Len(block_devices) <= Minors /\ Len(block_devices) \in Nat
      BY <1>1, <1>3 DEF CountsAgree
    <2> QED BY <2>1, <2>2, <1>1 DEF IndexOf
  <1> HIDE DEF n
  <1>5. dev = <<DEVMAJ_BLOCK, n>>
    BY <1>4, Numbers DEF DEVMAJ_BLOCK
  <1> HIDE DEF dev
  <1>6. /\ devices' \in Seq(Device) /\ dev_count' \in Nat /\ d \in Registered /\ d.dev = dev
        /\ Registered' = Registered \ {d}
        /\ dev_count' = Len(devices') /\ SlistNoDup(devices') /\ Unambiguous'
    BY <1>1, <1>3, UnregisterStep
  <1> HIDE DEF d
  <1>7. DEV_MAJOR(d.dev) = DEVMAJ_BLOCK
    BY <1>5, <1>6 DEF DEV_MAJOR
  <1>8. /\ Cardinality(OfMajor(DEVMAJ_BLOCK))' = Cardinality(OfMajor(DEVMAJ_BLOCK)) - 1
        /\ Cardinality(OfMajor(DEVMAJ_TTY))' = Cardinality(OfMajor(DEVMAJ_TTY))
        /\ Cardinality(OfMajor(DEVMAJ_MBMOD))' = Cardinality(OfMajor(DEVMAJ_MBMOD))
    <2>1. DEVMAJ_BLOCK # DEVMAJ_TTY /\ DEVMAJ_BLOCK # DEVMAJ_MBMOD
      BY DEF DEVMAJ_TTY, DEVMAJ_BLOCK, DEVMAJ_MBMOD
    <2> QED BY <1>1, <1>6, <1>7, <2>1, CountRemoved
  <1>9. block_devices' \in Seq(Name) /\ Len(block_devices') = Len(block_devices) - 1
    BY <1>1, <1>3, RemoveElem DEF NamesOnce
  <1>10. SlistNoDup(block_devices')
    BY <1>1, <1>3, RemoveNoDup DEF NamesOnce
  <1>11. block_device_count = Len(block_devices) /\ block_device_count' = Len(block_devices') /\ block_device_count' \in Nat /\ block_device_count' <= Minors
    <2>1. block_device_count = Len(block_devices) /\ block_device_count <= Minors
      BY <1>1 DEF CountsAgree
    <2>2. Len(block_devices') \in Nat
      BY <1>9
    <2> QED BY <1>1, <1>3, <1>9, <2>1, <2>2
  <1>12. TypeOK'
    BY <1>1, <1>3, <1>6, <1>9, <1>11, NodesUnchanged DEF TypeOK
  <1>13. DevicesUnique'
    BY <1>6, <1>12, ByElementsNext
  <1>14. CountsAgree'
    <2>1. block_device_count' = Cardinality(OfMajor(DEVMAJ_BLOCK))'
      BY <1>1, <1>3, <1>8 DEF CountsAgree
    <2>2. /\ (tty_cnt <= Minors /\ tty_cnt = Len(ttys))'
          /\ tty_cnt' = Cardinality(OfMajor(DEVMAJ_TTY))'
      BY <1>1, <1>3, <1>8 DEF CountsAgree
    <2> QED BY <1>11, <2>1, <2>2 DEF CountsAgree
  <1>15. InitrdKept'
    <2>1. initrd # d
      BY <1>5, <1>6, Numbers DEF DEVMAJ_BLOCK, DEVMAJ_MBMOD
    <2>2. (device_fromdev(initrd.dev) = initrd)'
      BY <1>2, <1>6, <1>12, <2>1, InitrdNext
    <2> QED BY <1>1, <1>3, <1>8, <2>2, NodesUnchanged DEF InitrdKept
  <1> QED BY <1>1, <1>3, <1>10, <1>12, <1>13, <1>14, <1>15, NodesUnchanged DEF IInv, NamesOnce

LEMMA RegisterBlkdevStep ==
    ASSUME IInv, NEW name \in Name, register_blkdev(name)
    PROVE  IInv'
  <1> DEFINE dev == MKDEV(DEVMAJ_BLOCK, block_device_count)
             d == [name |-> name, dev |-> dev]
  <1>1. /\ TypeOK /\ DevicesUnique /\ CountsAgree /\ InitrdKept /\ NamesOnce
        /\ block_device_count \in Nat /\ Minors \in Nat /\ Minors > 0 /\ Unambiguous
    BY Numbers, ByElements DEF IInv, TypeOK
  <1>2. initrd \in Registered
    BY <1>1, InitrdByElements DEF InitrdKept
  <1>3. register_device(dev, name) /\ \A e \in Registered : e.dev # dev
    BY <1>1, Walks DEF register_blkdev, register_device
  <1>4. block_device_count \in 0..(Minors - 1)
    <2>1. block_device_count # Minors
      <3>1. SUFFICES ASSUME block_device_count = Minors PROVE FALSE
        OBVIOUS
      <3>2. \E e \in Registered : e.dev = <<DEVMAJ_BLOCK, 0>>
        BY <1>1, <3>1, BlockNumbersTaken DEF CountsAgree
      <3> QED BY <1>3, <3>1, <3>2, Numbers
    <2> QED BY <2>1, <1>1 DEF CountsAgree
  <1>5. dev = <<DEVMAJ_BLOCK, block_device_count>> /\ dev \in DevT
    BY <1>4, Numbers DEF DevT, DEVMAJ_BLOCK
  <1> HIDE DEF dev
  <1>6. /\ devices' \in Seq(Device) /\ dev_count' \in Nat /\ d \notin Registered
        /\ Registered' = Registered \cup {d}
        /\ dev_count' = Len(devices') /\ SlistNoDup(devices') /\ Unambiguous'
    BY <1>1, <1>3, <1>5, RegisterStep
  <1>7. DEV_MAJOR(d.dev) = DEVMAJ_BLOCK
    BY <1>5 DEF DEV_MAJOR
  <1>8. /\ Cardinality(OfMajor(DEVMAJ_BLOCK))' = Cardinality(OfMajor(DEVMAJ_BLOCK)) + 1
        /\ Cardinality(OfMajor(DEVMAJ_TTY))' = Cardinality(OfMajor(DEVMAJ_TTY))
        /\ Cardinality(OfMajor(DEVMAJ_MBMOD))' = Cardinality(OfMajor(DEVMAJ_MBMOD))
    <2> HIDE DEF d
    <2>1. DEVMAJ_BLOCK # DEVMAJ_TTY /\ DEVMAJ_BLOCK # DEVMAJ_MBMOD
      BY DEF DEVMAJ_BLOCK, DEVMAJ_TTY, DEVMAJ_MBMOD
    <2> QED BY <1>1, <1>6, <1>7, <2>1, CountAdded
  <1>9. /\ block_devices \in Seq(Name) /\ name \notin SlistElems(block_devices)
        /\ block_devices' = SlistInsertHead(block_devices, name) /\ block_device_count' = block_device_count + 1
        /\ UNCHANGED <<ttys, tty_cnt>> /\ UNCHANGED nodes
    BY <1>1 DEF register_blkdev, TypeOK, tty_list
  <1>10. block_devices' \in Seq(Name) /\ Len(block_devices') = Len(block_devices) + 1
    BY <1>9, InsertHead
  <1>11. SlistNoDup(block_devices')
    BY <1>1, <1>9, InsertNoDup DEF NamesOnce
  <1>12. TypeOK'
    BY <1>1, <1>6, <1>9, <1>10, NodesUnchanged DEF TypeOK
  <1>13. DevicesUnique'
    BY <1>6, <1>12, ByElementsNext
  <1>14. CountsAgree'
    <2>0. block_device_count = Len(block_devices)
      BY <1>1 DEF CountsAgree
    <2>1. block_device_count' <= Minors /\ block_device_count' = Len(block_devices')
      BY <1>1, <1>4, <1>9, <1>10, <2>0
    <2>2. block_device_count' = Cardinality(OfMajor(DEVMAJ_BLOCK))'
      BY <1>1, <1>8, <1>9 DEF CountsAgree
    <2>3. /\ (tty_cnt <= Minors /\ tty_cnt = Len(ttys))'
          /\ tty_cnt' = Cardinality(OfMajor(DEVMAJ_TTY))'
      BY <1>1, <1>8, <1>9 DEF CountsAgree
    <2> QED BY <2>1, <2>2, <2>3 DEF CountsAgree
  <1>15. InitrdKept'
    <2>1. (device_fromdev(initrd.dev) = initrd)'
      BY <1>2, <1>6, <1>12, InitrdNext
    <2> QED BY <1>1, <1>8, <1>9, <2>1, NodesUnchanged DEF InitrdKept
  <1> QED BY <1>1, <1>9, <1>11, <1>12, <1>13, <1>14, <1>15, NodesUnchanged DEF IInv, NamesOnce

\* A step that leaves the registries alone keeps what is said of them.
LEMMA RegistriesUnchanged ==
    ASSUME IInv, UNCHANGED <<registry, tty_list, blkdev_list>>,
           devfs_nodes' \in Seq(Device), root' \in Device \cup {NoDevice},
           (root # NoDevice => root = initrd /\ root \in SlistElems(devfs_nodes))',
           DevfsLater'
    PROVE  IInv'
  <1>1. UNCHANGED <<devices, dev_count, ttys, tty_cnt, block_devices, block_device_count>>
    BY DEF registry, tty_list, blkdev_list
  <1>2. TypeOK' /\ DevicesUnique' /\ NamesOnce'
    BY <1>1 DEF IInv, TypeOK, DevicesUnique, NamesOnce
  <1>3. \A ma : OfMajor(ma)' = OfMajor(ma)
    BY <1>1 DEF OfMajor, DEV_MAJOR
  <1>4. CountsAgree'
    BY <1>1, <1>3 DEF IInv, CountsAgree, DEVMAJ_TTY, DEVMAJ_BLOCK
  <1>5. device_fromdev(initrd.dev)' = device_fromdev(initrd.dev)
    BY <1>1 DEF device_fromdev, initrd, MKDEV
  <1>6. InitrdKept'
    BY <1>3, <1>5 DEF IInv, InitrdKept, DEVMAJ_MBMOD, initrd, MKDEV
  <1> QED BY <1>2, <1>4, <1>6 DEF IInv

LEMMA MountStep ==
    ASSUME IInv, mount_initrd
    PROVE  IInv'
  <1> DEFINE i == SlistFind(devices, device_fromname(MbMod[1])) - 1
  <1>1. TypeOK /\ Unambiguous /\ devices \in Seq(Device) /\ devfs_nodes = <<>>
    BY ByElements DEF IInv, TypeOK, DevfsLater, mount_initrd
  <1>2. initrd \in Registered /\ initrd \in Device /\ initrd # NoDevice
    BY <1>1, InitrdByElements, InitrdIsDevice, NoDeviceIsNone DEF IInv, InitrdKept
  <1>3. device_fromname(MbMod[1]) = initrd
    <2>1. /\ device_fromname(MbMod[1]) \in Registered
          /\ device_fromname(MbMod[1]).name = MbMod[1]
      BY <1>1, Walks DEF mount_initrd
    <2> QED BY <1>1, <1>2, <2>1, InitrdIsDevice DEF Unambiguous
  <1>4. i + 1 \in 1..Len(devices) /\ devices[i + 1] = initrd /\ i \in 0..(Len(devices) - 1)
    <2>1. /\ SlistFind(devices, initrd) \in 1..Len(devices)
          /\ devices[SlistFind(devices, initrd)] = initrd
      BY <1>1, <1>2, FindPosition DEF Registered
    <2>2. Len(devices) \in Nat
      BY <1>1
    <2> QED BY <1>3, <2>1, <2>2
  <1>5. devfs_get(i) /\ root' = devfs_node(i) /\ UNCHANGED <<registry, tty_list, blkdev_list>>
    BY DEF mount_initrd
  <1> HIDE DEF i
  <1>6. device_get(i) = initrd /\ ~(i < Len(devfs_nodes))
    BY <1>1, <1>4 DEF device_get, SlistGet
  <1>7. root' = initrd /\ devfs_nodes' = SlistInsertHead(devfs_nodes, initrd)
    BY <1>2, <1>5, <1>6 DEF devfs_get, devfs_node
  <1>8. devfs_nodes \in Seq(Device)
    BY <1>1 DEF TypeOK
  <1>9. devfs_nodes' \in Seq(Device)
    BY <1>2, <1>7, <1>8, InsertHead
  <1>10. initrd \in SlistElems(devfs_nodes')
    <2>1. SlistElems(SlistInsertHead(devfs_nodes, initrd)) = SlistElems(devfs_nodes) \cup {initrd}
      BY <1>2, <1>8, InsertHead
    <2> QED BY <2>1, <1>7
  <1>11. (root # NoDevice => root = initrd /\ root \in SlistElems(devfs_nodes))' /\ DevfsLater'
    BY <1>2, <1>7, <1>10 DEF DevfsLater, initrd, MKDEV
  <1> QED BY <1>2, <1>5, <1>7, <1>9, <1>11, RegistriesUnchanged

LEMMA LookupStep ==
    ASSUME IInv, NEW i \in 0..dev_count, lookup(i)
    PROVE  IInv'
  <1>1. /\ TypeOK /\ devfs_nodes \in Seq(Device) /\ devices \in Seq(Device)
        /\ root # NoDevice /\ root = initrd /\ root \in SlistElems(devfs_nodes)
        /\ root \in Device \cup {NoDevice}
    BY DEF IInv, TypeOK, InitrdKept, lookup
  <1>2. root' = root /\ UNCHANGED <<registry, tty_list, blkdev_list>> /\ devfs_get(i)
    BY DEF lookup
  <1>3. \/ devfs_nodes' = devfs_nodes
        \/ device_get(i) \in Device /\ devfs_nodes' = SlistInsertHead(devfs_nodes, device_get(i))
    <2>1. device_get(i) # NoDevice => device_get(i) \in Device
      BY <1>1 DEF device_get, SlistGet
    <2> QED BY <1>2, <2>1 DEF devfs_get
  <1>4. devfs_nodes' \in Seq(Device) /\ SlistElems(devfs_nodes) \subseteq SlistElems(devfs_nodes')
    <2>1. CASE devfs_nodes' = devfs_nodes
      BY <1>1, <2>1
    <2>2. CASE /\ device_get(i) \in Device
               /\ devfs_nodes' = SlistInsertHead(devfs_nodes, device_get(i))
      <3> DEFINE e == device_get(i)
      <3>1. e \in Device
        BY <2>2
      <3> HIDE DEF e
      <3>2. SlistInsertHead(devfs_nodes, e) \in Seq(Device)
        BY <1>1, <3>1, InsertHead
      <3>3. SlistElems(SlistInsertHead(devfs_nodes, e)) = SlistElems(devfs_nodes) \cup {e}
        BY <1>1, <3>1, InsertHead
      <3> QED BY <2>2, <3>2, <3>3 DEF e
    <2> QED BY <1>3, <2>1, <2>2
  <1>5. (root # NoDevice => root = initrd /\ root \in SlistElems(devfs_nodes))' /\ DevfsLater'
    BY <1>1, <1>2, <1>4 DEF DevfsLater, initrd, MKDEV
  <1> QED BY <1>1, <1>2, <1>4, <1>5, RegistriesUnchanged

LEMMA StutterStep ==
    ASSUME IInv, UNCHANGED vars
    PROVE  IInv'
  <1>1. UNCHANGED <<registry, tty_list, blkdev_list>> /\ UNCHANGED nodes
    BY DEF vars
  <1> QED BY <1>1, NodesUnchanged, RegistriesUnchanged

LEMMA Preserved ==
    ASSUME IInv, [Next]_vars
    PROVE  IInv'
  <1>1. ASSUME NEW name \in Name, register_tty(name) PROVE IInv'
    BY <1>1, RegisterTtyStep
  <1>2. ASSUME NEW name \in Name, unregister_tty(name) PROVE IInv'
    BY <1>2, UnregisterTtyStep
  <1>3. ASSUME NEW name \in Name, register_blkdev(name) PROVE IInv'
    BY <1>3, RegisterBlkdevStep
  <1>4. ASSUME NEW name \in Name, unregister_blkdev(name) PROVE IInv'
    BY <1>4, UnregisterBlkdevStep
  <1>5. CASE mount_initrd
    BY <1>5, MountStep
  <1>6. ASSUME NEW i \in 0..dev_count, lookup(i) PROVE IInv'
    BY <1>6, LookupStep
  <1>7. CASE UNCHANGED vars
    BY <1>7, StutterStep
  <1> QED BY <1>1, <1>2, <1>3, <1>4, <1>5, <1>6, <1>7 DEF Next
-----------------------------------------------------------------------------
\* The registries as mbi_modules_init leaves them.
LEMMA Initial ==
    ASSUME Init
    PROVE  IInv
  <1> DEFINE n == Len(MbMod)
  <1>1. /\ n \in Nat /\ n >= 1 /\ n <= Minors /\ \A i \in 1..n : MbMod[i] \in Name
        /\ \A i, j \in 1..n : MbMod[i] = MbMod[j] => i = j
    BY MbModAssumption, MinorsAssumption
  <1>2. \A i \in 1..n : /\ n + 1 - i \in 1..n /\ n - i \in 0..(Minors - 1)
                        /\ MKDEV(DEVMAJ_MBMOD, n - i) = <<DEVMAJ_MBMOD, n - i>>
    <2> TAKE i \in 1..n
    <2>1. n + 1 - i \in 1..n /\ n - i \in 0..(Minors - 1)
      BY <1>1, Numbers
    <2> QED BY <2>1, Numbers DEF DEVMAJ_MBMOD
  <1>3. /\ DOMAIN devices = 1..n
        /\ devices = [i \in 1..n |-> [name |-> MbMod[n + 1 - i], dev |-> <<DEVMAJ_MBMOD, n - i>>]]
    BY <1>2 DEF Init
  <1> HIDE DEF n
  <1>4. devices \in [1..n -> Device]
    BY <1>1, <1>2, <1>3 DEF Device, DevT, DEVMAJ_MBMOD
  <1>5. devices \in Seq(Device) /\ Len(devices) = n
    BY <1>1, <1>4, FunctionIsSeq
  <1>6. TypeOK
    BY <1>1, <1>5 DEF Init, TypeOK, n
  <1>7. \A i, j \in 1..n : devices[i].name = devices[j].name \/ devices[i].dev = devices[j].dev
                             => i = j
    <2> TAKE i, j \in 1..n
    <2>1. /\ devices[i].name = MbMod[n + 1 - i] /\ devices[i].dev = <<DEVMAJ_MBMOD, n - i>>
          /\ devices[j].name = MbMod[n + 1 - j] /\ devices[j].dev = <<DEVMAJ_MBMOD, n - j>>
      BY <1>3
    <2>2. ASSUME devices[i].name = devices[j].name PROVE i = j
      <3>1. n + 1 - i = n + 1 - j
        BY <1>1, <1>2, <2>1, <2>2
      <3> QED BY <3>1, <1>1
    <2>3. ASSUME devices[i].dev = devices[j].dev PROVE i = j
      <3>1. n - i = n - j
        BY <2>1, <2>3
      <3> QED BY <3>1, <1>1
    <2> QED BY <2>2, <2>3
  <1>8. DevicesUnique
    BY <1>5, <1>7 DEF Init, DevicesUnique, n
  <1>9. \A d \in Registered : DEV_MAJOR(d.dev) = DEVMAJ_MBMOD
    <2>1. \A i \in 1..n : devices[i].dev = <<DEVMAJ_MBMOD, n - i>>
      BY <1>3
    <2>2. \A i \in 1..n : devices[i].dev[1] = DEVMAJ_MBMOD
      BY <2>1
    <2> QED BY <2>2, <1>5 DEF Registered, SlistElems, DEV_MAJOR
  <1>10. /\ OfMajor(DEVMAJ_TTY) = {} /\ OfMajor(DEVMAJ_BLOCK) = {}
         /\ OfMajor(DEVMAJ_MBMOD) = Registered
    BY <1>9 DEF OfMajor, Registered, DEVMAJ_TTY, DEVMAJ_BLOCK, DEVMAJ_MBMOD
  <1>11. CountsAgree
    <2>1. Cardinality({}) = 0
      BY FS_EmptySet
    <2>2. tty_cnt = 0 /\ Len(ttys) = 0 /\ block_device_count = 0 /\ Len(block_devices) = 0
      BY DEF Init
    <2>3. 0 <= Minors
      BY Numbers
    <2> QED BY <1>10, <2>1, <2>2, <2>3 DEF CountsAgree
  <1>12. Cardinality(Registered) = n
    <2>1. devices \in Surjection(1..n, Registered)
      BY <1>4, <1>5 DEF Surjection, Registered, SlistElems
    <2>2. devices \in Injection(1..n, Registered)
      BY <2>1, <1>7 DEF Injection, IsInjective, Surjection
    <2>3. ExistsBijection(1..n, Registered)
      BY <2>1, <2>2 DEF ExistsBijection, Bijection
    <2> QED BY <1>1, <2>3, FS_CountingElements
  <1>13. initrd \in Registered
    <2>1. n \in 1..n /\ n + 1 - n = 1 /\ n - n = 0
      BY <1>1
    <2>2. devices[n] = [name |-> MbMod[n + 1 - n], dev |-> <<DEVMAJ_MBMOD, n - n>>]
      BY <1>3, <2>1
    <2>3. devices[n] = [name |-> MbMod[1], dev |-> <<DEVMAJ_MBMOD, 0>>]
      BY <2>1, <2>2
    <2>4. devices[n] = initrd
      BY <2>3, Numbers DEF initrd
    <2> QED BY <2>1, <2>4, <1>5 DEF Registered, SlistElems
  <1>14. InitrdKept
    <2>1. device_fromdev(initrd.dev) = initrd
      BY <1>6, <1>8, <1>13, ByElements, InitrdByElements
    <2> QED BY <1>10, <1>12, <2>1 DEF Init, InitrdKept, n
  <1>15. NamesOnce /\ DevfsLater
    BY DEF Init, NamesOnce, SlistNoDup, DevfsLater
  <1> QED BY <1>6, <1>8, <1>11, <1>14, <1>15 DEF IInv

\* The inductive invariant holds in every reachable state of the registries.
THEOREM Inductive == Spec => []IInv
  <1>1. Init => IInv
    BY Initial
  <1>2. IInv /\ [Next]_vars => IInv'
    BY Preserved
  <1> QED BY <1>1, <1>2, PTL DEF Spec

\* Every list and counter of the device registries keeps its type.
THEOREM TypeCorrect == Spec => []TypeOK
  <1>1. IInv => TypeOK
    BY DEF IInv
  <1> QED BY <1>1, Inductive, PTL

\* register_device's EEXIST keeps names and device numbers unique, whatever is
\* registered and unregistered, and dev_count the length of the list.
THEOREM DevicesSafe == Spec => []DevicesUnique
  <1>1. IInv => DevicesUnique
    BY DEF IInv
  <1> QED BY <1>1, Inductive, PTL

\* The TTY and block device registries hold as many entries as the central API
\* has devices of their kind, and never more than there are minor numbers.
THEOREM CountsSafe == Spec => []CountsAgree
  <1>1. IInv => CountsAgree
    BY DEF IInv
  <1> QED BY <1>1, Inductive, PTL

\* The initrd's device is never unregistered nor its number given away, and what
\* bootstrap_main mounts is its node.
THEOREM InitrdSafe == Spec => []InitrdKept
  <1>1. IInv => InitrdKept
    BY DEF IInv
  <1> QED BY <1>1, Inductive, PTL
=============================================================================
