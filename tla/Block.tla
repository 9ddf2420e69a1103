-------------------------------- MODULE Block --------------------------------
(***************************************************************************)
(* The lists of the shared block (disks, network adapters, physical disks, *)
(* sensors): a fixed number of slots each, which the two publishers fill   *)
(* from lists of any length, and the rows the Avalonia client makes of     *)
(* them.  The counts the publishers store too are in no schema, so a       *)
(* reader knows an unused slot by its content only.  The lists are         *)
(* independent: a behaviour follows one.  The sequence lock (Seqlock)      *)
(* makes a publication atomic for the read of one field.                   *)
(***************************************************************************)
EXTENDS Integers, Sequences, Selection

CONSTANTS BlockBuilds,  \* the publishers, of "mac" and "windows"
          SlotLists,    \* the lists, of "disks", "adapters", "phys" and "temps"
          Capacity,     \* slots of the list (4, 4, 8 and 10 in the code)
          MaxRows,      \* bound: rows the hardware has
          Items,        \* the disks, adapters or sensors there may be
          LongNamed,    \* those with a long name; that of the others is shorter
          Connected,    \* the adapters with an IP address
          WithAttrs,    \* the physical disks with SMART attributes ...
          BigAttrs      \* ... and those of them whose JSON takes 4096 bytes or more

VARIABLES publisher,  \* the build that publishes
          list,       \* the list followed
          slots,      \* its slots in the block
          hardware,   \* what there was at the last publication
          whole,      \* whether that ended without an exception
          cursor,     \* the field the client reads next, over all slots; -1: none
          view,       \* what it has read
          steady      \* whether the block has said the same since it began

bvars == <<publisher, list, slots, hardware, whole, cursor, view, steady>>

None == 0          \* the content of a slot never used
Placeholder == -1  \* "No network adapter detected", 00-00-00-00-00-00
Cut == -2          \* JSON without its end

\* A name is two characters here, each that of the item it came from.
Name(d) == <<d, IF d \in LongNamed THEN d ELSE None>>

\* What identifies the row (total size, IP and MAC address, capacity, value), its
\* name and its attributes.
DiskSlot == [name |-> <<None, None>>, key |-> None, attrs |-> None]
SlotFields == <<"name", "key", "attrs">>

Min2(a, b) == IF a < b THEN a ELSE b
Fitting(s) == SubSeq(s, 1, Min2(Len(s), Capacity))

\* The rows the hardware may have.
Lists == {s \in UNION {[1..n -> Items] : n \in 0..MaxRows} :
            \A i, j \in DOMAIN s : i # j => s[i] # s[j]}

IPCDataBlock == [i \in 1..Capacity |-> DiskSlot]

BlockInit ==
  /\ publisher \in BlockBuilds /\ list \in SlotLists
  /\ slots = IPCDataBlock
  /\ hardware = <<>> /\ whole = FALSE
  /\ cursor = -1 /\ view = IPCDataBlock /\ steady = FALSE

Published(hw, complete) ==
  /\ hardware' = hw /\ whole' = complete
  /\ steady' = (steady /\ complete /\ hw = hardware)

(***************************************************************************)
(* macOS: the used slots are overwritten, the others left.                 *)
(***************************************************************************)
MacRow(d) == [name |-> Name(d), key |-> d, attrs |-> None]

\* Model, serial number and interface are copied up to their end only, the
\* attributes if there are some and if they fit.
MacPhysDisk(old, d) ==
  [name |-> [k \in 1..2 |-> IF Name(d)[k] # None THEN Name(d)[k] ELSE old.name[k]],
   key |-> d,
   attrs |-> IF d \in WithAttrs \ BigAttrs THEN d ELSE old.attrs]

MacAdaptersOfFirst(hw) == Selected(Fitting(hw), Connected)
MacAdapters(hw) == Fitting(Selected(hw, Connected))

MacPublish(hw) ==
  LET rows == IF list = "adapters" THEN MacAdapters(hw) ELSE Fitting(hw)
  IN  /\ publisher = "mac"
      /\ slots' = [i \in 1..Capacity |->
                     IF i > Len(rows) THEN slots[i]
                     ELSE IF list = "phys" THEN MacPhysDisk(slots[i], rows[i])
                     ELSE MacRow(rows[i])]
      /\ Published(hw, TRUE)
      /\ UNCHANGED <<publisher, list, cursor, view>>

(***************************************************************************)
(* Windows: the disks are cleared before, and the names of the sensors.    *)
(***************************************************************************)
WindowsClear(s) ==
  CASE list \in {"disks", "phys"} -> DiskSlot
    [] list = "temps"             -> [s EXCEPT !.name = DiskSlot.name]
    [] list = "adapters"          -> s

WindowsRow(d) ==
  [name |-> Name(d), key |-> d,
   attrs |-> IF list # "phys" \/ d \notin WithAttrs THEN None
             ELSE IF d \in BigAttrs THEN Cut ELSE d]

\* Without adapters the first slot holds the legacy one, which main() has set.
WindowsAdapters(hw) == IF hw = <<>> THEN <<Placeholder>> ELSE Fitting(hw)

\* WriteToSharedMemory.  An exception after n rows leaves the rest as cleared, and
\* the sequence even.
WindowsPublish(hw, n) ==
  LET rows == IF list = "adapters" THEN WindowsAdapters(hw) ELSE Fitting(hw)
  IN  /\ publisher = "windows"
      /\ n <= Len(rows)
      /\ slots' = [i \in 1..Capacity |-> IF i <= n THEN WindowsRow(rows[i])
                                         ELSE WindowsClear(slots[i])]
      /\ Published(hw, n = Len(rows))
      /\ UNCHANGED <<publisher, list, cursor, view>>

\* A new server: macOS makes a new block, Windows finds the old one as long as
\* somebody has it mapped.
InitSharedMemory(exists) ==
  /\ exists => publisher = "windows"
  /\ slots' = IF exists THEN slots ELSE IPCDataBlock
  /\ hardware' = <<>> /\ whole' = FALSE /\ steady' = FALSE
  /\ UNCHANGED <<publisher, list, cursor, view>>

(***************************************************************************)
(* The client: MapToSystemInfo reads one field after the other.  A read    *)
(* during which the block changes its meaning is followed no further.      *)
(***************************************************************************)
LastField == Capacity * Len(SlotFields)

BeginMap ==
  /\ cursor \in {-1, LastField} \/ ~steady
  /\ cursor' = 0 /\ view' = IPCDataBlock /\ steady' = whole
  /\ UNCHANGED <<publisher, list, slots, hardware, whole>>

MapFieldOf ==
  /\ steady /\ cursor \in 0..LastField - 1
  /\ LET i == cursor \div Len(SlotFields) + 1
         f == SlotFields[(cursor % Len(SlotFields)) + 1]
     IN  view' = [view EXCEPT ![i][f] = slots[i][f]]
  /\ cursor' = cursor + 1
  /\ UNCHANGED <<publisher, list, slots, hardware, whole, steady>>

\* The rows that get into the lists of SystemInfo: sensors whatever they say.
Shown == {i \in 1..Capacity : list = "temps" \/ view[i].key # None}

BlockNext ==
  \/ \E hw \in Lists : MacPublish(hw) \/ \E n \in 0..Capacity : WindowsPublish(hw, n)
  \/ \E exists \in BOOLEAN : InitSharedMemory(exists)
  \/ BeginMap \/ MapFieldOf

BlockSpec == BlockInit /\ [][BlockNext]_bvars

(***************************************************************************)
(* Properties.                                                             *)
(***************************************************************************)
ReadAll == cursor = LastField /\ steady

\* What the block should say: on macOS "only connected" adapters.
Expected ==
  Fitting(IF publisher = "mac" /\ list = "adapters" THEN Selected(hardware, Connected)
          ELSE hardware)

\* What there was at the last publication is in the rows of a client that reads
\* all slots while nothing else is published: each with its own name, and with its
\* attributes if they fit, whatever was in the slot before; adapters without an
\* address take no slot from the others on macOS.  No disk is shown besides on
\* Windows.
PublishedIsShown ==
  ReadAll =>
    /\ \A i \in DOMAIN Expected :
         LET d == Expected[i] IN
         /\ i \in Shown /\ view[i].key = d
         /\ \A k \in 1..2 : Name(d)[k] # None => view[i].name[k] = d
         /\ publisher = "windows" \/ list # "phys" => view[i].name = Name(d)
         /\ list = "phys" /\ d \in WithAttrs \ BigAttrs => view[i].attrs = d
         /\ list = "phys" /\ d \notin WithAttrs /\ publisher = "windows" => view[i].attrs = None
    /\ publisher = "windows" /\ list \in {"disks", "phys"} => Shown = DOMAIN Expected

\* And nothing else is shown: "Network adapters (up to 4, only connected)"
\* (main_mac.cpp).
ShownIsPublished ==
  ReadAll => \A i \in Shown : i \in DOMAIN Expected /\ view[i].key = Expected[i]
==============================================================================
