------------------------------- MODULE DeviceJson ------------------------------
(***************************************************************************)
(* device.json, the settings and the identity of the device.               *)
(*                                                                         *)
(* Threads of the main process change a setting each                       *)
(* (machine_state_service.py): the main loop, the server thread of the     *)
(* cloud row, and websocket requests, which run in threads of their own.   *)
(* No lock is held.  Each reads the file, changes its field in the copy,   *)
(* reads the file again for the identity, truncates the file and writes    *)
(* the copy.  A file that is not JSON reads as {}.  Three more rewrite the  *)
(* file: the repair of the identity, which a snapshot of the row, the boot *)
(* and each write come with, the migration of the brightness to its new    *)
(* format, in whichever thread reads the settings, and                     *)
(* scripts/repair_device_json.sh, in a process of its own.                 *)
(*                                                                         *)
(* The serial number comes from /boot/serial.txt if the device has it, or  *)
(* else from the file itself (runtime/device_json_identity.py).  The cache *)
(* of get_device_info in main.py follows the file's modification time, so  *)
(* a read is one of the file.                                              *)
(***************************************************************************)
EXTENDS Naturals

CONSTANTS
  Author,         \* threads that change settings or rewrite the file
  Field,          \* settings: brightness, volume, name, dim window, firmware version
  MaxJsonEvent    \* bound: changes of a setting, other rewrites, and power cuts

ASSUME JsonAssumption == MaxJsonEvent \in Nat /\ "none" \notin Field

Setting   == 0..MaxJsonEvent
Unset     == MaxJsonEvent + 1     \* the value of a setting that is missing
Document(kind, settings, serial) == [kind |-> kind, settings |-> settings, serial |-> serial]
Unread    == [f \in Field |-> Unset]
Truncated == Document("truncated", Unread, FALSE)  \* a file of no bytes
Garbled   == Document("garbled", Unread, FALSE)    \* the end of another document behind one
Empty     == Document("json", Unread, FALSE)       \* {}
AtSetup   == Document("json", [f \in Field |-> 0], TRUE)  \* as on the boot partition

VARIABLES
  bootSerial,  \* whether /boot/serial.txt exists
  disk,        \* device.json: its settings, and whether it has the serial number
  author,      \* each thread: its step, its field and value, its copy
  meant,       \* the value of each setting last written to the file
  spoiled,     \* changes have overlapped, power was cut with the file truncated, or the
               \* file was replaced by the one of the boot partition
  jevents

jsonVars == <<bootSerial, disk, author, meant, spoiled, jevents>>

Readable(d)  == d.kind = "json"
Parsed(d)    == IF Readable(d) THEN d ELSE Empty         \* _read_device_info
FileAtRest(a)    == author[a].pc = "none"
NoChange     == [pc |-> "none", field |-> "none", value |-> 0, copy |-> Empty]
Overlap      == \E b \in Author : ~FileAtRest(b)
JsonEvent    == jevents < MaxJsonEvent /\ jevents' = jevents + 1

JsonInit ==
  /\ bootSerial \in BOOLEAN
  /\ disk = AtSetup
  /\ author = [a \in Author |-> NoChange]
  /\ meant = [f \in Field |-> 0] /\ spoiled = FALSE /\ jevents = 0
--------------------------------------------------------------------------------
\* set_brightness, set_volume, set_dim_window, set_device_name, set_firmware_info.
SetField(a, f) ==
  /\ JsonEvent /\ FileAtRest(a)
  /\ author' = [author EXCEPT ![a] = [NoChange EXCEPT !.pc = "load", !.field = f, !.value = jevents']]
  /\ spoiled' = (spoiled \/ Overlap)
  /\ UNCHANGED <<bootSerial, disk, meant>>

\* Bug: only the field that changes is written.
Load_OwnField(a) ==
  /\ author[a].pc = "load"
  /\ author' = [author EXCEPT ![a].pc = "identify",
                              ![a].copy = [Empty EXCEPT !.settings[author[a].field] = author[a].value]]
  /\ UNCHANGED <<bootSerial, disk, meant, spoiled, jevents>>
Load(a) ==
  /\ author[a].pc = "load"
  /\ author' = [author EXCEPT ![a].pc = "identify",
                              ![a].copy = [Parsed(disk) EXCEPT !.settings[author[a].field] = author[a].value]]
  /\ UNCHANGED <<bootSerial, disk, meant, spoiled, jevents>>

\* Bug: the serial number is that of the file whenever the file can be read.
Serial_OfFile(persisted) == persisted.serial
\* canonicalize_identity, and the fallback to what the file says.
Serial(persisted) == bootSerial \/ persisted.serial

Identify(a) ==
  /\ author[a].pc = "identify"
  /\ author' = [author EXCEPT ![a].pc = "open", ![a].copy.serial = Serial(Parsed(disk))]
  /\ UNCHANGED <<bootSerial, disk, meant, spoiled, jevents>>

\* reconcile_device_json_identity, verify_and_repair_device_json: a file that can be read,
\* with the Bluetooth address or the model of another device, gets its own and the serial.
RepairIdentity(a) ==
  /\ JsonEvent /\ FileAtRest(a) /\ Readable(disk)
  /\ author' = [author EXCEPT ![a] = [NoChange EXCEPT !.pc = "open",
                                                      !.copy = [disk EXCEPT !.serial = Serial(disk)]]]
  /\ spoiled' = (spoiled \/ Overlap)
  /\ UNCHANGED <<bootSerial, disk, meant>>

\* migrate_brightness_file: the settings are the same, the brightness in its new format.
Migrate(a) ==
  /\ JsonEvent /\ FileAtRest(a) /\ Readable(disk)
  /\ author' = [author EXCEPT ![a] = [NoChange EXCEPT !.pc = "replace", !.copy = disk]]
  /\ spoiled' = (spoiled \/ Overlap)
  /\ UNCHANGED <<bootSerial, disk, meant>>

\* scripts/repair_device_json.sh: a file that cannot be read or has no serial number is
\* replaced by the one of the boot partition.
RepairScript(a) ==
  /\ JsonEvent /\ FileAtRest(a) /\ (Readable(disk) => ~disk.serial)
  /\ author' = [author EXCEPT ![a] = [NoChange EXCEPT !.pc = "replace", !.copy = AtSetup]]
  /\ spoiled' = TRUE
  /\ UNCHANGED <<bootSerial, disk, meant>>

\* Another file takes the name; who has the old one open writes to no file.
Replace(a) ==
  /\ author[a].pc = "replace"
  /\ disk' = author[a].copy
  /\ author' = [b \in Author |->
       IF b = a THEN NoChange
       ELSE IF author[b].pc = "dump" THEN [author[b] EXCEPT !.pc = "dump to the old file"]
       ELSE author[b]]
  /\ UNCHANGED <<bootSerial, meant, spoiled, jevents>>

Truncate(a) ==
  /\ author[a].pc = "open"
  /\ disk' = Truncated
  /\ author' = [author EXCEPT ![a].pc = "dump"]
  /\ UNCHANGED <<bootSerial, meant, spoiled, jevents>>

\* A document written over another one leaves its end, if it was longer.  The check that
\* follows (verify_and_repair_device_json) finds the identity that was just written.
Changed(a) == IF author[a].field = "none" THEN meant
              ELSE [meant EXCEPT ![author[a].field] = author[a].value]

Dump(a) ==
  /\ author[a].pc = "dump"
  /\ \/ disk' = author[a].copy
     \/ disk # Truncated /\ disk' = Garbled
  /\ meant' = Changed(a)
  /\ author' = [author EXCEPT ![a] = NoChange]
  /\ UNCHANGED <<bootSerial, spoiled, jevents>>

DumpToOldFile(a) ==
  /\ author[a].pc = "dump to the old file"
  /\ author' = [author EXCEPT ![a] = NoChange]
  /\ UNCHANGED <<bootSerial, disk, meant, spoiled, jevents>>

\* The device is switched off and on.  _ensure_device_info_id repairs the identity of a
\* file that can be read, and writes no other.
PowerCut ==
  /\ JsonEvent
  /\ author' = [a \in Author |-> NoChange]
  /\ spoiled' = (spoiled \/ disk = Truncated)
  /\ disk' = IF Readable(disk) THEN [disk EXCEPT !.serial = Serial(disk)] ELSE disk
  /\ UNCHANGED <<bootSerial, meant>>
--------------------------------------------------------------------------------
JsonNext ==
  \/ PowerCut
  \/ \E a \in Author : \/ Load(a) \/ Identify(a) \/ Truncate(a) \/ Dump(a) \/ DumpToOldFile(a)
                       \/ RepairIdentity(a) \/ Migrate(a) \/ RepairScript(a) \/ Replace(a)
                       \/ \E f \in Field : SetField(a, f)

JsonSpec == JsonInit /\ [][JsonNext]_jsonVars
--------------------------------------------------------------------------------
Documents(kinds) == [kind : kinds, settings : [Field -> Setting \cup {Unset}], serial : BOOLEAN]
Change == [pc : {"none", "load", "identify", "open", "dump", "dump to the old file", "replace"},
           field : Field \cup {"none"}, value : Setting, copy : Documents({"json"})]

JsonTypeOK ==
  /\ bootSerial \in BOOLEAN /\ spoiled \in BOOLEAN /\ jevents \in 0..MaxJsonEvent
  /\ disk \in Documents({"json", "truncated", "garbled"})
  /\ author \in [Author -> Change]
  /\ meant \in [Field -> Setting]

\* Settings are lost in three ways only: two writers overlap, the power is cut while the
\* file is truncated (_write_device_info, machine_state_service.py:66), or the repair
\* script replaces a file that is damaged; no repair, migration or check on the way loses
\* one.
SettingsKept ==
  ~spoiled /\ (\A a \in Author : FileAtRest(a)) => Readable(disk) /\ disk.settings = meant

\* A device that has its serial number on the boot partition has it in every file that can
\* be read, whatever overlaps and power cuts were before.
SerialKept == bootSerial /\ Readable(disk) => disk.serial
================================================================================
