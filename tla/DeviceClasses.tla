--------------------------- MODULE DeviceClasses ---------------------------
(***************************************************************************)
(* The class of a device: src/Enums.h, src/Enums.cc, and how Inquire on    *)
(* Linux and Windows takes a class-of-device number apart.                 *)
(***************************************************************************)
EXTENDS Integers

Scaled(base, step, steps) == {base + step * i : i \in steps}

DC_Uncategorized == 7936    \* 0x1f00, also the mask of the major classes

(* The values of enum DeviceClass, major class by major class.             *)
DeviceClass ==
    {0, DC_Uncategorized}
    \cup Scaled(256, 4, 0..6)                            \* computer
    \cup Scaled(512, 4, 0..5)                            \* phone
    \cup Scaled(768, 32, 0..7)                           \* access point
    \cup Scaled(1024, 4, (0..18) \ {3, 17})              \* audio, video
    \cup Scaled(1280, 4, (0..6) \cup {16, 32, 48})       \* peripheral
    \cup Scaled(1536, 16, {0, 1, 2, 4, 8})               \* imaging
    \cup Scaled(1792, 4, 0..5)                           \* wearable
    \cup Scaled(2048, 2, {0, 2, 4, 5, 6, 8})             \* toy
    \cup Scaled(2304, 2, {0, 2, 4, 5, 6, 8, 10, 12})     \* medical

(* Whether GetDeviceClassString has a name for a class.                    *)
HasName(class) == class \in DeviceClass

(* The bits of enum ServiceClass that GetServiceClassString names.         *)
ServiceBits == {0} \cup 3..10

ServiceNames(service) == {bit \in ServiceBits : (service \div 2^bit) % 2 = 1}

-----------------------------------------------------------------------------
Byte == 0..255

(* cod from the three bytes of dev_class.                                  *)
ClassOfDevice(p) == p[1] + 256 * (p[2] + 256 * p[3])

(* Faulty variant: the mask of the device class is one bit short.          *)
DecodedShort(cod) ==
    [deviceClass      |-> ((cod % 2^12) \div 4) * 4,
     majorDeviceClass |-> ((cod % 2^13) \div 2^8) * 2^8,
     serviceClass     |-> cod \div 2^13]

(* cod & 0x1ffc, cod & DC_Uncategorized, cod >> 13                         *)
Decoded(cod) ==
    [deviceClass      |-> ((cod % 2^13) \div 4) * 4,
     majorDeviceClass |-> ((cod % 2^13) \div 2^8) * 2^8,
     serviceClass     |-> cod \div 2^13]

=============================================================================
