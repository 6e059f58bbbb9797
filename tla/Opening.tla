------------------------------ MODULE Opening ------------------------------
(***************************************************************************)
(* How UsbSid::init looks for a device: UsbTransport::open and, when that  *)
(* fails, SerialTransport::open_auto (src/transport.rs).                   *)
(*                                                                         *)
(* bus says of each USBSID-Pico whether it is plugged in, whether the user *)
(* may open it, whether another program has claimed its interfaces and     *)
(* whether the transfers that set it up fail; tty whether the kernel's CDC *)
(* driver offers it as a serial port, and whether that port may be opened  *)
(* or is not permitted or in use.  up is the set of backends that get as   *)
(* far as a list of devices: libusb may not start, and either list may not *)
(* be had.                                                                 *)
(***************************************************************************)
EXTENDS FiniteSets, Integers

CONSTANTS
  Picos,     \* the devices that may be on the bus
  Backends,  \* what the crate was built with: "usb", "serial"
  Detaches   \* is the kernel's driver detached before the claim (Linux)?

Condition == {"absent", "denied", "claimed", "flaky", "ready"}

Port == {"none", "free", "shut"}

Nobody == "nobody"

(* Mutant: the first device that matches is taken, whether or not it opens. *)
UsbFirst(bus, up) ==
  IF "usb" \in up THEN {d \in Picos : bus[d] # "absent"} ELSE {}

(* The scan goes on when open() fails, in an order nobody promises, and    *)
(* ends at the first device that could be opened.                          *)
UsbOpenable(bus, up) ==
  IF "usb" \in up THEN {d \in Picos : bus[d] \notin {"absent", "denied"}} ELSE {}

(* The interfaces of d are claimed and its two control transfers succeed.  *)
SetsUp(bus, held, d) == bus[d] = "ready" /\ <<d, "usb">> \notin held

(* What UsbTransport::open may come to: the device or Nobody, and the      *)
(* serial ports left.  A detached driver is never attached again, and no   *)
(* other device is tried once one was opened.                              *)
UsbOpen(bus, tty, held, up) ==
  IF UsbOpenable(bus, up) = {} THEN {[device |-> Nobody, tty |-> tty]}
  ELSE {[device |-> IF SetsUp(bus, held, d) THEN d ELSE Nobody,
         tty |-> IF Detaches THEN [tty EXCEPT ![d] = "none"] ELSE tty] :
          d \in UsbOpenable(bus, up)}

SerialPorts(tty, up) ==
  IF "serial" \in up THEN {d \in Picos : tty[d] # "none"} ELSE {}

(* What SerialTransport::open_auto may come to: the first port that        *)
(* matches is the only one tried.  A port is opened exclusively.           *)
SerialOpen(bus, tty, held, up) ==
  IF SerialPorts(tty, up) = {} THEN {Nobody}
  ELSE UNION {IF tty[d] = "shut" \/ <<d, "serial">> \in held THEN {Nobody}
              ELSE IF bus[d] = "flaky" THEN {d, Nobody} ELSE {d} : d \in SerialPorts(tty, up)}

(* The ways init can end: the transport it stores, and the ports left.     *)
Found(bus, tty, held, up) ==
  LET viaUsb == UsbOpen(bus, tty, held, up)
  IN  {[device |-> o.device, via |-> "usb", tty |-> o.tty] :
         o \in {u \in viaUsb : u.device # Nobody}} \cup
      UNION {{[device |-> d, via |-> "serial", tty |-> o.tty] :
                d \in SerialOpen(bus, o.tty, held, up)} :
             o \in {u \in viaUsb : u.device = Nobody}}
=============================================================================
