---------------------------------- MODULE Ps2 ----------------------------------
(***************************************************************************)
(* The PS/2 controller while the kernel looks for keyboards (dev/ps2.c):   *)
(* it resets and identifies what is on each port, one byte at a time, and  *)
(* gives up on a byte that does not arrive within TIMEOUT turns.  A byte   *)
(* that is late stays on its way and is read as the answer to something    *)
(* else.                                                                   *)
(***************************************************************************)
EXTENDS Integers, Sequences

CONSTANTS
  Wirings,        \* what may be plugged into the ports
  LATE            \* bound: waits that end before what they wait for

PortOne == 1
PortTwo == 2
Ports == {PortOne, PortTwo}

ASSUME Ps2Assumption ==
  Wirings \subseteq [Ports -> {"keyboard", "mouse", "none"}] /\ LATE \in Nat

VARIABLES
  device,         \* "keyboard", "mouse" or "none" on each port
  phase, port, step,     \* x86_64_ps2_initialize: where it is
  data,           \* the controller's output buffer: a byte, or "empty"
  pending,        \* bytes each device is about to send
  enabled,        \* ports whose clock runs
  config,         \* IRQ1, IRQ2 and translation bits of the configuration
  operational,    \* g_port_one_operational, g_port_two_operational
  g_port_ids,
  drivers,        \* ports x86_64_ps2kb_initialize was called for
  late            \* history: waits that ended before what they waited for

ps2Vars == <<device, phase, port, step, data, pending, enabled, config,
             operational, g_port_ids, drivers, late>>
wires == <<device, config, operational, drivers>>

(* Modelled after the devices: every command is acknowledged.              *)
Reply(kind, command) ==
  CASE kind = "none" -> <<>>
    [] kind # "none" /\ command = "reset" ->
         IF kind = "mouse" THEN <<"ack", "passed", "0">> ELSE <<"ack", "passed">>
    [] kind # "none" /\ command = "identify" ->
         IF kind = "mouse" THEN <<"ack", "0">> ELSE <<"ack", "AB", "83">>
    [] OTHER -> <<"ack">>

Ids(kind) == IF kind = "keyboard" THEN <<"AB", "83">> ELSE <<"0", "0">>

(* The controller's tests find the ports of wired devices, or more.        *)
Ps2Init ==
  /\ device \in Wirings
  /\ phase = "controller" /\ port = PortOne /\ step = 1
  /\ data \in {"empty", "ack"} /\ pending = [p \in Ports |-> <<>>]
  /\ enabled = {} /\ config = {} /\ operational = {}
  /\ g_port_ids = [p \in Ports |-> <<"0", "0">>]
  /\ drivers = {} /\ late = 0

-----------------------------------------------------------------------------
(* A byte reaches the controller when it has room and the port's clock     *)
(* runs.                                                                   *)
Arrive(p) ==
  /\ p \in enabled /\ pending[p] # <<>> /\ data = "empty"
  /\ data' = Head(pending[p])
  /\ pending' = [pending EXCEPT ![p] = Tail(@)]
  /\ UNCHANGED <<wires, phase, port, step, enabled, g_port_ids, late>>

(* The configuration is read back from the buffer all other bytes come by. *)
Configuration(b) ==
  CASE b = "empty" -> config
    [] b = "AB" \/ b = "83" -> {"irq1", "irq2"}
    [] b = "0" -> {}
    [] OTHER -> {"irq2"}

(* Devices off, buffer flushed, tests, interrupts of working ports on.     *)
Flushed(b) == "empty"

ControllerInitialize ==
  /\ phase = "controller"
  /\ \E working \in SUBSET Ports :
       /\ \A p \in Ports : device[p] # "none" => p \in working
       /\ operational' = working
       /\ config' = Configuration(Flushed(data)) \cup
                    {<<"irq1", "irq2">>[p] : p \in working}
  /\ data' = Flushed(data)
  /\ phase' = "enable"
  /\ UNCHANGED <<device, port, step, pending, enabled, g_port_ids, drivers, late>>

-----------------------------------------------------------------------------
(* port_initialize: what it sends and what it reads, in order.             *)

Send(c) == [op |-> "send", byte |-> c]
Expect(b) == [op |-> "expect", byte |-> b]
Read(i) == [op |-> "read", byte |-> i]

Script_Bug ==
  <<Send("reset"), Expect("ack"), Expect("passed"), [op |-> "drain", byte |-> 0],
    Send("disable"), Expect("ack"),
    Send("identify"), Expect("ack"), Read(1),
    Send("enable"), Expect("ack")>>
Script ==
  <<Send("reset"), Expect("ack"), Expect("passed"), [op |-> "drain", byte |-> 0],
    Send("disable"), Expect("ack"),
    Send("identify"), Expect("ack"), Read(1), Read(2),
    Send("enable"), Expect("ack")>>

At(op) == phase = "port" /\ step <= Len(Script) /\ Script[step].op = op

Proceed == step' = step + 1 /\ UNCHANGED <<wires, phase, port, enabled>>
Fail ==
  /\ operational' = operational \ {port}
  /\ phase' = "stop"
  /\ UNCHANGED <<device, config, drivers, port, step, enabled>>

PortEnable ==
  /\ phase = "enable"
  /\ IF port \in operational
     THEN phase' = "port" /\ enabled' = enabled \cup {port}
     ELSE phase' = "next" /\ UNCHANGED enabled
  /\ step' = 1
  /\ UNCHANGED <<wires, port, data, pending, g_port_ids, late>>

(* x86_64_ps2_port_write, or its timeout.                                  *)
PortSend ==
  /\ At("send")
  /\ \/ /\ pending' = [pending EXCEPT ![port] = @ \o Reply(device[port], Script[step].byte)]
        /\ Proceed
        /\ UNCHANGED late
     \/ /\ late < LATE /\ late' = late + 1
        /\ Fail
        /\ UNCHANGED pending
  /\ UNCHANGED <<data, g_port_ids>>

(* wait_read and the byte it waited for.  The answer to the reset is       *)
(* compared after the byte behind it is thrown away, if it has come; ...   *)
Matches_Bug(b) == TRUE
Matches(b) == b = Script[step].byte

PortExpect ==
  /\ At("expect") /\ data # "empty"
  /\ IF Matches(data)
     THEN Proceed /\ UNCHANGED pending
     ELSE /\ Fail
          /\ \/ UNCHANGED pending
             \/ /\ Script[step] = Expect("passed") /\ pending[port] # <<>>
                /\ pending' = [pending EXCEPT ![port] = Tail(@)]
  /\ data' = "empty"
  /\ UNCHANGED <<g_port_ids, late>>

PortRead ==
  /\ At("read") /\ data # "empty"
  /\ g_port_ids' = [g_port_ids EXCEPT ![port][Script[step].byte] = data]
  /\ data' = "empty"
  /\ Proceed
  /\ UNCHANGED <<pending, late>>

(* ... or its timeout, of which only the second identifier makes nothing.  *)
PortTimeout ==
  /\ At("expect") \/ At("read")
  /\ data = "empty"
  /\ late' = late + (IF pending[port] # <<>> THEN 1 ELSE 0)
  /\ late' <= LATE
  /\ IF Script[step] = Read(2) THEN Proceed ELSE Fail
  /\ UNCHANGED <<data, pending, g_port_ids>>

(* The byte a mouse sends after its reset is not waited for.               *)
PortDrain ==
  /\ At("drain")
  /\ late' = late + (IF data = "empty" /\ pending[port] # <<>> THEN 1 ELSE 0)
  /\ late' <= LATE
  /\ data' = "empty"
  /\ Proceed
  /\ UNCHANGED <<pending, g_port_ids>>

PortInitialized ==
  /\ phase = "port" /\ step = Len(Script) + 1
  /\ phase' = "stop"
  /\ UNCHANGED <<wires, port, step, data, pending, enabled, g_port_ids, late>>

(* The clock of the port is stopped, after a byte that arrived meanwhile.  *)
PortDisable ==
  /\ phase = "stop"
  /\ phase' = "next"
  /\ enabled' = enabled \ {port}
  /\ UNCHANGED <<wires, port, step, data, pending, g_port_ids, late>>

NextPort ==
  /\ phase = "next"
  /\ port' = IF port = PortOne THEN PortTwo ELSE PortOne
  /\ phase' = IF port = PortOne THEN "enable" ELSE "drivers"
  /\ UNCHANGED <<wires, step, data, pending, enabled, g_port_ids, late>>

-----------------------------------------------------------------------------
(* port_initialize_drivers; translation is switched on for port one only,  *)
(* in a configuration for which a late byte of a device may be taken.      *)

DriverInitialize ==
  /\ phase = "drivers"
  /\ IF port \in operational /\ g_port_ids[port] = Ids("keyboard")
     THEN /\ drivers' = drivers \cup {port}
          /\ enabled' = enabled \cup {port}
          /\ config' = IF port = PortOne THEN Configuration(data) \cup {"translation"} ELSE config
          /\ data' = IF port = PortOne THEN "empty" ELSE data
     ELSE UNCHANGED <<drivers, enabled, config, data>>
  /\ phase' = IF port = PortOne THEN "drivers" ELSE "done"
  /\ port' = PortTwo
  /\ UNCHANGED <<device, step, pending, operational, g_port_ids, late>>

Ps2Next ==
  \/ \E p \in Ports : Arrive(p)
  \/ ControllerInitialize \/ PortEnable \/ PortSend \/ PortExpect \/ PortRead
  \/ PortTimeout \/ PortDrain \/ PortInitialized \/ PortDisable \/ NextPort \/ DriverInitialize

-----------------------------------------------------------------------------
(* A port that passed has the identity of what is plugged in, however late *)
(* a byte came: no other answer was taken for it (ps2.c:88-117).           *)
IdentitiesTrue ==
  phase \in {"drivers", "done"} =>
    \A p \in operational : device[p] # "none" /\ g_port_ids[p] = Ids(device[p])

(* A keyboard that answers in time gets its driver and its interrupt,      *)
(* whatever else is plugged in or was in the buffer (ps2.c:119-182).       *)
KeyboardsFound ==
  phase = "done" /\ late = 0 =>
    \A p \in Ports : device[p] = "keyboard" =>
      p \in drivers /\ p \in enabled /\ <<"irq1", "irq2">>[p] \in config
=============================================================================
