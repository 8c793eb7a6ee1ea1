---------------------------- MODULE ConsoleProofs ----------------------------
(***************************************************************************)
(* What the program shares with the kernel, for any screen and any number  *)
(* of keys: the keyboard's buffer and the terminal.                        *)
(***************************************************************************)
EXTENDS Console, SequenceTheorems, FiniteSetTheorems, WellFoundedInduction, NaturalsInduction,
        TLAPS

(* The search for keyboards: what is ahead of each port at each step.      *)

Kind == device[port]
Unknown == <<"0", "0">>

(* What is on its way from the port: the next byte may have arrived.       *)
Flow(s) ==
  \/ data = "empty" /\ pending[port] = s
  \/ s # <<>> /\ data = Head(s) /\ pending[port] = Tail(s)

(* What is on its way at each step of the script when no byte is late.     *)
Ahead ==
  [keyboard |-> <<<<>>, <<"ack", "passed">>, <<"passed">>, <<>>, <<>>, <<"ack">>, <<>>,
                  <<"ack", "AB", "83">>, <<"AB", "83">>, <<"83">>, <<>>, <<"ack">>, <<>>>>,
   mouse    |-> <<<<>>, <<"ack", "passed", "0">>, <<"passed", "0">>, <<"0">>, <<>>, <<"ack">>, <<>>,
                  <<"ack", "0">>, <<"0">>, <<>>, <<>>, <<"ack">>, <<>>>>,
   none     |-> <<<<>>, <<>>>>]

OnTrack ==
  /\ step \in DOMAIN Ahead[Kind]
  /\ Flow(Ahead[Kind][step])
  /\ g_port_ids[port] =
       CASE step < 10 -> Unknown
         [] step = 10 -> <<Ids(Kind)[1], "0">>
         [] step > 10 -> Ids(Kind)

(* A late byte is ahead of the answer, and the next comparison fails.      *)
OffTrack ==
  /\ late > 0
  /\ \/ step = 1 /\ data # "empty" /\ pending[port] = <<>>
     \/ step = 2 /\ data # "empty" /\ pending[port] = Reply(Kind, "reset")
     \/ step = 3 /\ Flow(Reply(Kind, "reset"))
     \/ step = 5 /\ Kind = "mouse" /\ Flow(<<"0">>)
     \/ step = 6 /\ Kind = "mouse" /\ Flow(<<"0", "ack">>)
     \/ step = 11 /\ Kind = "keyboard" /\ Flow(<<"83">>)
     \/ step = 12 /\ Kind = "keyboard" /\ Flow(<<"83", "ack">>)

Fresh(p) ==
  /\ pending[p] = <<>> /\ g_port_ids[p] = Unknown
  /\ device[p] # "none" => p \in operational
Tried(p) ==
  /\ p \in operational => device[p] # "none" /\ g_port_ids[p] = Ids(device[p])
  /\ late = 0 => pending[p] = <<>> /\ (device[p] = "keyboard" => p \in operational)
Driven(p) == device[p] = "keyboard" /\ late = 0 => p \in drivers /\ p \in enabled

(* Where the search is, for both ports: not tried yet, being tried, tried, *)
(* driven.                                                                 *)
Ps2Inv ==
  /\ device \in [Ports -> {"keyboard", "mouse", "none"}]
  /\ port \in Ports /\ step \in 1 .. 13 /\ late \in Nat
  /\ pending = [p \in Ports |-> pending[p]] /\ g_port_ids = [p \in Ports |-> g_port_ids[p]]
  /\ enabled \subseteq Ports /\ operational \subseteq Ports
  /\ phase \in {"controller", "enable", "port", "stop", "next", "drivers", "done"}
  /\ phase \notin {"controller", "port"} /\ late = 0 => data = "empty"
  /\ phase # "controller" =>
       \A p \in Ports : device[p] # "none" /\ late = 0 => <<"irq1", "irq2">>[p] \in config
  /\ phase = "controller" =>
       /\ port = PortOne /\ enabled = {} /\ drivers = {}
       /\ \A p \in Ports : pending[p] = <<>> /\ g_port_ids[p] = Unknown
  /\ phase = "enable" => Fresh(port)
  /\ phase \in {"enable", "next"} => enabled = {}
  /\ phase \in {"enable", "port", "stop", "next"} =>
       IF port = PortOne THEN Fresh(PortTwo) ELSE Tried(PortOne)
  /\ phase = "enable" /\ port = PortOne => data = "empty"
  /\ phase = "port" => enabled = {port} /\ port \in operational /\ (OnTrack \/ OffTrack)
  /\ phase = "stop" => enabled = {port} /\ Tried(port)
  /\ phase = "next" => Tried(port)
  /\ phase \in {"drivers", "done"} => Tried(PortOne) /\ Tried(PortTwo)
  /\ phase = "drivers" /\ port = PortTwo => Driven(PortOne)
  /\ phase = "done" => Driven(PortOne) /\ Driven(PortTwo)

(* The script, step by step, and the domain of each row of the table.      *)
LEMMA ScriptIs ==
  /\ Len(Script) = 12 /\ DOMAIN Ahead["keyboard"] = 1 .. 13
  /\ DOMAIN Ahead["mouse"] = 1 .. 13 /\ DOMAIN Ahead["none"] = 1 .. 2
  /\ \A n \in 1 .. 12 :
       /\ Script[n].op = "send" <=> n \in {1, 5, 7, 11}
       /\ Script[n].op = "expect" <=> n \in {2, 3, 6, 8, 12}
       /\ Script[n].op = "read" <=> n \in {9, 10}
       /\ Script[n].op = "drain" <=> n = 4
       /\ Script[n] = Read(2) <=> n = 10
  /\ Script[1].byte = "reset" /\ Script[5].byte = "disable" /\ Script[7].byte = "identify"
  /\ Script[11].byte = "enable"
  /\ Script[2].byte = "ack" /\ Script[3].byte = "passed" /\ Script[6].byte = "ack"
  /\ Script[8].byte = "ack" /\ Script[12].byte = "ack"
  /\ Script[9].byte = 1 /\ Script[10].byte = 2
  BY DEF Script, Send, Expect, Read, Ahead

(* The rows of the table, from the replies.                                *)
LEMMA AheadIs ==
  /\ \A k \in {"keyboard", "mouse"} :
       /\ Ahead[k][1] = <<>> /\ Ahead[k][2] = Reply(k, "reset") /\ Ahead[k][3] = Tail(Reply(k, "reset"))
       /\ Ahead[k][4] = Tail(Ahead[k][3]) /\ Ahead[k][5] = <<>> /\ Ahead[k][6] = <<"ack">>
       /\ Ahead[k][7] = <<>> /\ Ahead[k][8] = Reply(k, "identify") /\ Ahead[k][9] = Tail(Ahead[k][8])
       /\ Ahead[k][10] = Tail(Ahead[k][9]) /\ Ahead[k][11] = <<>> /\ Ahead[k][12] = <<"ack">>
       /\ Ahead[k][13] = <<>>
  /\ Ahead["none"][1] = <<>> /\ Ahead["none"][2] = <<>>
  BY DEF Ahead, Reply

(* What the script waits for is what comes next, and what it sends is      *)
(* answered.                                                               *)
LEMMA Replies ==
  /\ \A k \in {"keyboard", "mouse"} :
       /\ Reply(k, "disable") = <<"ack">> /\ Reply(k, "enable") = <<"ack">>
       /\ Reply(k, "reset") = IF k = "mouse" THEN <<"ack", "passed", "0">> ELSE <<"ack", "passed">>
       /\ Reply(k, "identify") = IF k = "mouse" THEN <<"ack", "0">> ELSE <<"ack", "AB", "83">>
  /\ \A x, y, z : /\ Tail(<<x>>) = <<>> /\ Tail(<<x, y>>) = <<y>> /\ Tail(<<x, y, z>>) = <<y, z>>
                  /\ Head(<<x>>) = x /\ Head(<<x, y>>) = x /\ Head(<<x, y, z>>) = x
                  /\ <<x>> # <<>> /\ <<x, y>> # <<>> /\ <<x, y, z>> # <<>>
  /\ \A x, y, z : /\ <<>> \o <<x>> = <<x>> /\ <<>> \o <<x, y>> = <<x, y>>
                  /\ <<>> \o <<x, y, z>> = <<x, y, z>>
<1>1. \A k \in {"keyboard", "mouse"} :
       /\ Reply(k, "disable") = <<"ack">> /\ Reply(k, "enable") = <<"ack">>
       /\ Reply(k, "reset") = IF k = "mouse" THEN <<"ack", "passed", "0">> ELSE <<"ack", "passed">>
       /\ Reply(k, "identify") = IF k = "mouse" THEN <<"ack", "0">> ELSE <<"ack", "AB", "83">>
  BY DEF Reply
<1>2. \A x, y, z : /\ Tail(<<x>>) = <<>> /\ Tail(<<x, y>>) = <<y>> /\ Tail(<<x, y, z>>) = <<y, z>>
                  /\ Head(<<x>>) = x /\ Head(<<x, y>>) = x /\ Head(<<x, y, z>>) = x
                  /\ <<x>> # <<>> /\ <<x, y>> # <<>> /\ <<x, y, z>> # <<>>
  OBVIOUS
<1>3. \A x, y, z : /\ <<>> \o <<x>> = <<x>> /\ <<>> \o <<x, y>> = <<x, y>>
                  /\ <<>> \o <<x, y, z>> = <<x, y, z>>
  OBVIOUS
<1> QED
  BY <1>1, <1>2, <1>3

LEMMA Awaited ==
  ASSUME NEW k \in {"keyboard", "mouse"}, NEW n \in {2, 3, 6, 8, 12}
  PROVE  /\ Ahead[k][n] # <<>> /\ Head(Ahead[k][n]) = Script[n].byte
         /\ Tail(Ahead[k][n]) = Ahead[k][n + 1] /\ n + 1 \in DOMAIN Ahead[k]
<1>1. Ahead[k][n] # <<>> /\ Head(Ahead[k][n]) = Script[n].byte
  <2>1. CASE k = "keyboard"
    BY <2>1, ScriptIs DEF Ahead
  <2>2. CASE k = "mouse"
    BY <2>2, ScriptIs DEF Ahead
  <2> QED
    BY <2>1, <2>2
<1>2. Tail(Ahead[k][n]) = Ahead[k][n + 1]
  <2>1. /\ Ahead[k][2] = Reply(k, "reset") /\ Ahead[k][3] = Tail(Reply(k, "reset"))
        /\ Ahead[k][4] = Tail(Ahead[k][3]) /\ Ahead[k][6] = <<"ack">> /\ Ahead[k][7] = <<>>
        /\ Ahead[k][8] = Reply(k, "identify") /\ Ahead[k][9] = Tail(Ahead[k][8])
        /\ Ahead[k][12] = <<"ack">> /\ Ahead[k][13] = <<>>
    BY AheadIs
  <2>2. Tail(<<"ack">>) = <<>>
    BY Replies
  <2>3. /\ Ahead[k][3] = Tail(Ahead[k][2]) /\ Ahead[k][4] = Tail(Ahead[k][3])
        /\ Ahead[k][7] = Tail(Ahead[k][6]) /\ Ahead[k][9] = Tail(Ahead[k][8])
        /\ Ahead[k][13] = Tail(Ahead[k][12])
    BY <2>1, <2>2, Zenon
  <2>4. 2 + 1 = 3 /\ 3 + 1 = 4 /\ 6 + 1 = 7 /\ 8 + 1 = 9 /\ 12 + 1 = 13
    OBVIOUS
  <2> QED
    BY ONLY <2>3, <2>4, n \in {2, 3, 6, 8, 12}, Zenon
<1>3. n + 1 \in DOMAIN Ahead[k]
  BY ScriptIs
<1> QED
  BY <1>1, <1>2, <1>3

(* A byte is never taken for the empty buffer.                             *)
LEMMA BytesAhead ==
  ASSUME NEW k \in {"keyboard", "mouse", "none"}, NEW n \in DOMAIN Ahead[k], Ahead[k][n] # <<>>
  PROVE  Head(Ahead[k][n]) # "empty"
<1>1. CASE k = "keyboard"
  BY <1>1, ScriptIs DEF Ahead
<1>2. CASE k = "mouse"
  BY <1>2, ScriptIs DEF Ahead
<1>3. k # "none"
  BY ScriptIs, AheadIs
<1> QED
  BY <1>1, <1>2, <1>3

(* What the script sends is answered by what the next step expects.        *)
LEMMA Answered ==
  ASSUME NEW k \in {"keyboard", "mouse"}, NEW n \in {1, 5, 7, 11}
  PROVE  /\ Ahead[k][n] = <<>> /\ Ahead[k][n + 1] = <<>> \o Reply(k, Script[n].byte)
         /\ n + 1 \in DOMAIN Ahead[k]
<1>1. Ahead[k][n] = <<>>
  BY AheadIs
<1>2. Ahead[k][n + 1] = Reply(k, Script[n].byte)
  <2>1. /\ Ahead[k][2] = Reply(k, "reset") /\ Ahead[k][6] = <<"ack">>
        /\ Ahead[k][8] = Reply(k, "identify") /\ Ahead[k][12] = <<"ack">>
    BY AheadIs
  <2>2. Reply(k, "disable") = <<"ack">> /\ Reply(k, "enable") = <<"ack">>
    BY Replies
  <2>3. /\ Script[1].byte = "reset" /\ Script[5].byte = "disable"
        /\ Script[7].byte = "identify" /\ Script[11].byte = "enable"
    BY ScriptIs
  <2> QED
    BY ONLY <2>1, <2>2, <2>3, n \in {1, 5, 7, 11}
<1>3. Reply(k, Script[n].byte) = <<>> \o Reply(k, Script[n].byte)
  BY ScriptIs, Replies
<1>4. n + 1 \in DOMAIN Ahead[k]
  BY ScriptIs
<1> QED
  BY <1>1, <1>2, <1>3, <1>4

(* Two sequences of one byte.                                              *)
LEMMA Two ==
  ASSUME NEW x, NEW y
  PROVE  <<x>> \o <<y>> = <<x, y>>
<1> DEFINE s == <<x>> \o <<y>>
<1>1. /\ <<x>> \in Seq({x, y}) /\ <<y>> \in Seq({x, y}) /\ <<x, y>> \in Seq({x, y})
      /\ Len(<<x>>) = 1 /\ Len(<<y>>) = 1 /\ Len(<<x, y>>) = 2
  OBVIOUS
<1>2. /\ s \in Seq({x, y}) /\ Len(s) = 2
      /\ \A i \in 1 .. 2 : s[i] = IF i <= 1 THEN <<x>>[i] ELSE <<y>>[i - 1]
  BY <1>1, ConcatProperties
<1>3. s[1] = x /\ s[2] = y
  BY <1>2
<1>4. \A i \in 1 .. 2 : s[i] = <<x, y>>[i]
  BY <1>3
<1> HIDE DEF s
<1>5. s = <<x, y>>
  BY <1>1, <1>2, <1>4, SeqEqual
<1> QED
  BY <1>5 DEF s

(* The sequences that occur, taken from and added to.                      *)
LEMMA Queued ==
  /\ \A s \in {<<"ack">>, <<"ack", "passed">>, <<"ack", "passed", "0">>, <<>>} : <<>> \o s = s
  /\ <<"0">> \o <<"ack">> = <<"0", "ack">> /\ <<"83">> \o <<"ack">> = <<"83", "ack">>
  /\ \A x, y : <<x, y>> # <<>> /\ Head(<<x, y>>) = x /\ Tail(<<x, y>>) = <<y>>
  /\ \A x : <<x>> # <<>> /\ Head(<<x>>) = x /\ Tail(<<x>>) = <<>>
<1>1. \A s \in {<<"ack">>, <<"ack", "passed">>, <<"ack", "passed", "0">>, <<>>} : <<>> \o s = s
  OBVIOUS
<1>2. <<"0">> \o <<"ack">> = <<"0", "ack">> /\ <<"83">> \o <<"ack">> = <<"83", "ack">>
  BY Two
<1>3. \A x, y : <<x, y>> # <<>> /\ Head(<<x, y>>) = x /\ Tail(<<x, y>>) = <<y>>
  OBVIOUS
<1>4. \A x : <<x>> # <<>> /\ Head(<<x>>) = x /\ Tail(<<x>>) = <<>>
  OBVIOUS
<1> QED
  BY <1>1, <1>2, <1>3, <1>4

(* The initial states have it: nothing was sent.                           *)
LEMMA Ps2InitInv ==
  ASSUME Ps2Init
  PROVE  Ps2Inv
  BY Ps2Assumption DEF Ps2Init, Ps2Inv, Unknown, Ports, PortOne, PortTwo

(* The next step of the script for the same port.                          *)
LEMMA Proceeding ==
  ASSUME Ps2Inv, phase = "port", UNCHANGED <<wires, phase, port, enabled>>,
         step' \in 1 .. 13, late' \in Nat, late' >= late, OnTrack' \/ OffTrack',
         pending' = [p \in Ports |-> pending'[p]], g_port_ids' = [p \in Ports |-> g_port_ids'[p]],
         \A p \in Ports \ {port} : pending'[p] = pending[p] /\ g_port_ids'[p] = g_port_ids[p]
  PROVE  Ps2Inv'
<1>1. late' = 0 => late = 0
  BY DEF Ps2Inv
<1>2. port = PortOne => Fresh(PortTwo)'
  <2>1. port = PortOne => pending'[PortTwo] = pending[PortTwo] /\ g_port_ids'[PortTwo] = g_port_ids[PortTwo]
    BY DEF Ports, PortOne, PortTwo
  <2>2. port = PortOne => Fresh(PortTwo)
    BY DEF Ps2Inv
  <2> QED
    BY <2>1, <2>2 DEF Fresh, wires
<1>3. port = PortTwo => Tried(PortOne)'
  <2>1. port = PortTwo => pending'[PortOne] = pending[PortOne] /\ g_port_ids'[PortOne] = g_port_ids[PortOne]
    BY DEF Ports, PortOne, PortTwo
  <2>2. port = PortTwo => Tried(PortOne)
    BY DEF Ps2Inv, PortOne, PortTwo
  <2> QED
    BY <1>1, <2>1, <2>2 DEF Tried, wires
<1> HIDE DEF OnTrack, OffTrack, Fresh, Tried
<1> QED
  BY <1>1, <1>2, <1>3 DEF Ps2Inv, wires, Ports

(* The script is given up: the port works no longer.                       *)
LEMMA Failing ==
  ASSUME Ps2Inv, phase = "port", Fail, late' \in Nat, late' >= late,
         pending' = [p \in Ports |-> pending'[p]], UNCHANGED g_port_ids,
         \A p \in Ports \ {port} : pending'[p] = pending[p],
         late' = 0 => pending'[port] = <<>> /\ Kind # "keyboard" /\ data' = "empty"
  PROVE  Ps2Inv'
<1>1. late' = 0 => late = 0
  BY DEF Ps2Inv
<1>2. port = PortOne => Fresh(PortTwo)'
  BY DEF Ps2Inv, Fail, Fresh, Ports, PortOne, PortTwo
<1>3. port = PortTwo => Tried(PortOne)'
  <2>1. port = PortTwo => Tried(PortOne)
    BY DEF Ps2Inv, PortOne, PortTwo
  <2>2. port = PortTwo => pending'[PortOne] = pending[PortOne]
    BY DEF Ports, PortOne, PortTwo
  <2>3. UNCHANGED <<device, g_port_ids>>
    BY DEF Fail
  <2>4. port = PortTwo => (PortOne \in operational' <=> PortOne \in operational)
    BY DEF Fail, PortOne, PortTwo
  <2> QED
    BY <1>1, <2>1, <2>2, <2>3, <2>4 DEF Tried
<1>4. Tried(port)'
  BY DEF Ps2Inv, Fail, Tried, Kind
<1> QED
  BY <1>1, <1>2, <1>3, <1>4 DEF Ps2Inv, Fail, Ports

(* What is sent is answered, behind a late byte if there is one.           *)
LEMMA SentStep ==
  ASSUME Ps2Inv, PortSend, Proceed, UNCHANGED late,
         pending' = [pending EXCEPT ![port] = @ \o Reply(device[port], Script[step].byte)]
  PROVE  Ps2Inv'
<1>1. /\ phase = "port" /\ step \in {1, 5, 7, 11}
      /\ pending' = [pending EXCEPT ![port] = @ \o Reply(Kind, Script[step].byte)]
      /\ step' = step + 1 /\ UNCHANGED <<wires, phase, port, enabled, data, g_port_ids, late>>
  <2>1. step \in 1 .. 12
    BY ScriptIs DEF PortSend, At, Ps2Inv
  <2> QED
    BY <2>1, ScriptIs DEF PortSend, At, Proceed, Kind
<1>2. /\ port \in Ports /\ pending'[port] = pending[port] \o Reply(Kind, Script[step].byte)
      /\ \A p \in Ports \ {port} : pending'[p] = pending[p]
      /\ pending' = [p \in Ports |-> pending'[p]] /\ g_port_ids' = [p \in Ports |-> g_port_ids'[p]]
      /\ Kind \in {"keyboard", "mouse", "none"} /\ late \in Nat
  BY <1>1 DEF Ps2Inv, Kind
<1>3. OnTrack' \/ OffTrack'
  <2>1. CASE OnTrack
    <3>1. Kind # "none" \/ step = 1
      BY <1>1, <1>2, <2>1, ScriptIs DEF OnTrack
    <3>2. Ahead[Kind][step] = <<>> /\ Flow(Ahead[Kind][step])
      BY <1>1, <1>2, <2>1, <3>1, Answered, AheadIs DEF OnTrack
    <3>3. data = "empty" /\ pending[port] = <<>>
      BY <3>2 DEF Flow
    <3>4. /\ step + 1 \in DOMAIN Ahead[Kind]
          /\ Ahead[Kind][step + 1] = <<>> \o Reply(Kind, Script[step].byte)
      <4>1. CASE Kind = "none"
        BY <3>1, <4>1, ScriptIs, AheadIs, Queued DEF Reply
      <4>2. CASE Kind # "none"
        BY <1>1, <1>2, <4>2, Answered
      <4> QED
        BY <4>1, <4>2
    <3>5. pending'[port] = Ahead[Kind][step + 1] /\ data' = "empty"
      BY <1>1, <1>2, <3>3, <3>4
    <3>6. g_port_ids'[port] = CASE step + 1 < 10 -> Unknown
                                [] step + 1 = 10 -> <<Ids(Kind)[1], "0">>
                                [] step + 1 > 10 -> Ids(Kind)
      BY <1>1, <2>1 DEF OnTrack
    <3> QED
      BY <1>1, <3>4, <3>5, <3>6 DEF OnTrack, Flow, Kind, wires
  <2>2. CASE OffTrack
    <3>1. CASE step = 1
      <4>1. data # "empty" /\ pending[port] = <<>> /\ late > 0
        BY <2>2, <3>1 DEF OffTrack
      <4>2. pending'[port] = <<>> \o Reply(Kind, "reset")
        BY <1>2, <3>1, <4>1, ScriptIs
      <4>3. pending'[port] = Reply(Kind, "reset")
        BY <1>2, <4>2, Queued DEF Reply
      <4> QED
        BY <1>1, <3>1, <4>1, <4>3 DEF OffTrack, Kind, wires
    <3>2. CASE step = 5
      <4>1. Kind = "mouse" /\ Flow(<<"0">>) /\ late > 0
        BY <2>2, <3>2 DEF OffTrack
      <4>2. pending'[port] = pending[port] \o <<"ack">>
        BY <1>2, <3>2, <4>1, ScriptIs DEF Reply
      <4>3. \/ data = "empty" /\ pending'[port] = <<"0", "ack">>
            \/ data = "0" /\ pending'[port] = <<"ack">>
        BY <4>1, <4>2, Queued DEF Flow
      <4>4. Flow(<<"0", "ack">>)'
        BY <1>1, <4>3, Queued DEF Flow
      <4> QED
        BY <1>1, <3>2, <4>1, <4>4 DEF OffTrack, Kind, wires
    <3>3. CASE step = 11
      <4>1. Kind = "keyboard" /\ Flow(<<"83">>) /\ late > 0
        BY <2>2, <3>3 DEF OffTrack
      <4>2. pending'[port] = pending[port] \o <<"ack">>
        BY <1>2, <3>3, <4>1, ScriptIs DEF Reply
      <4>3. \/ data = "empty" /\ pending'[port] = <<"83", "ack">>
            \/ data = "83" /\ pending'[port] = <<"ack">>
        BY <4>1, <4>2, Queued DEF Flow
      <4>4. Flow(<<"83", "ack">>)'
        BY <1>1, <4>3, Queued DEF Flow
      <4> QED
        BY <1>1, <3>3, <4>1, <4>4 DEF OffTrack, Kind, wires
    <3> QED
      BY <1>1, <2>2, <3>1, <3>2, <3>3 DEF OffTrack
  <2> QED
    BY <1>1, <2>1, <2>2 DEF Ps2Inv
<1>4. step' \in 1 .. 13
  BY <1>1
<1> QED
  BY <1>1, <1>2, <1>3, <1>4, Proceeding

(* If it cannot be sent the port has failed.                               *)
LEMMA SendStep ==
  ASSUME Ps2Inv, PortSend
  PROVE  Ps2Inv'
<1>1. CASE /\ pending' = [pending EXCEPT ![port] = @ \o Reply(device[port], Script[step].byte)]
           /\ Proceed /\ UNCHANGED late
  BY <1>1, SentStep
<1>2. CASE late' = late + 1 /\ Fail /\ UNCHANGED pending
  <2>1. late' \in Nat /\ late' >= late /\ late' # 0
    BY <1>2 DEF Ps2Inv
  <2>2. phase = "port" /\ UNCHANGED g_port_ids /\ pending' = [p \in Ports |-> pending'[p]]
    BY <1>2 DEF PortSend, At, Ps2Inv
  <2> QED
    BY <1>2, <2>1, <2>2, Failing
<1> QED
  BY <1>1, <1>2 DEF PortSend

(* The byte that was waited for is the one that is compared; a late one    *)
(* fails.                                                                  *)
LEMMA ExpectStep ==
  ASSUME Ps2Inv, PortExpect
  PROVE  Ps2Inv'
<1>1. /\ phase = "port" /\ step \in {2, 3, 6, 8, 12} /\ data # "empty" /\ data' = "empty"
      /\ UNCHANGED <<g_port_ids, late>>
  <2>1. step \in 1 .. 12
    BY ScriptIs DEF PortExpect, At, Ps2Inv
  <2> QED
    BY <2>1, ScriptIs DEF PortExpect, At
<1>2. /\ port \in Ports /\ Kind \in {"keyboard", "mouse", "none"} /\ late \in Nat
      /\ pending = [p \in Ports |-> pending[p]] /\ g_port_ids = [p \in Ports |-> g_port_ids[p]]
  BY DEF Ps2Inv, Kind
<1>3. OnTrack \/ OffTrack
  BY <1>1 DEF Ps2Inv
<1>4. OnTrack => /\ Kind # "none" /\ data = Script[step].byte
                 /\ step + 1 \in DOMAIN Ahead[Kind]
                 /\ pending[port] = Ahead[Kind][step + 1]
                 /\ g_port_ids[port] = CASE step + 1 < 10 -> Unknown
                                         [] step + 1 = 10 -> <<Ids(Kind)[1], "0">>
                                         [] step + 1 > 10 -> Ids(Kind)
  <2> SUFFICES ASSUME OnTrack
               PROVE  /\ Kind # "none" /\ data = Script[step].byte
                      /\ step + 1 \in DOMAIN Ahead[Kind]
                      /\ pending[port] = Ahead[Kind][step + 1]
                      /\ g_port_ids[port] = CASE step + 1 < 10 -> Unknown
                                              [] step + 1 = 10 -> <<Ids(Kind)[1], "0">>
                                              [] step + 1 > 10 -> Ids(Kind)
    OBVIOUS
  <2>1. data = Head(Ahead[Kind][step]) /\ pending[port] = Tail(Ahead[Kind][step]) /\ Ahead[Kind][step] # <<>>
    BY <1>1 DEF OnTrack, Flow
  <2>2. Kind # "none"
    BY <1>1, <2>1, AheadIs, ScriptIs DEF OnTrack
  <2>3. step + 1 \in DOMAIN Ahead[Kind]
    BY <1>1, <1>2, <2>2, Awaited
  <2>4. Head(Ahead[Kind][step]) = Script[step].byte /\ Tail(Ahead[Kind][step]) = Ahead[Kind][step + 1]
    BY <1>1, <1>2, <2>2, Awaited
  <2>5. g_port_ids[port] = CASE step + 1 < 10 -> Unknown
                             [] step + 1 = 10 -> <<Ids(Kind)[1], "0">>
                             [] step + 1 > 10 -> Ids(Kind)
    BY <1>1 DEF OnTrack
  <2> QED
    BY <2>1, <2>2, <2>3, <2>4, <2>5
<1>5. CASE Matches(data)
  <2>1. step' = step + 1 /\ UNCHANGED <<wires, phase, port, enabled, pending>>
    BY <1>5 DEF PortExpect, Proceed
  <2>2. CASE OnTrack
    <3>1. OnTrack'
      BY <1>1, <1>4, <2>1, <2>2 DEF OnTrack, Flow, Kind, wires
    <3> QED
      BY <1>1, <1>2, <2>1, <3>1, Proceeding
  <2>3. CASE OffTrack
    <3>1. step = 2
      BY <1>1, <1>2, <1>5, <2>3, ScriptIs DEF OffTrack, Flow, Matches, Reply
    <3>2. OffTrack'
      BY <1>1, <2>1, <2>3, <3>1 DEF OffTrack, Flow, Kind, wires
    <3> QED
      BY <1>1, <1>2, <2>1, <3>1, <3>2, Proceeding
  <2> QED
    BY <1>3, <2>2, <2>3
<1>6. CASE ~Matches(data)
  <2>1. Fail
    BY <1>6 DEF PortExpect
  <2>2. late # 0
    BY <1>2, <1>3, <1>4, <1>6 DEF OffTrack, Matches
  <2>3. /\ pending' = [p \in Ports |-> pending'[p]]
        /\ \A p \in Ports \ {port} : pending'[p] = pending[p]
    BY <1>2, <1>6 DEF PortExpect
  <2> QED
    BY <1>1, <1>2, <2>1, <2>2, <2>3, Failing
<1> QED
  BY <1>5, <1>6

(* An identifier is read in its place.                                     *)
LEMMA ReadStep ==
  ASSUME Ps2Inv, PortRead
  PROVE  Ps2Inv'
<1>1. /\ phase = "port" /\ step \in {9, 10} /\ data # "empty" /\ data' = "empty"
      /\ g_port_ids' = [g_port_ids EXCEPT ![port][step - 8] = data]
      /\ step' = step + 1 /\ UNCHANGED <<wires, phase, port, enabled, pending, late>>
  <2>1. step \in 1 .. 12
    BY ScriptIs DEF PortRead, At, Ps2Inv
  <2>2. step \in {9, 10}
    BY <2>1, ScriptIs DEF PortRead, At
  <2>3. Script[step].byte = step - 8
    BY <2>2, ScriptIs
  <2> QED
    BY <2>2, <2>3 DEF PortRead, At, Proceed
<1>2. /\ port \in Ports /\ Kind \in {"keyboard", "mouse", "none"} /\ late \in Nat
      /\ pending = [p \in Ports |-> pending[p]] /\ g_port_ids = [p \in Ports |-> g_port_ids[p]]
  BY DEF Ps2Inv, Kind
<1>3. OnTrack
  BY <1>1 DEF Ps2Inv, OffTrack
<1>4. Kind \in {"keyboard", "mouse"} /\ Ahead[Kind][step] # <<>>
      /\ data = Head(Ahead[Kind][step]) /\ pending[port] = Tail(Ahead[Kind][step])
  <2>1. data = Head(Ahead[Kind][step]) /\ pending[port] = Tail(Ahead[Kind][step]) /\ Ahead[Kind][step] # <<>>
    BY <1>1, <1>3 DEF OnTrack, Flow
  <2>2. Kind # "none"
    BY <1>1, <1>3, ScriptIs DEF OnTrack
  <2> QED
    BY <1>2, <2>1, <2>2
<1>5. /\ g_port_ids'[port] = [g_port_ids[port] EXCEPT ![step - 8] = data]
      /\ \A p \in Ports \ {port} : g_port_ids'[p] = g_port_ids[p]
      /\ g_port_ids' = [p \in Ports |-> g_port_ids'[p]]
  BY <1>1, <1>2
<1>6. OnTrack'
  <2>1. /\ step + 1 \in DOMAIN Ahead[Kind] /\ pending[port] = Ahead[Kind][step + 1]
        /\ g_port_ids'[port] = IF step = 9 THEN <<Ids(Kind)[1], "0">> ELSE Ids(Kind)
    <3>1. CASE step = 9 /\ Kind = "keyboard"
      <4>1. data = "AB" /\ pending[port] = <<"83">> /\ g_port_ids[port] = <<"0", "0">>
        BY <1>3, <1>4, <3>1, AheadIs, Replies DEF Ahead, OnTrack, Unknown
      <4>2. g_port_ids'[port] = <<"AB", "0">>
        BY <1>5, <3>1, <4>1
      <4> QED
        BY <3>1, <4>1, <4>2, ScriptIs DEF Ahead, Ids
    <3>2. CASE step = 10 /\ Kind = "keyboard"
      <4>1. data = "83" /\ pending[port] = <<>> /\ g_port_ids[port] = <<"AB", "0">>
        BY <1>3, <1>4, <3>2, AheadIs, Replies DEF Ahead, OnTrack, Ids
      <4>2. g_port_ids'[port] = <<"AB", "83">>
        BY <1>5, <3>2, <4>1
      <4> QED
        BY <3>2, <4>1, <4>2, ScriptIs DEF Ahead, Ids
    <3>3. CASE step = 9 /\ Kind = "mouse"
      <4>1. data = "0" /\ pending[port] = <<>> /\ g_port_ids[port] = <<"0", "0">>
        BY <1>3, <1>4, <3>3, AheadIs, Replies DEF Ahead, OnTrack, Unknown
      <4>2. g_port_ids'[port] = <<"0", "0">>
        BY <1>5, <3>3, <4>1
      <4> QED
        BY <3>3, <4>1, <4>2, ScriptIs DEF Ahead, Ids
    <3>4. ~(step = 10 /\ Kind = "mouse")
      BY <1>4, AheadIs DEF Ahead
    <3> QED
      BY <1>1, <1>4, <3>1, <3>2, <3>3, <3>4
  <2>2. step \in {9, 10} /\ step' = step + 1 /\ data' = "empty" /\ Kind' = Kind
        /\ port' = port /\ pending' = pending
    BY <1>1 DEF Kind, wires
  <2> QED
    BY <2>1, <2>2 DEF OnTrack, Flow
<1> QED
  BY <1>1, <1>2, <1>5, <1>6, Proceeding

(* Nothing comes in time: only for the second identifier does it go on.    *)
LEMMA TimeoutStep ==
  ASSUME Ps2Inv, PortTimeout
  PROVE  Ps2Inv'
<1>1. /\ phase = "port" /\ step \in {2, 3, 6, 8, 9, 10, 12} /\ data = "empty" /\ data' = "empty"
      /\ UNCHANGED <<pending, g_port_ids>>
      /\ IF step = 10 THEN Proceed ELSE Fail
  <2>1. step \in 1 .. 12
    BY ScriptIs DEF PortTimeout, At, Ps2Inv
  <2> QED
    BY <2>1, ScriptIs DEF PortTimeout, At
<1>2. /\ port \in Ports /\ Kind \in {"keyboard", "mouse", "none"} /\ late \in Nat
      /\ pending = [p \in Ports |-> pending[p]] /\ g_port_ids = [p \in Ports |-> g_port_ids[p]]
  BY DEF Ps2Inv, Kind
<1>3. late' = late + (IF pending[port] # <<>> THEN 1 ELSE 0)
  BY DEF PortTimeout
<1>4. late' \in Nat /\ late' >= late /\ (late' = 0 => late = 0 /\ pending[port] = <<>>)
  BY <1>2, <1>3
<1>5. OnTrack \/ OffTrack
  BY <1>1 DEF Ps2Inv
<1>6. OnTrack => pending[port] = Ahead[Kind][step]
  BY <1>1, <1>2, BytesAhead DEF OnTrack, Flow
<1>7. CASE step = 10
  <2>1. OnTrack
    BY <1>5, <1>7 DEF OffTrack
  <2>2. step' = 11 /\ UNCHANGED <<wires, phase, port, enabled>> /\ Kind' = Kind
    BY <1>1, <1>7 DEF Proceed, Kind, wires
  <2>3. OnTrack' \/ OffTrack'
    <3>1. CASE Kind = "keyboard"
      <4>1. pending[port] = <<"83">>
        <5>1. Ahead["keyboard"][10] = <<"83">>
          BY DEF Ahead
        <5>2. pending[port] = Ahead[Kind][step]
          BY <1>6, <2>1
        <5> QED
          BY <1>7, <3>1, <5>1, <5>2, Zenon
      <4>2. late' > 0
        <5>1. pending[port] # <<>>
          BY ONLY <4>1
        <5>2. late \in Nat /\ late' = late + 1
          BY <1>2, <1>3, <5>1
        <5> QED
          BY ONLY <5>2
      <4> QED
        BY <1>1, <2>2, <3>1, <4>1, <4>2 DEF OffTrack, Flow
    <3>2. CASE Kind = "mouse"
      <4>1. pending[port] = <<>> /\ g_port_ids[port] = Ids(Kind)
        BY <1>6, <1>7, <2>1, <3>2 DEF Ahead, OnTrack, Ids
      <4>2. 11 \in DOMAIN Ahead[Kind] /\ Ahead[Kind][11] = <<>>
        BY <3>2, AheadIs, ScriptIs
      <4> QED
        BY <1>1, <2>2, <4>1, <4>2 DEF OnTrack, Flow
    <3>3. Kind # "none"
      BY <1>7, <2>1, ScriptIs DEF OnTrack
    <3> QED
      BY <1>2, <3>1, <3>2, <3>3
  <2> QED
    BY <1>1, <1>2, <1>4, <2>2, <2>3, Proceeding
<1>8. CASE step # 10
  <2>1. Fail
    BY <1>1, <1>8
  <2>2. late' = 0 => Kind # "keyboard"
    <3>1. late' = 0 => OnTrack /\ pending[port] = <<>>
      BY <1>4, <1>5 DEF OffTrack
    <3>2. OnTrack /\ Kind = "keyboard" => pending[port] # <<>>
      BY <1>1, <1>6, <1>8 DEF Ahead
    <3> QED
      BY <3>1, <3>2
  <2>3. /\ phase = "port" /\ UNCHANGED <<data, pending, g_port_ids>> /\ late' \in Nat /\ late' >= late
        /\ data = "empty" /\ (late' = 0 => pending[port] = <<>>)
        /\ pending' = [p \in Ports |-> pending'[p]]
    BY <1>1, <1>4, <1>5 DEF PortTimeout, Ps2Inv
  <2> QED
    BY <2>1, <2>2, <2>3, Failing
<1> QED
  BY <1>7, <1>8

(* The last byte of a mouse's answer is thrown away, or comes later.       *)
LEMMA DrainStep ==
  ASSUME Ps2Inv, PortDrain
  PROVE  Ps2Inv'
<1>1. /\ phase = "port" /\ step = 4 /\ data' = "empty" /\ step' = 5
      /\ UNCHANGED <<wires, phase, port, enabled, pending, g_port_ids>>
  <2>1. step \in 1 .. 12
    BY ScriptIs DEF PortDrain, At, Ps2Inv
  <2> QED
    BY <2>1, ScriptIs DEF PortDrain, At, Proceed
<1>2. /\ port \in Ports /\ Kind \in {"keyboard", "mouse", "none"} /\ late \in Nat
      /\ pending = [p \in Ports |-> pending[p]] /\ g_port_ids = [p \in Ports |-> g_port_ids[p]]
  BY DEF Ps2Inv, Kind
<1>3. late' = late + (IF data = "empty" /\ pending[port] # <<>> THEN 1 ELSE 0)
  BY DEF PortDrain
<1>4. late' \in Nat /\ late' >= late
  BY <1>2, <1>3
<1>5. OnTrack
  BY <1>1 DEF Ps2Inv, OffTrack
<1>6. Kind # "none" /\ g_port_ids[port] = Unknown
  BY <1>1, <1>5, ScriptIs DEF OnTrack
<1>7. Flow(Ahead[Kind][4])
  BY <1>1, <1>5 DEF OnTrack
<1>8. 5 \in DOMAIN Ahead[Kind] /\ Ahead[Kind][5] = <<>>
  BY <1>2, <1>6, AheadIs, ScriptIs
<1>9. Kind' = Kind /\ port' = port
  BY <1>1 DEF Kind, wires
<1>10. CASE pending[port] = <<>>
  <2>1. OnTrack'
    BY <1>1, <1>6, <1>8, <1>9, <1>10 DEF OnTrack, Flow, Unknown
  <2> QED
    BY <1>1, <1>2, <1>4, <2>1, Proceeding
<1>11. CASE pending[port] # <<>>
  <2>1. Kind = "mouse" /\ pending[port] = <<"0">> /\ data = "empty"
    <3>1. Kind = "keyboard" => Ahead[Kind][4] = <<>>
      BY DEF Ahead
    <3>2. Kind = "mouse" => Ahead[Kind][4] = <<"0">>
      BY DEF Ahead
    <3> QED
      BY <1>2, <1>6, <1>7, <1>11, <3>1, <3>2, Replies DEF Flow
  <2>2. late' > 0
    BY <1>2, <1>3, <1>11, <2>1
  <2>3. OffTrack'
    BY <1>1, <1>9, <2>1, <2>2 DEF OffTrack, Flow
  <2> QED
    BY <1>1, <1>2, <1>4, <2>3, Proceeding
<1> QED
  BY <1>10, <1>11

(* A byte arrives: only the port being tried and driven ones have a clock. *)
LEMMA ArriveStep ==
  ASSUME Ps2Inv, NEW p \in Ports, Arrive(p)
  PROVE  Ps2Inv'
<1>1. /\ p \in enabled /\ pending[p] # <<>> /\ data = "empty" /\ data' = Head(pending[p])
      /\ pending' = [pending EXCEPT ![p] = Tail(@)]
      /\ UNCHANGED <<wires, phase, port, step, enabled, g_port_ids, late>>
  BY DEF Arrive
<1>2. /\ port \in Ports /\ Kind \in {"keyboard", "mouse", "none"} /\ late \in Nat
      /\ step \in 1 .. 13
      /\ pending = [q \in Ports |-> pending[q]] /\ g_port_ids = [q \in Ports |-> g_port_ids[q]]
  BY DEF Ps2Inv, Kind
<1>3. /\ pending'[p] = Tail(pending[p]) /\ \A q \in Ports \ {p} : pending'[q] = pending[q]
      /\ pending' = [q \in Ports |-> pending'[q]]
  BY <1>1, <1>2
<1>4. phase \in {"port", "stop", "drivers", "done"}
  BY <1>1 DEF Ps2Inv
<1>7. CASE phase = "stop"
  <2>1. p = port /\ Tried(port) /\ late # 0
    BY <1>1, <1>7 DEF Ps2Inv, Tried
  <2>2. Tried(port)'
    BY <1>1, <2>1 DEF Tried, wires
  <2>3. port = PortOne => Fresh(PortTwo)'
    <3>1. port = PortOne => Fresh(PortTwo) /\ pending'[PortTwo] = pending[PortTwo]
      BY <1>3, <1>7, <2>1 DEF Ps2Inv, Ports, PortOne, PortTwo
    <3> QED
      BY <1>1, <3>1 DEF Fresh, wires
  <2>4. port # PortOne => Tried(PortOne)'
    <3>1. port # PortOne => Tried(PortOne)
      BY <1>7 DEF Ps2Inv
    <3> QED
      BY <1>1, <2>1, <3>1 DEF Tried, wires
  <2> HIDE DEF Fresh, Tried
  <2> QED
    BY <1>1, <1>2, <1>3, <1>7, <2>1, <2>2, <2>3, <2>4 DEF Ps2Inv, wires
<1>5. CASE phase = "port"
  <2>1. p = port
    BY <1>1, <1>5 DEF Ps2Inv
  <2>2. Kind' = Kind /\ port' = port /\ step' = step /\ late' = late /\ g_port_ids' = g_port_ids
    BY <1>1 DEF Kind, wires
  <2>3. \A s : Flow(s) /\ (s # <<>> => Head(s) # "empty") =>
          s # <<>> /\ data' = Head(s) /\ pending'[port] = Tail(s)
    BY <1>1, <1>3, <2>1 DEF Flow
  <2>4. OnTrack => OnTrack'
    <3>1. ASSUME OnTrack
          PROVE  LET s == Ahead[Kind][step]
                 IN  s # <<>> /\ data' = Head(s) /\ pending'[port] = Tail(s)
      BY <1>2, <2>3, <3>1, BytesAhead DEF OnTrack
    <3> QED
      BY <2>2, <3>1 DEF OnTrack, Flow
  <2>5. OffTrack => OffTrack'
    <3>1. \A s \in {Reply(Kind, "reset"), <<"0">>, <<"0", "ack">>, <<"83">>, <<"83", "ack">>} :
            s # <<>> => Head(s) # "empty"
      <4>1. Reply(Kind, "reset") # <<>> => Head(Reply(Kind, "reset")) # "empty"
        BY <1>2, Replies DEF Reply
      <4> QED
        BY <4>1, Queued
    <3>2. \A s \in {Reply(Kind, "reset"), <<"0">>, <<"0", "ack">>, <<"83">>, <<"83", "ack">>} :
            Flow(s) => s # <<>> /\ data' = Head(s) /\ pending'[port] = Tail(s)
      BY <2>3, <3>1
    <3>3. OffTrack => step \notin {1, 2}
      BY <1>1 DEF OffTrack
    <3> QED
      BY <2>2, <3>2, <3>3 DEF OffTrack, Flow
  <2>6. OnTrack' \/ OffTrack'
    BY <1>5, <2>4, <2>5 DEF Ps2Inv
  <2> QED
    BY <1>1, <1>2, <1>3, <1>5, <2>1, <2>2, <2>6, Proceeding
<1>6. CASE phase \in {"drivers", "done"}
  <2>1. late # 0
    BY <1>1, <1>6 DEF Ps2Inv, Tried, Ports, PortOne, PortTwo
  <2>2. Tried(PortOne)' /\ Tried(PortTwo)'
    BY <1>1, <1>6, <2>1 DEF Ps2Inv, Tried, wires
  <2>3. Driven(PortOne)' /\ Driven(PortTwo)'
    BY <1>1, <2>1 DEF Driven
  <2> QED
    BY <1>1, <1>2, <1>3, <1>6, <2>1, <2>2, <2>3 DEF Ps2Inv, wires
<1> QED
  BY <1>4, <1>5, <1>6, <1>7

(* The interrupts of the ports that work are on.                           *)
LEMMA ControllerStep ==
  ASSUME Ps2Inv, ControllerInitialize
  PROVE  Ps2Inv'
<1>1. /\ phase = "controller" /\ phase' = "enable" /\ data' = "empty"
      /\ operational' \subseteq Ports
      /\ \A p \in Ports : device[p] # "none" => p \in operational'
      /\ \A p \in operational' : <<"irq1", "irq2">>[p] \in config'
      /\ UNCHANGED <<device, port, step, pending, enabled, g_port_ids, drivers, late>>
  BY DEF ControllerInitialize, Flushed
<1>2. Fresh(PortOne)' /\ Fresh(PortTwo)'
  BY <1>1 DEF Ps2Inv, Fresh, Ports
<1>3. port = PortOne /\ PortOne \in Ports
  BY <1>1 DEF Ps2Inv, Ports
<1> QED
  BY <1>1, <1>2, <1>3 DEF Ps2Inv

(* A port is tried from the first step, unless it does not work.           *)
LEMMA EnableStep ==
  ASSUME Ps2Inv, PortEnable
  PROVE  Ps2Inv'
<1>1. /\ phase = "enable" /\ step' = 1
      /\ UNCHANGED <<wires, port, data, pending, g_port_ids, late>>
      /\ IF port \in operational
         THEN phase' = "port" /\ enabled' = enabled \cup {port}
         ELSE phase' = "next" /\ UNCHANGED enabled
  BY DEF PortEnable
<1>2. /\ port \in Ports /\ Kind \in {"keyboard", "mouse", "none"} /\ late \in Nat
      /\ Fresh(port) /\ enabled = {} /\ (late = 0 => data = "empty")
  BY <1>1 DEF Ps2Inv, Kind
<1>3. port = PortOne => Fresh(PortTwo)'
  BY <1>1 DEF Ps2Inv, Fresh, wires
<1>4. port # PortOne => Tried(PortOne)'
  BY <1>1 DEF Ps2Inv, Tried, wires
<1>5. CASE port \in operational
  <2>1. OnTrack' \/ OffTrack'
    <3>1. CASE data = "empty"
      <4>1. 1 \in DOMAIN Ahead[Kind] /\ Ahead[Kind][1] = <<>>
        BY <1>2, AheadIs, ScriptIs
      <4>2. Kind' = Kind /\ port' = port /\ step' = 1 /\ data' = data /\ pending' = pending
            /\ g_port_ids' = g_port_ids
        BY <1>1 DEF Kind, wires
      <4>3. pending[port] = <<>> /\ g_port_ids[port] = Unknown
        BY <1>2 DEF Fresh
      <4> QED
        BY <3>1, <4>1, <4>2, <4>3 DEF OnTrack, Flow, Unknown
    <3>2. CASE data # "empty"
      BY <1>1, <1>2, <3>2 DEF OffTrack, Fresh, wires
    <3> QED
      BY <3>1, <3>2
  <2> QED
    BY <1>1, <1>2, <1>3, <1>4, <1>5, <2>1 DEF Ps2Inv, wires
<1>6. CASE port \notin operational
  <2>1. Tried(port)'
    BY <1>1, <1>2, <1>6 DEF Tried, Fresh, wires
  <2> QED
    BY <1>1, <1>2, <1>3, <1>4, <1>6, <2>1 DEF Ps2Inv, wires
<1> QED
  BY <1>5, <1>6

(* Whoever reaches the end of the script identified itself.                *)
LEMMA InitializedStep ==
  ASSUME Ps2Inv, PortInitialized
  PROVE  Ps2Inv'
<1>1. /\ phase = "port" /\ step = 13 /\ phase' = "stop"
      /\ UNCHANGED <<wires, port, step, data, pending, enabled, g_port_ids, late>>
  BY ScriptIs DEF PortInitialized
<1>2. port \in Ports /\ Kind \in {"keyboard", "mouse", "none"} /\ enabled = {port}
  BY <1>1 DEF Ps2Inv, Kind
<1>3. OnTrack
  BY <1>1 DEF Ps2Inv, OffTrack
<1>4. Kind # "none" /\ g_port_ids[port] = Ids(Kind)
  BY <1>1, <1>3, ScriptIs DEF OnTrack
<1>5. data = "empty" /\ pending[port] = <<>>
  <2>1. Ahead[Kind][13] = <<>>
    BY <1>2, <1>4, AheadIs
  <2> QED
    BY <1>1, <1>3, <2>1 DEF OnTrack, Flow
<1>6. Tried(port)'
  BY <1>1, <1>2, <1>4, <1>5 DEF Ps2Inv, Tried, Kind, wires
<1>7. port = PortOne => Fresh(PortTwo)'
  BY <1>1 DEF Ps2Inv, Fresh, wires
<1>8. port # PortOne => Tried(PortOne)'
  BY <1>1 DEF Ps2Inv, Tried, wires
<1> QED
  BY <1>1, <1>2, <1>5, <1>6, <1>7, <1>8 DEF Ps2Inv, wires

(* The port's clock stops, and nothing comes from it any more.             *)
LEMMA DisableStep ==
  ASSUME Ps2Inv, PortDisable
  PROVE  Ps2Inv'
<1>1. /\ phase = "stop" /\ phase' = "next" /\ enabled' = enabled \ {port}
      /\ UNCHANGED <<wires, port, step, data, pending, g_port_ids, late>>
  BY DEF PortDisable
<1>2. port \in Ports /\ enabled = {port} /\ Tried(port) /\ (late = 0 => data = "empty")
  BY <1>1 DEF Ps2Inv
<1>3. \A p \in Ports : (Tried(p) => Tried(p)') /\ (Fresh(p) => Fresh(p)')
  BY <1>1 DEF Tried, Fresh, wires
<1>4. Tried(port)'
  BY <1>1, <1>2, <1>3 DEF Tried, wires
<1>5. IF port = PortOne THEN Fresh(PortTwo)' ELSE Tried(PortOne)'
  BY <1>1, <1>3 DEF Ps2Inv, Ports
<1> HIDE DEF Fresh, Tried
<1> QED
  BY <1>1, <1>2, <1>4, <1>5 DEF Ps2Inv, wires

(* From port to port, and then to the drivers.                             *)
LEMMA NextPortStep ==
  ASSUME Ps2Inv, NextPort
  PROVE  Ps2Inv'
<1>1. /\ phase = "next"
      /\ port' = IF port = PortOne THEN PortTwo ELSE PortOne
      /\ phase' = IF port = PortOne THEN "enable" ELSE "drivers"
      /\ UNCHANGED <<wires, step, data, pending, enabled, g_port_ids, late>>
  BY DEF NextPort
<1>2. port \in Ports /\ Tried(port) /\ enabled = {} /\ PortOne # PortTwo /\ Ports = {PortOne, PortTwo}
  BY <1>1 DEF Ps2Inv, Ports, PortOne, PortTwo
<1>3. \A p \in Ports : (Tried(p) => Tried(p)') /\ (Fresh(p) => Fresh(p)')
  BY <1>1 DEF Tried, Fresh, wires
<1>4. CASE port = PortOne
  <2>1. Fresh(PortTwo)' /\ Tried(PortOne)'
    BY <1>1, <1>2, <1>3, <1>4 DEF Ps2Inv
  <2> QED
    BY <1>1, <1>2, <1>4, <2>1 DEF Ps2Inv, wires
<1>5. CASE port = PortTwo
  <2>1. Tried(PortOne)' /\ Tried(PortTwo)'
    BY <1>1, <1>2, <1>3, <1>5 DEF Ps2Inv
  <2> QED
    BY <1>1, <1>2, <1>5, <2>1 DEF Ps2Inv, wires
<1> QED
  BY <1>2, <1>4, <1>5

(* The driver of a keyboard that was found.                                *)
LEMMA DriverStep ==
  ASSUME Ps2Inv, DriverInitialize
  PROVE  Ps2Inv'
<1>1. /\ phase = "drivers" /\ port' = PortTwo
      /\ phase' = IF port = PortOne THEN "drivers" ELSE "done"
      /\ drivers \subseteq drivers' /\ enabled \subseteq enabled' /\ enabled' \subseteq enabled \cup {port}
      /\ data' \in {data, "empty"} /\ (data = "empty" => config \subseteq config')
      /\ port \in operational /\ g_port_ids[port] = Ids("keyboard") =>
           port \in drivers' /\ port \in enabled'
      /\ UNCHANGED <<device, step, pending, operational, g_port_ids, late>>
  BY DEF DriverInitialize, Configuration
<1>2. /\ port \in Ports /\ Tried(PortOne) /\ Tried(PortTwo) /\ (late = 0 => data = "empty")
      /\ (port = PortTwo => Driven(PortOne)) /\ PortOne # PortTwo /\ Ports = {PortOne, PortTwo}
  BY <1>1 DEF Ps2Inv, Ports, PortOne, PortTwo
<1>3. Tried(PortOne)' /\ Tried(PortTwo)'
  BY <1>1, <1>2 DEF Tried
<1>4. Driven(port)
      \/ (device[port] = "keyboard" /\ late = 0 => port \in drivers' /\ port \in enabled')
  BY <1>1, <1>2 DEF Tried
<1>5. port = PortOne => Driven(PortOne)'
  BY <1>1, <1>4 DEF Driven
<1>6. port = PortTwo => Driven(PortOne)' /\ Driven(PortTwo)'
  BY <1>1, <1>2, <1>4 DEF Driven
<1> QED
  BY <1>1, <1>2, <1>3, <1>5, <1>6 DEF Ps2Inv

(* Every step of the search keeps what is ahead of the ports.              *)
LEMMA Ps2Step ==
  ASSUME Ps2Inv, Ps2Next \/ UNCHANGED ps2Vars
  PROVE  Ps2Inv'
<1>1. CASE UNCHANGED ps2Vars
  BY <1>1 DEF ps2Vars, Ps2Inv, OnTrack, OffTrack, Flow, Kind, Fresh, Tried, Driven
<1>2. CASE Ps2Next
  BY <1>2, ArriveStep, ControllerStep, EnableStep, SendStep, ExpectStep, ReadStep, TimeoutStep,
     DrainStep, InitializedStep, DisableStep, NextPortStep, DriverStep DEF Ps2Next
<1> QED
  BY <1>1, <1>2

-----------------------------------------------------------------------------
(* Which side is inside its critical section, and what the buffer holds:   *)
(* the flag is never up for a character already taken.                     *)
BufferInv ==
  /\ g_lock \in {"free", "handler", "program"}
  /\ syscall \in {"user", "input", "take", "none"}
  /\ g_lock = "program" <=> syscall \in {"take", "none"}
  /\ typed \in Nat /\ got_input \in BOOLEAN
  /\ got_input \/ g_lock = "handler" => input_buffer.number = typed
  /\ syscall = "take" => got_input
  /\ syscall = "none" => ~got_input

(* Once the terminal's sink is gone nobody is drawing and nobody starts.   *)
TermInv ==
  /\ at \in [x : 0 .. ch_width - 1, y : 0 .. ch_height - 1]
  /\ closer = "open" => g_active
  /\ closer \in {"clear", "closed"} => log_lock = None /\ "TERM" \notin sinks

(* A set of natural numbers with an element has a least one.               *)
LEMMA Least ==
  ASSUME NEW T \in SUBSET Nat, T # {}
  PROVE  \E x \in T : \A y \in T : x <= y
<1> DEFINE R == {ss \in Nat \X Nat : ss[1] < ss[2]}
<1>1. OpToRel(<, Nat) = R
  BY DEF OpToRel
<1>2. \A x, y \in T : y < x => <<y, x>> \in R
  OBVIOUS
<1> HIDE DEF R
<1>3. IsWellFoundedOn(R, Nat)
  BY NatLessThanWellFounded, <1>1
<1>4. PICK x \in T : \A y \in T : <<y, x>> \notin R
  BY <1>3, WFMin
<1>5. \A y \in T : ~(y < x)
  BY <1>2, <1>4
<1> QED
  BY <1>5

-----------------------------------------------------------------------------
(* What format puts out is a sequence.                                     *)

LEMMA IsSequenceIs ==
  ASSUME NEW S, NEW s \in Seq(S)
  PROVE  IsSequence(s)
<1>1. Len(s) \in Nat /\ s \in [1 .. Len(s) -> S] /\ DOMAIN s = 1 .. Len(s)
  OBVIOUS
<1> DEFINE R == {s[k] : k \in DOMAIN s}
<1>2. s \in [1 .. Len(s) -> R]
  BY <1>1
<1>3. s \in Seq(R)
  <2>1. Len(s) \in Nat
    OBVIOUS
  <2> HIDE DEF R
  <2> QED
    BY <1>2, <2>1
<1> QED
  BY <1>3 DEF IsSequence

LEMMA Joined ==
  ASSUME NEW s, IsSequence(s), NEW t, IsSequence(t)
  PROVE  IsSequence(s \o t)
<1> DEFINE S == {s[k] : k \in DOMAIN s}
           T == {t[k] : k \in DOMAIN t}
<1>1. s \in Seq(S \cup T) /\ t \in Seq(S \cup T)
  BY DEF IsSequence
<1> HIDE DEF S, T
<1>2. s \o t \in Seq(S \cup T)
  BY <1>1
<1> QED
  BY <1>2, IsSequenceIs

LEMMA Listed ==
  ASSUME NEW n \in Nat, NEW s, s = [k \in 1 .. n |-> s[k]]
  PROVE  IsSequence(s)
<1> DEFINE R == {s[k] : k \in DOMAIN s}
<1>1. s \in [1 .. n -> R]
  OBVIOUS
<1>2. s \in Seq(R)
  BY <1>1
<1> QED
  BY <1>2 DEF IsSequence

LEMMA Part ==
  ASSUME NEW s, IsSequence(s), NEW m \in Nat \ {0}, NEW n \in Int, n <= Len(s)
  PROVE  IsSequence(SubSeq(s, m, n))
<1> DEFINE S == {s[k] : k \in DOMAIN s}
<1>1. s \in Seq(S)
  BY DEF IsSequence
<1> HIDE DEF S
<1>2. SubSeq(s, m, n) \in Seq(S)
  BY <1>1
<1> QED
  BY <1>2, IsSequenceIs

LEMMA TimesIs ==
  ASSUME NEW c, NEW n \in Int
  PROVE  IsSequence(Times(c, n))
<1>1. CASE n > 0
  <2>1. Times(c, n) = [k \in 1 .. n |-> c]
    BY <1>1 DEF Times
  <2> QED
    BY <1>1, <2>1, Listed
<1>2. CASE ~(n > 0)
  <2>1. Times(c, n) = <<>> /\ <<>> \in Seq({})
    BY <1>2 DEF Times
  <2> QED
    BY <2>1, IsSequenceIs
<1> QED
  BY <1>1, <1>2

LEMMA LoopsIs ==
  ASSUME NEW v, NEW radix
  PROVE  Loops(v, radix) \in Nat
<1> DEFINE S == {k \in 1 .. WORD : radix ^ k <= v}
<1>1. IsFiniteSet(1 .. WORD)
  BY FS_Interval, FormatAssumption
<1>2. IsFiniteSet(S)
  BY <1>1, FS_Subset
<1> QED
  BY <1>2, FS_CardinalityType DEF Loops

LEMMA EmittedIs ==
  ASSUME NEW v, NEW conversion, NEW precision
  PROVE  IsSequence(Emitted(v, conversion, precision))
<1> DEFINE radix == Radix[conversion]
           top == Loops(v, radix)
           S == {k \in 1 .. top + 1 : ~Stops(v % radix ^ (top + 2 - k), precision)}
           n == Cardinality(S)
           e == Emitted(v, conversion, precision)
<1>1. IsFiniteSet(1 .. top + 1)
  BY LoopsIs, FS_Interval
<1>2. IsFiniteSet(S)
  BY <1>1, FS_Subset
<1>3. n \in Nat
  BY <1>2, FS_CardinalityType
<1> DEFINE digit == [k \in 1 .. top + 1 |-> Digit((v \div radix ^ (top + 1 - k)) % radix, conversion)]
<1>4. e = [k \in 1 .. n |-> digit[k]]
  BY Zenon DEF Emitted
<1> HIDE DEF n, e, digit
<1>5. e = [k \in 1 .. n |-> e[k]]
  BY <1>4
<1> QED
  BY <1>3, <1>5, Listed DEF e

LEMMA OneIs ==
  ASSUME NEW a
  PROVE  IsSequence(<<a>>) /\ IsSequence(<<>>) /\ \A b : IsSequence(<<a, b>>)
<1>1. <<a>> \in Seq({a}) /\ <<>> \in Seq({}) /\ \A b : <<a, b>> \in Seq({a, b})
  OBVIOUS
<1> QED
  BY <1>1, IsSequenceIs

LEMMA SignIs ==
  ASSUME NEW d, NEW v
  PROVE  IsSequence(Sign(d, v)) /\ Len(Sign(d, v)) \in Nat
<1>1. \/ Sign(d, v) = <<>> \/ Sign(d, v) = <<"-">> \/ Sign(d, v) = <<"+">>
      \/ Sign(d, v) = <<" ">> \/ Sign(d, v) = <<"0", d.conversion>>
  BY Zenon DEF Sign
<1>2. IsSequence(Sign(d, v))
  BY <1>1, OneIs, Zenon
<1> QED
  BY <1>2 DEF IsSequence

(* A number, whatever it is and however it is to be printed.               *)
LEMMA NumberIs ==
  ASSUME NEW d, d.width \in Int, d.precision = NotGiven \/ d.precision \in Int
  PROVE  IsSequence(Number(d))
<1> DEFINE v == Fetched(d)
           abs == IF v < 0 THEN -v ELSE v
           conversion == d.conversion
           radix == Radix[conversion]
           p == Precision(d)
           digits == (IF p # 0 \/ abs # 0 THEN 1 ELSE 0) + Loops(abs, radix)
           missing == IF p > digits THEN p - digits ELSE 0
           zeros == IF missing = 0 /\ d.conversion = "o" /\ "#" \in Flags(d) /\ abs # 0
                    THEN 1 ELSE missing
           length == digits + zeros + Len(Sign(d, v))
           space == Width(d) - length
           left == IF Flags(d) \cap {"-", "0"} = {} THEN Times(" ", space) ELSE <<>>
           zeroed == IF Flags(d) \cap {"-", "0"} = {"0"} THEN Times("0", space) ELSE <<>>
           right == IF "-" \in Flags(d) THEN Times(" ", space) ELSE <<>>
<1>1. p \in Int
  BY DEF Precision
<1>2. digits \in Int
  BY LoopsIs
<1>3. zeros \in Int
  <2> HIDE DEF p, digits
  <2> QED
    BY <1>1, <1>2
<1>4. Width(d) \in Int
  BY DEF Width
<1>5. space \in Int
  <2>1. Len(Sign(d, v)) \in Nat
    BY SignIs
  <2> HIDE DEF digits, zeros, v
  <2> QED
    BY <1>2, <1>3, <1>4, <2>1
<1>6. IsSequence(left) /\ IsSequence(zeroed) /\ IsSequence(right)
  <2> HIDE DEF space
  <2> QED
    BY <1>5, TimesIs, OneIs
<1>7. IsSequence(Times("0", zeros)) /\ IsSequence(Emitted(abs, conversion, p)) /\ IsSequence(Sign(d, v))
  <2> HIDE DEF zeros, abs, conversion, p, v
  <2> QED
    BY <1>3, TimesIs, EmittedIs, SignIs
<1>8. Number(d) = IF length = 0 THEN left
                  ELSE left \o Sign(d, v) \o zeroed \o Times("0", zeros) \o Emitted(abs, conversion, p) \o right
  BY DEF Number
<1> HIDE DEF left, zeroed, right, zeros, abs, conversion, p, v, length
<1> DEFINE a == left \o Sign(d, v)
           b == a \o zeroed
           c == b \o Times("0", zeros)
           e == c \o Emitted(abs, conversion, p)
<1>9. IsSequence(a)
  BY <1>6, <1>7, Joined
<1>10. IsSequence(b)
  BY <1>6, <1>9, Joined
<1>11. IsSequence(c)
  BY <1>7, <1>10, Joined
<1>12. IsSequence(e)
  BY <1>7, <1>11, Joined
<1>13. IsSequence(e \o right)
  BY <1>6, <1>12, Joined
<1> QED
  BY <1>6, <1>8, <1>13

(* A character or a string.                                                *)
LEMMA TextIs ==
  ASSUME NEW d, d.width \in Int, d.precision = NotGiven \/ d.precision \in Int, IsSequence(d.value)
  PROVE  IsSequence(Text(d))
<1> DEFINE all == d.value
           str == IF d.conversion = "s" /\ d.precision # NotGiven /\ Precision(d) < Len(all)
                  THEN SubSeq(all, 1, Precision(d)) ELSE all
           pad == Times(" ", Width(d) - Len(str))
<1>1. Len(all) \in Nat
  BY DEF IsSequence
<1>2. IsSequence(str)
  <2>1. CASE d.conversion = "s" /\ d.precision # NotGiven /\ Precision(d) < Len(all)
    <3>1. Precision(d) \in Int
      BY DEF Precision
    <3>2. IsSequence(SubSeq(all, 1, Precision(d)))
      BY <1>1, <2>1, <3>1, Part
    <3> QED
      BY <2>1, <3>2
  <2>2. CASE ~(d.conversion = "s" /\ d.precision # NotGiven /\ Precision(d) < Len(all))
    BY <2>2
  <2> QED
    BY <2>1, <2>2
<1> HIDE DEF str
<1>3. IsSequence(pad)
  <2>1. Width(d) \in Int
    BY DEF Width
  <2>2. Len(str) \in Nat
    BY <1>2 DEF IsSequence
  <2>3. Width(d) - Len(str) \in Int
    BY <2>1, <2>2
  <2> QED
    BY <2>3, TimesIs
<1> HIDE DEF pad
<1>4. IsSequence(str \o pad) /\ IsSequence(pad \o str)
  BY <1>2, <1>3, Joined
<1>5. Text(d) = IF "-" \in Flags(d) THEN str \o pad ELSE pad \o str
  BY DEF Text, str, pad
<1> QED
  BY <1>4, <1>5

LEMMA OutputIs ==
  ASSUME NEW i, IsItem(i)
  PROVE  IsSequence(Output(i))
<1>1. CASE "text" \in DOMAIN i
  BY <1>1 DEF Output, IsItem
<1>2. CASE "text" \notin DOMAIN i
  BY <1>2, TextIs, NumberIs DEF Output, IsItem, Directive
<1> QED
  BY <1>1, <1>2

(* What format has put out after so many items.                            *)
OutTo(f, items, n) ==
  f = [k \in 0 .. n |-> IF k = 0 THEN <<>> ELSE f[k - 1] \o Output(items[k])]

LEMMA OutExists ==
  ASSUME NEW items, NEW n \in Nat
  PROVE  \E f : OutTo(f, items, n)
<1> DEFINE T == {k \in Nat : ~\E f : OutTo(f, items, k)}
<1>1. SUFFICES ASSUME T # {}
               PROVE  FALSE
  OBVIOUS
<1>2. PICK k \in T : \A l \in T : k <= l
  BY <1>1, Least
<1>3. CASE k = 0
  <2> DEFINE f == [m \in 0 .. 0 |-> <<>>]
  <2>1. OutTo(f, items, 0)
    BY DEF OutTo
  <2> QED
    BY <1>2, <1>3, <2>1
<1>4. CASE k # 0
  <2>1. k \in Nat /\ k - 1 \in Nat /\ k - 1 \notin T
    BY <1>2, <1>4
  <2>2. PICK g : OutTo(g, items, k - 1)
    BY <2>1
  <2> DEFINE f == [m \in 0 .. k |-> IF m = 0 THEN <<>> ELSE g[m - 1] \o Output(items[m])]
  <2>3. \A m \in 0 .. k - 1 : f[m] = g[m]
    BY <2>1, <2>2 DEF OutTo
  <2>4. ASSUME NEW m \in 0 .. k, m # 0 PROVE f[m - 1] = g[m - 1]
    <3>1. m - 1 \in 0 .. k - 1
      BY <2>1, <2>4
    <3> QED
      BY <2>3, <3>1
  <2>5. OutTo(f, items, k)
    BY <2>4 DEF OutTo
  <2> QED
    BY <1>2, <2>5
<1> QED
  BY <1>3, <1>4

LEMMA FormatIs ==
  ASSUME NEW items, AreItems(items)
  PROVE  IsSequence(format(items))
<1> DEFINE last == Len(items)
           f == CHOOSE f : OutTo(f, items, last)
           T == {k \in 0 .. last : ~IsSequence(f[k])}
<1>1. last \in Nat /\ DOMAIN items = 1 .. last
  BY DEF AreItems, IsSequence
<1>2. OutTo(f, items, last)
  BY <1>1, OutExists
<1>3. format(items) = f[last]
  BY Zenon DEF format, OutTo
<1> HIDE DEF f
<1>4. \A k \in 0 .. last : f[k] = IF k = 0 THEN <<>> ELSE f[k - 1] \o Output(items[k])
  BY <1>2, Zenon DEF OutTo
<1>5. T = {}
  <2>1. SUFFICES ASSUME T # {}
                 PROVE  FALSE
    OBVIOUS
  <2>2. T \in SUBSET Nat
    BY <1>1
  <2>3. PICK k \in T : \A l \in T : k <= l
    BY <2>1, <2>2, Least
  <2>4. CASE k = 0
    BY <1>1, <1>4, <2>3, <2>4, OneIs
  <2>5. CASE k # 0
    <3>1. k \in 1 .. last /\ k - 1 \in 0 .. last /\ k - 1 < k
      BY <1>1, <2>3, <2>5
    <3>2. IsSequence(f[k - 1])
      BY <1>1, <2>3, <3>1
    <3>3. IsSequence(Output(items[k]))
      BY <1>1, <3>1, OutputIs DEF AreItems
    <3>4. IsSequence(f[k - 1] \o Output(items[k]))
      BY <3>2, <3>3, Joined
    <3> QED
      BY <1>4, <2>3, <2>5, <3>4
  <2> QED
    BY <2>4, <2>5
<1>6. last \in 0 .. last
  BY <1>1
<1> QED
  BY <1>3, <1>5, <1>6

-----------------------------------------------------------------------------
(* The cursor.                                                             *)

Point == [x : Nat, y : Nat]
CursorFits(s) ==
  /\ s = [cursor |-> s.cursor, prompt |-> s.prompt]
  /\ s.cursor \in Point /\ s.prompt \in Point
  /\ s.cursor.x + FONT < WIDTH /\ s.cursor.y + FONT < HEIGHT

LEMMA TabIs ==
  ASSUME NEW x \in Nat
  PROVE  \E n \in Nat : n >= FONT /\ x + (TAB_WIDTH - ((x \div FONT) % TAB_WIDTH)) * FONT = x + n
<1> DEFINE q == (x \div FONT) % TAB_WIDTH
<1>1. x \div FONT \in Nat /\ FONT \in Nat \ {0}
  BY ConsoleAssumption
<1>2. q \in 0 .. 3
  BY <1>1 DEF TAB_WIDTH
<1>3. TAB_WIDTH - q \in 1 .. 4
  BY <1>2 DEF TAB_WIDTH
<1> DEFINE m == TAB_WIDTH - q
<1>4. m * FONT \in Nat /\ m * FONT >= FONT
  <2>1. m \in Nat /\ (m = 1 \/ m = 2 \/ m = 3 \/ m = 4)
    BY <1>3
  <2> HIDE DEF m
  <2> QED
    BY <1>1, <2>1
<1> QED
  BY <1>4

(* A character moves the cursor on, or a backspace back.                   *)
LEMMA MovedIs ==
  ASSUME NEW p \in Point, NEW c
  PROVE  LET q == Moved(p, c)
         IN /\ q \in Point
            /\ c = "bs" => q.y = p.y /\ q.x = IF p.x < FONT THEN 0 ELSE p.x - FONT
            /\ c # "bs" => q.y > p.y \/ (q.y = p.y /\ q.x >= p.x + FONT)
<1>1. p.x \in Nat /\ p.y \in Nat /\ FONT \in Nat \ {0} /\ p = [x |-> p.x, y |-> p.y]
  BY ConsoleAssumption DEF Point
<1>2. CASE c = "\n"
  BY <1>1, <1>2 DEF Moved, Point
<1>3. CASE c = "\t"
  <2>1. PICK n \in Nat : /\ n >= FONT
                         /\ p.x + (TAB_WIDTH - ((p.x \div FONT) % TAB_WIDTH)) * FONT = p.x + n
    BY <1>1, TabIs
  <2>2. Moved(p, c) = [x |-> p.x + n, y |-> p.y]
    BY <1>1, <1>3, <2>1 DEF Moved
  <2> QED
    BY <1>1, <1>3, <2>1, <2>2 DEF Point
<1>4. CASE c = "bs"
  BY <1>1, <1>4 DEF Moved, Point
<1>5. CASE c \notin {"\n", "\t", "bs"}
  BY <1>1, <1>5 DEF Moved, Point
<1> QED
  BY <1>2, <1>3, <1>4, <1>5

(* Whatever is written, there is room for a character at the cursor.       *)
LEMMA Writing ==
  ASSUME NEW s, CursorFits(s), NEW c
  PROVE  CursorFits(conwrite(s, c))
<1> DEFINE q == Moved(s.cursor, c)
           p == OnLine(q)
<1>1. FONT \in Nat \ {0} /\ WIDTH \in Nat /\ HEIGHT \in Nat /\ FONT < WIDTH /\ FONT < HEIGHT
  BY ConsoleAssumption
<1>2. q \in Point
  BY MovedIs DEF CursorFits
<1> HIDE DEF q
<1>3. p \in Point /\ p.x + FONT < WIDTH
  BY <1>1, <1>2 DEF OnLine, Point
<1> HIDE DEF p
<1>4. conwrite(s, c) = IF p.y + FONT >= HEIGHT THEN Cleared_screen ELSE [s EXCEPT !.cursor = p]
  BY DEF conwrite, p, q
<1>5. CursorFits(Cleared_screen)
  BY <1>1 DEF CursorFits, Cleared_screen, Home, Point
<1>6. CASE p.y + FONT >= HEIGHT
  BY <1>4, <1>5, <1>6
<1>7. CASE ~(p.y + FONT >= HEIGHT)
  <2>1. conwrite(s, c) = [cursor |-> p, prompt |-> s.prompt]
    BY <1>4, <1>7 DEF CursorFits
  <2>2. p.y \in Nat /\ p.y + FONT < HEIGHT
    BY <1>1, <1>3, <1>7 DEF Point
  <2> QED
    BY <1>3, <2>1, <2>2 DEF CursorFits
<1> QED
  BY <1>6, <1>7

(* The screen after so many characters.                                    *)
AfterTo(f, s, text, n) ==
  f = [k \in 0 .. n |-> IF k = 0 THEN s ELSE conwrite(f[k - 1], text[k])]

LEMMA AfterExists ==
  ASSUME NEW s, NEW text, NEW n \in Nat
  PROVE  \E f : AfterTo(f, s, text, n)
<1> DEFINE T == {k \in Nat : ~\E f : AfterTo(f, s, text, k)}
<1>1. SUFFICES ASSUME T # {}
               PROVE  FALSE
  OBVIOUS
<1>2. PICK k \in T : \A l \in T : k <= l
  BY <1>1, Least
<1>3. CASE k = 0
  <2> DEFINE f == [m \in 0 .. 0 |-> s]
  <2>1. AfterTo(f, s, text, 0)
    BY DEF AfterTo
  <2> QED
    BY <1>2, <1>3, <2>1
<1>4. CASE k # 0
  <2>1. k \in Nat /\ k - 1 \in Nat /\ k - 1 \notin T
    BY <1>2, <1>4
  <2>2. PICK g : AfterTo(g, s, text, k - 1)
    BY <2>1
  <2> DEFINE f == [m \in 0 .. k |-> IF m = 0 THEN s ELSE conwrite(g[m - 1], text[m])]
  <2>3. \A m \in 0 .. k - 1 : f[m] = g[m]
    BY <2>1, <2>2 DEF AfterTo
  <2>4. ASSUME NEW m \in 0 .. k, m # 0 PROVE f[m - 1] = g[m - 1]
    <3>1. m - 1 \in 0 .. k - 1
      BY <2>1, <2>4
    <3> QED
      BY <2>3, <3>1
  <2>5. AfterTo(f, s, text, k)
    BY <2>4 DEF AfterTo
  <2> QED
    BY <1>2, <2>5
<1> QED
  BY <1>3, <1>4

(* A message leaves the cursor where there is room for a character.        *)
LEMMA Printing ==
  ASSUME NEW s, CursorFits(s), NEW items, AreItems(items)
  PROVE  CursorFits(conprint(s, items))
<1> DEFINE text == format(items)
           last == Len(text)
           f == CHOOSE f : AfterTo(f, s, text, last)
           T == {k \in 0 .. last : ~CursorFits(f[k])}
<1>1. last \in Nat
  BY FormatIs DEF IsSequence
<1>2. AfterTo(f, s, text, last)
  BY <1>1, AfterExists
<1>3. conprint(s, items) = f[last]
  BY Zenon DEF conprint, Written, AfterTo
<1> HIDE DEF f
<1>4. \A k \in 0 .. last : f[k] = IF k = 0 THEN s ELSE conwrite(f[k - 1], text[k])
  BY <1>2, Zenon DEF AfterTo
<1> HIDE DEF text
<1>5. T = {}
  <2>1. SUFFICES ASSUME T # {}
                 PROVE  FALSE
    OBVIOUS
  <2>2. T \in SUBSET Nat
    BY <1>1
  <2>3. PICK k \in T : \A l \in T : k <= l
    BY <2>1, <2>2, Least
  <2>4. CASE k = 0
    BY <1>1, <1>4, <2>3, <2>4
  <2>5. CASE k # 0
    <3>1. k \in 1 .. last /\ k - 1 \in 0 .. last /\ k - 1 < k
      BY <1>1, <2>3, <2>5
    <3>2. CursorFits(f[k - 1])
      BY <1>1, <2>3, <3>1
    <3>3. CursorFits(conwrite(f[k - 1], text[k]))
      BY <3>2, Writing
    <3> QED
      BY <1>4, <2>3, <2>5, <3>3
  <2> QED
    BY <2>4, <2>5
<1>6. last \in 0 .. last
  BY <1>1
<1> QED
  BY <1>3, <1>5, <1>6

LEMMA LiteralIs ==
  ASSUME NEW s, IsSequence(s)
  PROVE  IsItem(Literal(s))
  BY DEF IsItem, Literal

LEMMA PlainIs ==
  ASSUME NEW c, NEW v, IsSequence(v)
  PROVE  IsItem(Plain(c, v))
<1>1. DOMAIN Plain(c, v) = {"flags", "width", "precision", "length", "conversion", "value"}
  BY DEF Plain
<1>2. Plain(c, v).width = 0 /\ Plain(c, v).precision = NotGiven /\ Plain(c, v).value = v
  BY DEF Plain
<1> QED
  BY <1>1, <1>2 DEF IsItem

(* The prompt ends where it leaves the cursor.                             *)
LEMMA PromptIs ==
  ASSUME NEW s, CursorFits(s)
  PROVE  CursorFits(Prompted(s)) /\ Prompted(s).prompt = Prompted(s).cursor
<1> DEFINE path == [Plain("s", g_path) EXCEPT !.precision = Len(g_path)]
           items == <<path, Literal(<<" ">>), Plain("c", <<">">>), Literal(<<" ">>)>>
           t == conprint(s, items)
<1>1. IsItem(path)
  <2>1. DOMAIN path = {"flags", "width", "precision", "length", "conversion", "value"}
    BY DEF Plain
  <2>2. path.width = 0 /\ path.precision = Len(g_path) /\ path.value = g_path
    BY DEF Plain
  <2>3. IsSequence(g_path) /\ Len(g_path) \in Nat
    BY ConsoleAssumption DEF IsSequence
  <2> HIDE DEF path
  <2> QED
    BY <2>1, <2>2, <2>3 DEF IsItem
<1>2. IsItem(Literal(<<" ">>)) /\ IsItem(Plain("c", <<">">>))
  BY OneIs, LiteralIs, PlainIs
<1>3. AreItems(items)
  <2> DEFINE a == Literal(<<" ">>)
             b == Plain("c", <<">">>)
  <2> HIDE DEF path, a, b
  <2>1. <<path, a, b, a>> \in Seq({path, a, b})
    OBVIOUS
  <2>2. IsSequence(<<path, a, b, a>>)
    BY <2>1, IsSequenceIs
  <2>3. \A k \in DOMAIN <<path, a, b, a>> : <<path, a, b, a>>[k] \in {path, a, b}
    OBVIOUS
  <2>4. AreItems(<<path, a, b, a>>)
    BY <1>1, <1>2, <2>2, <2>3 DEF AreItems, a, b
  <2> QED
    BY <2>4 DEF a, b
<1> HIDE DEF items
<1>4. CursorFits(t)
  BY <1>3, Printing
<1>5. Prompted(s) = [t EXCEPT !.prompt = t.cursor]
  BY DEF Prompted, items
<1> HIDE DEF t
<1>6. Prompted(s) = [cursor |-> t.cursor, prompt |-> t.cursor]
  BY <1>4, <1>5 DEF CursorFits
<1> QED
  BY <1>4, <1>6 DEF CursorFits

-----------------------------------------------------------------------------
(* The commands.                                                           *)

LEMMA Wider ==
  ASSUME NEW S, NEW T, S \subseteq T, NEW s \in Seq(S)
  PROVE  s \in Seq(T)
<1>1. Len(s) \in Nat /\ s \in [1 .. Len(s) -> T] /\ DOMAIN s = 1 .. Len(s)
  OBVIOUS
<1> QED
  BY <1>1

LEMMA FirstWord ==
  ASSUME NEW str, IsSequence(str)
  PROVE  IsSequence(get_arg(str, 0))
<1> DEFINE r == SubSeq(str, 1, Len(str))
           spaced == r \o <<" ">>
           I == {i \in 1 .. Len(spaced) : spaced[i] = " "}
           first == IF I # {} THEN Min(I) ELSE 0
           word == SubSeq(r, 1, first - 1)
<1>1. get_arg(str, 0) = word
  <2> DEFINE rest == {SubSeq(str, k, Len(str)) : k \in {1}}
  <2>1. rest = {r} /\ (CHOOSE x \in rest : TRUE) = r
    OBVIOUS
  <2> QED
    BY <2>1, Zenon DEF get_arg, SelectInSeq
<1>2. Len(str) \in Nat /\ r = str
  BY DEF IsSequence
<1> HIDE DEF r
<1>3. Len(spaced) = Len(str) + 1 /\ spaced[Len(str) + 1] = " "
  <2> DEFINE S == {str[k] : k \in DOMAIN str}
             blank == <<" ">>
  <2>1. str \in Seq(S)
    BY DEF IsSequence
  <2>2. blank \in Seq({" "}) /\ Len(blank) = 1 /\ blank[1] = " "
    OBVIOUS
  <2> HIDE DEF S, blank
  <2>3. str \in Seq(S \cup {" "}) /\ blank \in Seq(S \cup {" "})
    BY <2>1, <2>2, Wider
  <2>4. Len(str \o blank) = Len(str) + 1 /\ (str \o blank)[Len(str) + 1] = " "
    <3>1. /\ Len(str \o blank) = Len(str) + 1
          /\ \A i \in 1 .. Len(str) + 1 :
               (str \o blank)[i] = IF i <= Len(str) THEN str[i] ELSE blank[i - Len(str)]
      <4>1. /\ Len(str \o blank) = Len(str) + Len(blank)
            /\ \A i \in 1 .. Len(str) + Len(blank) :
                 (str \o blank)[i] = IF i <= Len(str) THEN str[i] ELSE blank[i - Len(str)]
        BY <2>3, ConcatProperties, Zenon
      <4> QED
        BY <2>2, <4>1, Zenon
    <3>2. /\ Len(str) + 1 \in 1 .. Len(str) + 1 /\ ~(Len(str) + 1 <= Len(str))
          /\ (Len(str) + 1) - Len(str) = 1
      BY <1>2
    <3>3. (str \o blank)[Len(str) + 1] = blank[1]
      BY <3>1, <3>2, Zenon
    <3> QED
      BY <2>2, <3>1, <3>3
  <2>5. spaced = str \o blank
    BY <1>2, Zenon DEF blank
  <2> HIDE DEF spaced
  <2> QED
    BY <2>4, <2>5
<1> HIDE DEF spaced
<1>4. Len(str) + 1 \in I /\ I \subseteq 1 .. Len(str) + 1
  <2> DEFINE last == Len(str) + 1
  <2>1. I = {i \in 1 .. last : spaced[i] = " "}
    BY <1>3
  <2>2. last \in 1 .. last
    BY <1>2
  <2>3. spaced[last] = " "
    BY <1>3
  <2> HIDE DEF last
  <2> QED
    BY <2>1, <2>2, <2>3 DEF last
<1> HIDE DEF I
<1>5. first \in 1 .. Len(str) + 1
  <2>1. PICK x \in I : \A y \in I : x <= y
    BY <1>2, <1>4, Least
  <2>2. Min(I) \in I
    BY <2>1 DEF Min
  <2> QED
    BY <1>4, <2>2
<1> HIDE DEF first
<1>6. first - 1 \in Int /\ first - 1 <= Len(str) /\ 1 \in Nat \ {0}
  BY <1>2, <1>5
<1>7. IsSequence(SubSeq(str, 1, first - 1))
  BY <1>6, Part
<1> QED
  BY <1>1, <1>2, <1>7

LEMMA Single ==
  ASSUME NEW i, IsItem(i)
  PROVE  AreItems(<<i>>)
<1>1. IsSequence(<<i>>) /\ DOMAIN <<i>> = {1} /\ <<i>>[1] = i
  BY OneIs
<1> QED
  BY <1>1 DEF AreItems

(* Whatever the user entered, the command's output stays on the screen.    *)
LEMMA RunIs ==
  ASSUME NEW s, CursorFits(s), NEW input, NEW command, IsSequence(command)
  PROVE  CursorFits(Run(s, input, command))
<1>1. CursorFits(Cleared_screen)
  BY ConsoleAssumption DEF CursorFits, Cleared_screen, Home, Point
<1>2. \A m \in {"Missing", "Invalid", "Unknown"} : IsItem(Literal(Messages[m]))
  BY LiteralIs, ConsoleAssumption
<1>3. CursorFits(Exec(s, input))
  <2>1. AreItems(<<Literal(Messages["Missing"])>>) /\ AreItems(<<Literal(Messages["Invalid"])>>)
    BY <1>2, Single
  <2>2. /\ CursorFits(conprint(s, <<Literal(Messages["Missing"])>>))
        /\ CursorFits(conprint(s, <<Literal(Messages["Invalid"])>>))
    BY <2>1, Printing
  <2> QED
    BY <2>2, Zenon DEF Exec
<1>4. command \in DOMAIN Printed => CursorFits(conprint(s, Printed[command]))
  BY Printing, ConsoleAssumption
<1> DEFINE a == Literal(Messages["Unknown"])
           b == Plain("s", command)
           c == Literal(<<"\"", "\n">>)
<1>5. IsItem(a) /\ IsItem(b) /\ IsItem(c)
  BY <1>2, OneIs, LiteralIs, PlainIs
<1>6. CursorFits(conprint(s, <<a, b, c>>))
  <2> HIDE DEF a, b, c
  <2>1. <<a, b, c>> \in Seq({a, b, c})
    OBVIOUS
  <2>2. IsSequence(<<a, b, c>>)
    BY <2>1, IsSequenceIs
  <2>3. \A k \in DOMAIN <<a, b, c>> : <<a, b, c>>[k] \in {a, b, c}
    OBVIOUS
  <2>4. AreItems(<<a, b, c>>)
    BY <1>5, <2>2, <2>3 DEF AreItems
  <2> QED
    BY <2>4, Printing
<1> QED
  BY <1>1, <1>3, <1>4, <1>6, Zenon DEF Run

LEMMA CommandIs ==
  ASSUME NEW s, CursorFits(s), NEW input, IsSequence(input), NEW t \in command_handler(s, input)
  PROVE  CursorFits(t)
<1>1. IsSequence(get_arg(input, 0))
  BY FirstWord
<1>2. \A stale \in Stale \cup {<<>>} : IsSequence(stale)
  BY ConsoleAssumption, OneIs
<1>3. \/ t = Run(s, input, get_arg(input, 0))
      \/ \E stale \in Stale \cup {<<>>} : t = Run(s, input, stale)
  BY Zenon DEF command_handler
<1> QED
  BY <1>1, <1>2, <1>3, RunIs

-----------------------------------------------------------------------------
(* The line the user types.  On the prompt's own line every character of   *)
(* it took at least a character's width after the prompt, so that erasing  *)
(* it one by one cannot come before the prompt's end.                      *)

Room(s, n) ==
  LET p == s.prompt  c == s.cursor
  IN  c.y > p.y \/ (c.y = p.y /\ (p.x = 0 \/ c.x >= p.x + n * FONT))

ScreenInv ==
  /\ program \in {"starting", "polling", "stopped"}
  /\ IsSequence(line) /\ Len(line) <= MAX_CHARS + 1
  /\ CursorFits(screen) /\ Room(screen, Len(line))
  /\ program = "starting" => syscall = "user" /\ line = <<>>

LEMMA MoreRoom ==
  ASSUME NEW s, CursorFits(s), NEW n \in Nat, Room(s, n), NEW c, c # "bs"
  PROVE  Room(conwrite(s, c), n + 1)
<1> DEFINE q == Moved(s.cursor, c)
           p == OnLine(q)
           sx == s.cursor.x
           sy == s.cursor.y
           px == s.prompt.x
           py == s.prompt.y
           m == n * FONT
<1>1. FONT \in Nat \ {0} /\ WIDTH \in Nat /\ HEIGHT \in Nat
  BY ConsoleAssumption
<1>2. sx \in Nat /\ sy \in Nat /\ px \in Nat /\ py \in Nat
  BY DEF CursorFits, Point
<1>3. q \in Point /\ (q.y > sy \/ (q.y = sy /\ q.x >= sx + FONT))
  BY MovedIs DEF CursorFits
<1>4. sy > py \/ (sy = py /\ (px = 0 \/ sx >= px + m))
  BY DEF Room
<1>5. m \in Nat /\ (n + 1) * FONT = m + FONT
  BY <1>1
<1>6. conwrite(s, c) = IF p.y + FONT >= HEIGHT THEN Cleared_screen ELSE [s EXCEPT !.cursor = p]
  BY DEF conwrite
<1>7. /\ q.x \in Nat /\ q.y \in Nat /\ p.x \in Nat /\ p.y \in Nat
      /\ (p.x = q.x /\ p.y = q.y) \/ p.y = q.y + FONT
  <2> HIDE DEF q
  <2> QED
    BY <1>1, <1>3 DEF OnLine, Point
<1> HIDE DEF p, q, m, sx, sy, px, py
<1>8. p.y > py \/ (p.y = py /\ (px = 0 \/ p.x >= px + (m + FONT)))
  BY <1>1, <1>2, <1>3, <1>4, <1>5, <1>7
<1>9. CASE p.y + FONT >= HEIGHT
  BY <1>6, <1>9 DEF Room, Cleared_screen, Home
<1>10. CASE ~(p.y + FONT >= HEIGHT)
  <2>1. conwrite(s, c) = [cursor |-> p, prompt |-> s.prompt]
    BY <1>6, <1>10 DEF CursorFits
  <2> QED
    BY <1>5, <1>8, <2>1 DEF Room, px, py
<1> QED
  BY <1>9, <1>10

LEMMA LessRoom ==
  ASSUME NEW s, CursorFits(s), NEW n \in Nat, Room(s, n + 1)
  PROVE  Room(conwrite(s, "bs"), n)
<1> DEFINE q == Moved(s.cursor, "bs")
           p == OnLine(q)
           sx == s.cursor.x
           sy == s.cursor.y
           px == s.prompt.x
           py == s.prompt.y
           m == n * FONT
<1>1. FONT \in Nat \ {0} /\ WIDTH \in Nat /\ HEIGHT \in Nat
  BY ConsoleAssumption
<1>2. sx \in Nat /\ sy \in Nat /\ px \in Nat /\ py \in Nat
  BY DEF CursorFits, Point
<1>3. q \in Point /\ q.y = sy /\ q.x = IF sx < FONT THEN 0 ELSE sx - FONT
  BY MovedIs DEF CursorFits
<1>4. m \in Nat /\ (n + 1) * FONT = m + FONT
  BY <1>1
<1>5. sy > py \/ (sy = py /\ (px = 0 \/ sx >= px + (m + FONT)))
  BY <1>4 DEF Room
<1>6. conwrite(s, "bs") = IF p.y + FONT >= HEIGHT THEN Cleared_screen ELSE [s EXCEPT !.cursor = p]
  BY DEF conwrite
<1>7. /\ q.x \in Nat /\ q.y \in Nat /\ p.x \in Nat /\ p.y \in Nat
      /\ (p.x = q.x /\ p.y = q.y) \/ p.y = q.y + FONT
  <2> HIDE DEF q
  <2> QED
    BY <1>1, <1>3 DEF OnLine, Point
<1> HIDE DEF p, q, m, sx, sy, px, py
<1>8. p.y > py \/ (p.y = py /\ (px = 0 \/ p.x >= px + m))
  BY <1>1, <1>2, <1>3, <1>4, <1>5, <1>7
<1>9. CASE p.y + FONT >= HEIGHT
  BY <1>6, <1>9 DEF Room, Cleared_screen, Home
<1>10. CASE ~(p.y + FONT >= HEIGHT)
  <2>1. conwrite(s, "bs") = [cursor |-> p, prompt |-> s.prompt]
    BY <1>6, <1>10 DEF CursorFits
  <2> QED
    BY <1>8, <2>1 DEF Room, px, py, m
<1> QED
  BY <1>9, <1>10

LEMMA AtPrompt ==
  ASSUME NEW s, CursorFits(s), s.prompt = s.cursor
  PROVE  Room(s, 0)
<1>1. s.cursor.x \in Nat /\ s.cursor.y \in Nat /\ FONT \in Nat /\ 0 * FONT = 0
  BY ConsoleAssumption DEF CursorFits, Point
<1> QED
  BY <1>1 DEF Room

(* A character from the keyboard.                                          *)
LEMMA KeyStep ==
  ASSUME ScreenInv, program # "starting", NEW c, kcon_keyboard_handler(c)
  PROVE  ScreenInv'
<1>1. Len(line) \in Nat /\ MAX_CHARS \in Nat /\ line \in Seq({line[k] : k \in DOMAIN line})
  BY ConsoleAssumption DEF ScreenInv, IsSequence
<1>2. IsSequence(<<>>) /\ Len(<<>>) = 0
  BY OneIs
<1>3. CASE NoCharacter
  BY <1>3 DEF NoCharacter, consoleVars, ScreenInv
<1>4. CASE c = "bs" /\ Backspace /\ Erased(Len(line))
  <2>1. line # <<>> /\ program' = program /\ line' = Front(line) /\ screen' = conwrite(screen, "bs")
    BY <1>2, <1>4 DEF Backspace, Erased
  <2>2. Len(line) - 1 \in Nat /\ (Len(line) - 1) + 1 = Len(line)
    BY <1>1, <1>4 DEF Erased
  <2>3. Front(line) = SubSeq(line, 1, Len(line) - 1)
    BY DEF Front
  <2>4. IsSequence(Front(line))
    BY <1>1, <2>2, <2>3, Part DEF ScreenInv
  <2>5. Len(Front(line)) = Len(line) - 1
    BY <1>1, <2>2, <2>3
  <2>6. CursorFits(screen') /\ Room(screen', Len(line) - 1)
    BY <2>1, <2>2, Writing, LessRoom DEF ScreenInv
  <2> QED
    BY <1>1, <2>1, <2>4, <2>5, <2>6 DEF ScreenInv
<1>5. CASE EndOfLine
  <2>1. line' = <<>>
    BY <1>5 DEF EndOfLine
  <2>2. CASE program' = "stopped" /\ UNCHANGED screen
    <3>1. Room(screen, 0)
      <4>1. FONT \in Nat /\ screen.cursor \in Point /\ screen.prompt \in Point
        BY ConsoleAssumption DEF ScreenInv, CursorFits
      <4>2. Len(line) * FONT \in Nat /\ 0 * FONT = 0
        BY <1>1, <4>1
      <4> DEFINE m == Len(line) * FONT
      <4>3. \/ screen.cursor.y > screen.prompt.y
            \/ /\ screen.cursor.y = screen.prompt.y
               /\ screen.prompt.x = 0 \/ screen.cursor.x >= screen.prompt.x + m
        BY DEF ScreenInv, Room
      <4> HIDE DEF m
      <4> QED
        BY <4>1, <4>2, <4>3 DEF m, Room, Point
    <3> QED
      BY <1>1, <1>2, <2>1, <2>2, <3>1 DEF ScreenInv
  <2>3. ASSUME NEW s \in command_handler(conwrite(screen, "\n"), line),
               screen' = Prompted(s), UNCHANGED program
        PROVE  ScreenInv'
    <3>1. CursorFits(s)
      BY <2>3, Writing, CommandIs DEF ScreenInv
    <3>2. CursorFits(screen') /\ Room(screen', 0)
      BY <2>3, <3>1, PromptIs, AtPrompt
    <3> QED
      BY <1>1, <1>2, <2>1, <2>3, <3>2 DEF ScreenInv
  <2> QED
    BY <1>5, <2>2, <2>3 DEF EndOfLine
<1>6. CASE c # "bs" /\ OtherCharacter(c) /\ ~(Len(line) > MAX_CHARS)
  <2>1. /\ line' = Append(line, c) /\ screen' = conwrite(screen, c)
        /\ program' \in {program, "stopped"}
    BY <1>6 DEF OtherCharacter
  <2>2. <<c>> \in Seq({c}) /\ IsSequence(<<c>>)
    BY OneIs
  <2>3. Append(line, c) = line \o <<c>> /\ Len(Append(line, c)) = Len(line) + 1
    BY <1>1
  <2>4. IsSequence(line')
    BY <2>1, <2>2, <2>3, Joined DEF ScreenInv
  <2>5. CursorFits(screen') /\ Room(screen', Len(line) + 1)
    BY <1>1, <1>6, <2>1, Writing, MoreRoom DEF ScreenInv
  <2> QED
    BY <1>1, <1>6, <2>1, <2>3, <2>4, <2>5 DEF ScreenInv
<1> QED
  BY <1>3, <1>4, <1>5, <1>6 DEF kcon_keyboard_handler, Backspace, OtherCharacter

(* The greeting and its prompt.                                            *)
LEMMA GreetStep ==
  ASSUME ScreenInv, Greet
  PROVE  ScreenInv'
<1>1. CASE program' = "stopped" /\ UNCHANGED screen
  BY <1>1 DEF ScreenInv, Greet
<1>2. CASE program' = "polling" /\ screen' = Prompted(conprint(Cleared_screen, Greeting))
  <2>1. CursorFits(Cleared_screen) /\ AreItems(Greeting)
    BY ConsoleAssumption DEF CursorFits, Cleared_screen, Home, Point
  <2>2. CursorFits(screen') /\ Room(screen', 0)
    BY <1>2, <2>1, Printing, PromptIs, AtPrompt
  <2>3. line' = <<>> /\ Len(<<>>) = 0 /\ IsSequence(<<>>) /\ MAX_CHARS \in Nat
    BY OneIs, ConsoleAssumption DEF Greet, ScreenInv
  <2> QED
    BY <1>2, <2>2, <2>3 DEF ScreenInv
<1> QED
  BY <1>1, <1>2 DEF Greet

(* Every step keeps the screen and the line sound.                         *)
LEMMA ScreenStep ==
  ASSUME ScreenInv, [Next]_vars
  PROVE  ScreenInv'
<1>1. CASE FindKeyboards \/ Logging \/ elib_acquire_framebuffer \/ Hardware \/ UNCHANGED vars
  <2>1. UNCHANGED consoleVars
    BY <1>1 DEF FindKeyboards, Logging, elib_acquire_framebuffer, Hardware, vars
  <2>2. UNCHANGED syscall
    BY <1>1 DEF FindKeyboards, Logging, elib_acquire_framebuffer, Hardware, vars, keyboardVars,
                Press, Release, kb_interrupt_handler, ElibStore, ElibDone, Migrate
  <2> QED
    BY <2>1, <2>2 DEF ScreenInv, consoleVars
<1>2. CASE Greet
  BY <1>2, GreetStep
<1>3. CASE elib_input
  BY <1>3 DEF elib_input, consoleVars, ScreenInv
<1>4. CASE PollReturn
  <2>1. program # "starting"
    BY <1>4 DEF PollReturn, InputReturn, ScreenInv
  <2>2. \/ kcon_keyboard_handler(received.ch)
        \/ NoCharacter
    BY <1>4 DEF PollReturn
  <2>3. CASE NoCharacter
    BY <2>1, <2>3 DEF NoCharacter, consoleVars, ScreenInv
  <2> QED
    BY <2>1, <2>2, <2>3, KeyStep
<1> QED
  BY <1>1, <1>2, <1>3, <1>4 DEF Next

LEMMA ScreenInitInv ==
  ASSUME Init
  PROVE  ScreenInv
<1>1. CursorFits(Cleared_screen) /\ Room(Cleared_screen, 0)
  BY ConsoleAssumption, AtPrompt DEF CursorFits, Cleared_screen, Home, Point
<1>2. /\ screen = Cleared_screen /\ line = <<>> /\ program = "starting" /\ syscall = "user"
      /\ Len(<<>>) = 0 /\ IsSequence(<<>>) /\ MAX_CHARS \in Nat
  BY OneIs, ConsoleAssumption DEF Init, KeyboardInit
<1> QED
  BY <1>1, <1>2 DEF ScreenInv

(* The cursor behind the prompt, and room for a character.                 *)
LEMMA SoundInv ==
  ASSUME ScreenInv
  PROVE  ScreenSound
<1>1. /\ FONT \in Nat /\ WIDTH \in Nat /\ HEIGHT \in Nat
      /\ screen.cursor \in Point /\ screen.prompt \in Point
      /\ Len(line) \in Nat
  BY ConsoleAssumption DEF ScreenInv, CursorFits, IsSequence
<1>2. DrawnOnScreen
  BY <1>1 DEF DrawnOnScreen, ScreenInv, CursorFits, Point
<1>3. PromptStays
  <2> DEFINE m == Len(line) * FONT
  <2>1. m \in Nat
    BY <1>1
  <2>2. \/ screen.cursor.y > screen.prompt.y
        \/ /\ screen.cursor.y = screen.prompt.y
           /\ screen.prompt.x = 0 \/ screen.cursor.x >= screen.prompt.x + m
    BY DEF ScreenInv, Room
  <2> HIDE DEF m
  <2> QED
    BY <1>1, <2>1, <2>2 DEF PromptStays, Point
<1> QED
  BY <1>2, <1>3 DEF ScreenInv, ScreenSound

-----------------------------------------------------------------------------
IInv == BufferInv /\ TermInv /\ Ps2Inv /\ ScreenInv

-----------------------------------------------------------------------------
(* The initial states satisfy all four.                                    *)
LEMMA InitIInv == Init => IInv
<1> SUFFICES ASSUME Init PROVE IInv
  OBVIOUS
<1>1. BufferInv
  BY DEF Init, KeyboardInit, BufferInv
<1>2. TermInv
  BY TermAssumption DEF Init, TermInit, Origin, TermInv
<1>3. Ps2Inv
  BY Ps2InitInv DEF Init
<1>4. ScreenInv
  BY ScreenInitInv
<1> QED
  BY <1>1, <1>2, <1>3, <1>4 DEF IInv

(* The next character goes inside the screen as well.                      *)
LEMMA OnScreen ==
  ASSUME NEW p \in [x : 0 .. ch_width - 1, y : 0 .. ch_height - 1], NEW c
  PROVE  log_raw_term(p, c) \in [x : 0 .. ch_width - 1, y : 0 .. ch_height - 1]
<1> DEFINE next == IF c = "\n" THEN Newline(p) ELSE [p EXCEPT !.x = @ + 1]
<1>1. /\ ch_width \in Nat \ {0} /\ ch_height \in Nat \ {0}
      /\ p.x \in 0 .. ch_width - 1 /\ p.y \in 0 .. ch_height - 1
  BY TermAssumption
<1>2. next \in [x : 0 .. ch_width, y : 0 .. ch_height]
  BY <1>1 DEF Newline
<1>3. Wrapped(next) \in [x : 0 .. ch_width - 1, y : 0 .. ch_height + 1]
  <2> HIDE DEF next
  <2> QED
    BY <1>1, <1>2 DEF Wrapped, Newline
<1>4. Scrolled(Wrapped(next)) \in [x : 0 .. ch_width - 1, y : 0 .. ch_height - 1]
  <2> HIDE DEF next
  <2> QED
    BY <1>1, <1>3 DEF Scrolled, Origin
<1> QED
  BY <1>4 DEF log_raw_term

(* Every step of the log and of term_close keeps the terminal's half.      *)
LEMMA TermStep ==
  ASSUME TermInv, TermNext \/ UNCHANGED termVars
  PROVE  TermInv'
<1>1. ASSUME NEW c \in Loggers, LogAcquire(c) \/ LogCharacter(c) \/ LogEnd(c)
      PROVE  TermInv'
  <2>1. at' \in [x : 0 .. ch_width - 1, y : 0 .. ch_height - 1]
    BY <1>1, OnScreen DEF TermInv, LogAcquire, LogCharacter, LogEnd
  <2> QED
    BY <1>1, <2>1 DEF TermInv, LogAcquire, LogCharacter, LogEnd
<1>2. CASE TermClose \/ log_sink_remove \/ clear_term
  BY <1>2 DEF TermInv, TermClose, log_sink_remove, Unlocked, clear_term
<1>3. CASE UNCHANGED termVars
  BY <1>3 DEF TermInv, termVars
<1> QED
  BY <1>1, <1>2, <1>3 DEF TermNext

(* Storing a character and taking it exclude each other.                   *)
LEMMA StoreStep ==
  ASSUME BufferInv, ElibStore
  PROVE  BufferInv' /\ UNCHANGED Box!boxVars
  BY DEF BufferInv, ElibStore, CanTake, handlerVars, Box!boxVars

(* The character is in the box once its flag is up.                        *)
LEMMA DoneStep ==
  ASSUME BufferInv, ElibDone
  PROVE  BufferInv' /\ Box!Store
<1>1. BufferInv'
  BY DEF BufferInv, ElibDone
<1>2. g_lock = "handler" /\ syscall # "take" /\ syscall' = syscall
  BY DEF BufferInv, ElibDone
<1>3. Box!Store
  BY <1>2 DEF BufferInv, ElibDone, Box!Store
<1> QED
  BY <1>1, <1>3

(* The program takes what was stored last, or finds nothing.               *)
LEMMA TakeStep ==
  ASSUME BufferInv, InputTake
  PROVE  BufferInv' /\ (Box!Take \/ UNCHANGED Box!boxVars)
  BY DEF BufferInv, InputTake, CanTake, handlerVars, Box!Take, Box!boxVars

(* The flag goes down in the critical section that took the character.     *)
LEMMA ReturnStep ==
  ASSUME BufferInv, InputReturn
  PROVE  BufferInv' /\ UNCHANGED Box!boxVars
  BY DEF BufferInv, InputReturn, Cleared, handlerVars, Box!boxVars

(* Keys, the handler before it stores, and the program's way in do not     *)
(* touch the buffer.                                                       *)
LEMMA OtherStep ==
  ASSUME BufferInv,
         \/ UNCHANGED keyboardVars
         \/ kb_interrupt_handler \/ Migrate \/ InputEnter
         \/ \E k \in Keys : Press(k) \/ Release(k)
  PROVE  BufferInv' /\ UNCHANGED Box!boxVars
<1>1. /\ UNCHANGED <<g_lock, typed, got_input, input_buffer, received>>
      /\ syscall' = syscall \/ (syscall = "user" /\ syscall' = "input")
  BY DEF keyboardVars, handlerVars, kb_interrupt_handler, Migrate, InputEnter, Press, Release
<1> QED
  BY <1>1 DEF BufferInv, Box!boxVars

(* A step of the system, seen by either.                                   *)
LEMMA NextStep ==
  ASSUME IInv, [Next]_vars
  PROVE  IInv' /\ [Box!Store \/ Box!Take]_(Box!boxVars)
<1>0. ScreenInv'
  BY ScreenStep DEF IInv
<1> USE DEF IInv
<1>1. CASE FindKeyboards \/ Logging \/ elib_acquire_framebuffer \/ UNCHANGED vars
  <2>1. UNCHANGED keyboardVars
    BY <1>1 DEF FindKeyboards, Logging, elib_acquire_framebuffer, vars
  <2>2. TermNext \/ UNCHANGED termVars
    BY <1>1 DEF FindKeyboards, Logging, elib_acquire_framebuffer, vars, TermNext
  <2>3. Ps2Next \/ UNCHANGED ps2Vars
    BY <1>1 DEF FindKeyboards, Logging, elib_acquire_framebuffer, vars
  <2> QED
    BY <1>0, <2>1, <2>2, <2>3, OtherStep, TermStep, Ps2Step
<1>2. CASE Greet
  BY <1>2, <1>0, OtherStep, TermStep, Ps2Step DEF Greet
<1>3. CASE elib_input
  BY <1>3, <1>0, OtherStep, TakeStep, TermStep, Ps2Step DEF elib_input
<1>4. CASE PollReturn
  BY <1>4, <1>0, ReturnStep, TermStep, Ps2Step DEF PollReturn
<1>5. CASE Hardware
  BY <1>5, <1>0, OtherStep, StoreStep, DoneStep, TermStep, Ps2Step DEF Hardware
<1> QED
  BY <1>1, <1>2, <1>3, <1>4, <1>5 DEF Next

(* The invariant holds of every behaviour: one side of the buffer's lock   *)
(* at a time, and no drawing without a sink.                               *)
THEOREM Invariance == Spec => []IInv
  BY InitIInv, NextStep, PTL DEF Spec

-----------------------------------------------------------------------------
(* The key interrupt, on one processor, and the system call, on another,   *)
(* implement a box of one item: no key is delivered twice or after a later *)
(* one, and the last is not lost (syscall_elib.c:14-36).                   *)
THEOREM BufferIsMailbox == Spec => ImplementsMailbox
<1>1. Init => Box!Init
  BY DEF Init, KeyboardInit, Nothing, Box!Init
<1> QED
  BY <1>1, NextStep, Invariance, PTL DEF Spec, ImplementsMailbox, Box!Spec

(* Messages are drawn inside the screen, and not at all once the program   *)
(* has the framebuffer (term.c:52-60, 130-134).                            *)
THEOREM ScreenHandedOver == Spec => []KernelDrawsOnItsScreen
<1>1. IInv => KernelDrawsOnItsScreen
  BY DEF IInv, TermInv, KernelDrawsOnItsScreen
<1> QED
  BY <1>1, Invariance, PTL

(* A port that passed has the identity of what is plugged in, however late *)
(* a byte came (ps2.c:88-117).                                             *)
THEOREM IdentitiesAlwaysTrue == Spec => []IdentitiesTrue
<1>1. IInv => IdentitiesTrue
  BY DEF IInv, Ps2Inv, Tried, IdentitiesTrue, Ports, PortOne, PortTwo
<1> QED
  BY <1>1, Invariance, PTL

(* A keyboard that answers in time gets its driver and its interrupt,      *)
(* whatever else is plugged in or was in the buffer (ps2.c:119-182).       *)
THEOREM KeyboardsAlwaysFound == Spec => []KeyboardsFound
<1>1. IInv => KeyboardsFound
  BY DEF IInv, Ps2Inv, Driven, KeyboardsFound, Ports, PortOne, PortTwo
<1> QED
  BY <1>1, Invariance, PTL

(* Whatever is typed, erased, wrapped or printed, the cursor stays on the  *)
(* screen and never comes before the prompt's end, and the line no more    *)
(* than one character behind its array (console.c:362-418).                *)
THEOREM ScreenAlwaysSound == Spec => []ScreenSound
<1>1. IInv => ScreenSound
  BY SoundInv DEF IInv
<1> QED
  BY <1>1, Invariance, PTL
=============================================================================
