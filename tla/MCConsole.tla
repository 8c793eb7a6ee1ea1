------------------------------- MODULE MCConsole -------------------------------
(* A keyboard on one port and a mouse on the other; commands of one        *)
(* letter; a screen of five columns and three lines.                       *)
EXTENDS Console, TLC

MCWirings == {<<"keyboard", "mouse">>, <<"mouse", "keyboard">>}
MCg_layout_us == "kc" :> "c" @@ "ke" :> "e" @@ "ktab" :> "\t" @@ "kspace" :> " " @@ "kbs" :> "bs" @@ "kenter" :> "\n"
                 @@ "kshift" :> "NUL"
MCShifted == "c" :> "C" @@ "e" :> "E"
MCBits == "none" :> 5 @@ "hh" :> 2 @@ "h" :> 3 @@ "l" :> 6
MCg_path == <<"/">>
MCGreeting == <<[text |-> <<"W", "\n">>]>>
MCClear == <<"c">>
MCExec == <<"e">>
MCPrinted == <<"C">> :> 
  <<[flags |-> {}, width |-> 0, precision |-> NotGiven, length |-> "l", conversion |-> "u",
    value |-> 10],
    [text |-> <<"\n">>]>>
MCMessages == [Missing |-> <<"M", "\n">>, Invalid |-> <<"I", "\n">>, Unknown |-> <<"U">>]
MCStale == {<<"x">>, <<"c">>}

(* Directives with every combination of flags, and every length prefix.    *)
Numbers ==
  {[flags |-> f, width |-> w, precision |-> p, length |-> "none", conversion |-> c, value |-> v] :
     f \in SUBSET {"-", "+", " ", "#", "0"}, w \in {-6, 0, 3, 6}, p \in {NotGiven, 1, 3},
     c \in {"d", "u", "o", "x", "X"}, v \in {-16, -9, 0, 7, 8, 10}}
Sized ==
  {[flags |-> {}, width |-> 0, precision |-> NotGiven, length |-> l, conversion |-> c, value |-> v] :
     l \in DOMAIN Bits, c \in {"d", "u", "o", "x"}, v \in -20 .. 20}

(* Without a precision or with a positive one a number is printed as the   *)
(* C standard says (lib/format.h:8); with precision 0 it is not: digits    *)
(* are lost once the rest of the number is zero (format.c:317).  It says   *)
(* nothing of the state and is asked before the boot goes on.              *)
FormatAdheresToC ==
  phase = "controller" => \A d \in Numbers \cup Sized : AdheresToC(d)
=============================================================================
