------------------------------- MODULE Keyboard -------------------------------
(***************************************************************************)
(* Keys on their way to the program: the PS/2 interrupt handler on the BSP *)
(* (dev/ps2kb.c), and the buffer of one character that the program polls   *)
(* from whatever processor it runs on (arch/x86_64/syscall_elib.c).  A     *)
(* character carries the number under which elib_input stored it.          *)
(***************************************************************************)
EXTENDS Ps2

CONSTANTS
  ShiftKeys,      \* 0x2a and 0x36
  g_layout_us,    \* what each key types: a character, or NUL
  Shifted,        \* what the letters and the quote type with shift
  NUL,
  PRESSES, CODES  \* bounds: keys pressed, and codes not handled yet

Keys == DOMAIN g_layout_us

ASSUME KeyboardAssumption ==
  /\ ShiftKeys \subseteq Keys /\ PRESSES \in Nat /\ CODES \in Nat \ {0}

VARIABLES
  presses,        \* keys pressed so far
  codes,          \* scancodes the keyboard has sent
  g_scancodes,    \* keys that are down
  g_keyboard_handler,  \* elib_input is installed
  kb,             \* the character the handler delivers, or "idle"
  got_input, input_buffer,
  g_lock,         \* who holds the lock of the buffer
  syscall,        \* how far the program's system call is
  on_bsp,         \* the program runs on the BSP
  typed, received \* history: characters stored, and the last one returned

handlerVars == <<presses, codes, g_scancodes, kb>>
keyboardVars == <<handlerVars, g_keyboard_handler, got_input, input_buffer, g_lock,
                  syscall, on_bsp, typed, received>>

Nothing == [ch |-> NUL, number |-> 0]

KeyboardInit ==
  /\ presses = 0 /\ codes = <<>> /\ g_scancodes = {} /\ kb = "idle"
  /\ g_keyboard_handler = FALSE
  /\ got_input = FALSE /\ input_buffer = Nothing /\ g_lock = "free"
  /\ syscall = "user" /\ on_bsp \in BOOLEAN
  /\ typed = 0 /\ received = Nothing

-----------------------------------------------------------------------------
(* The keyboard sends a code when a key goes down; that a key went up      *)
(* matters for the shift keys only.  Only the keys of port one are         *)
(* modelled: the codes of a keyboard on port two come to the same handler, *)
(* but untranslated, and it would take them for other keys.                *)

KeyboardWorks ==
  /\ phase = "done" /\ device[PortOne] = "keyboard"
  /\ PortOne \in drivers /\ PortOne \in enabled /\ "irq1" \in config

Held(k) == \E j \in 1 .. Len(codes) : codes[j] = [key |-> k, down |-> TRUE]
             /\ \A l \in j + 1 .. Len(codes) : codes[l].key # k

Press(k) ==
  /\ KeyboardWorks /\ presses < PRESSES /\ Len(codes) < CODES
  /\ presses' = presses + 1
  /\ codes' = Append(codes, [key |-> k, down |-> TRUE])
  /\ UNCHANGED <<g_scancodes, kb, g_keyboard_handler, got_input, input_buffer, g_lock,
                 syscall, on_bsp, typed, received>>

Release(k) ==
  /\ k \in ShiftKeys /\ Len(codes) < CODES
  /\ Held(k) \/ (k \in g_scancodes /\ \A j \in 1 .. Len(codes) : codes[j].key # k)
  /\ codes' = Append(codes, [key |-> k, down |-> FALSE])
  /\ UNCHANGED <<presses, g_scancodes, kb, g_keyboard_handler, got_input, input_buffer,
                 g_lock, syscall, on_bsp, typed, received>>

Character(k, down) ==
  IF down \cap ShiftKeys # {} /\ g_layout_us[k] \in DOMAIN Shifted
  THEN Shifted[g_layout_us[k]] ELSE g_layout_us[k]

(* The BSP takes the interrupt in user mode only.                          *)
kb_interrupt_handler ==
  /\ codes # <<>> /\ kb = "idle"
  /\ on_bsp => syscall = "user"
  /\ LET s == Head(codes)
         down == IF s.down THEN g_scancodes \cup {s.key} ELSE g_scancodes \ {s.key}
     IN  /\ g_scancodes' = down \cap ShiftKeys
         /\ kb' = IF s.down /\ g_keyboard_handler THEN Character(s.key, down) ELSE "idle"
  /\ codes' = Tail(codes)
  /\ UNCHANGED <<presses, g_keyboard_handler, got_input, input_buffer, g_lock, syscall,
                 on_bsp, typed, received>>

(* elib_input: the character, then the flag, under the lock.               *)
CanTake_Bug(who) == g_lock # who
CanTake(who) == g_lock = "free"

ElibStore ==
  /\ kb # "idle" /\ CanTake("handler")
  /\ g_lock' = "handler"
  /\ typed' = typed + 1
  /\ input_buffer' = [ch |-> kb, number |-> typed + 1]
  /\ UNCHANGED <<handlerVars, g_keyboard_handler, got_input, syscall, on_bsp, received>>

ElibDone ==
  /\ g_lock = "handler"
  /\ got_input' = TRUE
  /\ g_lock' = "free"
  /\ kb' = "idle"
  /\ UNCHANGED <<presses, codes, g_scancodes, g_keyboard_handler, input_buffer, syscall,
                 on_bsp, typed, received>>

-----------------------------------------------------------------------------
(* syscall_elib_input, entered while no interrupt is handled on its        *)
(* processor.  The first call installs elib_input.                         *)

InputEnter ==
  /\ syscall = "user" /\ syscall' = "input"
  /\ on_bsp => kb = "idle"
  /\ g_keyboard_handler' = TRUE
  /\ UNCHANGED <<handlerVars, got_input, input_buffer, g_lock, on_bsp, typed, received>>

InputTake ==
  /\ syscall = "input" /\ CanTake("program")
  /\ g_lock' = "program"
  /\ syscall' = IF got_input THEN "take" ELSE "none"
  /\ received' = IF got_input THEN input_buffer ELSE received
  /\ UNCHANGED <<handlerVars, g_keyboard_handler, got_input, input_buffer, on_bsp, typed>>

(* It returns the character it took, or -1: see Console.                   *)
Cleared(got) == FALSE

InputReturn ==
  /\ syscall \in {"take", "none"} /\ syscall' = "user"
  /\ got_input' = Cleared(got_input)
  /\ g_lock' = "free"
  /\ UNCHANGED <<handlerVars, g_keyboard_handler, input_buffer, on_bsp, typed, received>>

(* The scheduler moves the program.                                        *)
Migrate ==
  /\ syscall = "user"
  /\ on_bsp => kb = "idle"
  /\ on_bsp' = ~on_bsp
  /\ UNCHANGED <<handlerVars, g_keyboard_handler, got_input, input_buffer, g_lock, syscall,
                 typed, received>>

-----------------------------------------------------------------------------
(* The program gets characters in the order of the keys, none of them      *)
(* twice, and the last one is never among those the buffer loses           *)
(* (syscall_elib.c:14-36): the two sides of the lock are atomic.           *)
Box == INSTANCE Mailbox WITH
  stored <- IF g_lock = "handler" THEN typed - 1 ELSE typed,
  full <- got_input /\ syscall # "take",
  returned <- received.number
ImplementsMailbox == Box!Spec
=============================================================================
