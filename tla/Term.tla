--------------------------------- MODULE Term ---------------------------------
(***************************************************************************)
(* The kernel's log and its terminal (common/log.c, term.c): a sink that   *)
(* draws messages of any processor on the screen, under the lock of the    *)
(* log, until a program asks for the framebuffer.                          *)
(***************************************************************************)
EXTENDS Integers, Sequences

CONSTANTS
  Loggers,        \* processors that log
  ch_width, ch_height,   \* the screen in characters
  None

ASSUME TermAssumption == ch_width \in Nat \ {0} /\ ch_height \in Nat \ {0}

VARIABLES
  g_active,       \* the terminal is in use
  sinks,          \* the sinks of the log
  log_lock,       \* who holds the lock of the log
  at,             \* g_term.state.x and y
  closer          \* how far the program's call of term_close is

termVars == <<g_active, sinks, log_lock, at, closer>>

Origin == [x |-> 0, y |-> 0]

TermInit ==
  /\ g_active = TRUE /\ sinks = {"TERM"}
  /\ log_lock = None /\ at = Origin /\ closer = "open"

Newline(p) == [x |-> 0, y |-> p.y + 1]
Wrapped(p) == IF p.x >= ch_width THEN Newline(p) ELSE p
Scrolled_Bug(p) == IF p.y > ch_height THEN Origin ELSE p
Scrolled(p) == IF p.y >= ch_height THEN Origin ELSE p

(* Where the next character goes after c.                                  *)
log_raw_term(p, c) ==
  Scrolled(Wrapped(IF c = "\n" THEN Newline(p) ELSE [p EXCEPT !.x = @ + 1]))

-----------------------------------------------------------------------------
(* log_list: every character of a message is drawn, lock held.             *)

LogAcquire(c) ==
  /\ log_lock = None /\ "TERM" \in sinks
  /\ log_lock' = c
  /\ UNCHANGED <<g_active, sinks, at, closer>>

LogCharacter(c) ==
  /\ log_lock = c
  /\ at' = log_raw_term(at, "a")
  /\ UNCHANGED <<g_active, sinks, log_lock, closer>>

LogEnd(c) ==
  /\ log_lock = c
  /\ at' = log_raw_term(at, "\n")
  /\ log_lock' = None
  /\ UNCHANGED <<g_active, sinks, closer>>

-----------------------------------------------------------------------------
(* term_close, called by syscall_elib_framebuffer.                         *)

Unlocked(l) == l = None

TermClose ==
  /\ closer = "open"
  /\ closer' = IF g_active THEN "remove" ELSE "closed"
  /\ g_active' = FALSE
  /\ UNCHANGED <<sinks, log_lock, at>>

log_sink_remove ==
  /\ closer = "remove" /\ closer' = "clear"
  /\ Unlocked(log_lock)
  /\ sinks' = sinks \ {"TERM"}
  /\ UNCHANGED <<g_active, log_lock, at>>

clear_term ==
  /\ closer = "clear" /\ closer' = "closed"
  /\ UNCHANGED <<g_active, sinks, log_lock, at>>

TermNext ==
  \/ \E c \in Loggers : LogAcquire(c) \/ LogCharacter(c) \/ LogEnd(c)
  \/ TermClose \/ log_sink_remove \/ clear_term

-----------------------------------------------------------------------------
(* Every character is drawn on the screen (term.c:52-60), and once the     *)
(* program has the framebuffer no message is drawn any more, not even the  *)
(* rest of one that another processor had begun (term.c:130-134).          *)
KernelDrawsOnItsScreen ==
  /\ at.x \in 0 .. ch_width - 1 /\ at.y \in 0 .. ch_height - 1
  /\ closer \in {"clear", "closed"} => log_lock = None
=============================================================================
