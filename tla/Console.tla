-------------------------------- MODULE Console --------------------------------
(***************************************************************************)
(* The init program's shell (init/src/console.c) from its call for the     *)
(* framebuffer on, with the kernel's side of it: the terminal that hands   *)
(* the screen over and the keyboard it polls.  The program touches nothing *)
(* the kernel does between two system calls, so what it does with a        *)
(* character is one step with the system call's return.                    *)
(***************************************************************************)
EXTENDS Term, Keyboard, Format, SequencesExt

CONSTANTS
  WIDTH, HEIGHT,  \* the framebuffer in pixels
  FONT,           \* height and width of a character: they are the same here
  MAX_CHARS,
  g_path,         \* the working directory
  Greeting,       \* what kcon_initialize prints
  ClearCommand, ExecCommand,
  Printed,        \* what time, uname and help print
  Messages,       \* "Missing", "Invalid" and "Unknown"
  Stale           \* words the command pointer may be left with

TAB_WIDTH == 4

ASSUME ConsoleAssumption ==
  /\ FONT \in Nat \ {0} /\ WIDTH \in Nat /\ HEIGHT \in Nat /\ WIDTH > FONT /\ HEIGHT > FONT
  /\ MAX_CHARS \in Nat
  /\ AreItems(Greeting) /\ \A c \in DOMAIN Printed : AreItems(Printed[c])
  /\ \A m \in {"Missing", "Invalid", "Unknown"} : IsSequence(Messages[m])
  /\ IsSequence(g_path) /\ \A word \in Stale : IsSequence(word)

VARIABLES
  program,        \* "starting", "polling" or "stopped"
  screen,         \* g_cursor_x, g_cursor_y, and where the prompt ended
  line            \* g_chars up to g_chars_written

consoleVars == <<program, screen, line>>
vars == <<termVars, ps2Vars, keyboardVars, consoleVars>>

Home == [x |-> 0, y |-> 0]
Cleared_screen == [cursor |-> Home, prompt |-> Home]

Init ==
  /\ TermInit /\ Ps2Init /\ KeyboardInit
  /\ program = "starting" /\ screen = Cleared_screen /\ line = <<>>

-----------------------------------------------------------------------------
(* conwrite: each character moves the cursor, ...                          *)

Moved(p, c) ==
  CASE c = "\n" -> [x |-> 0, y |-> p.y + FONT]
    [] c = "\t" -> [p EXCEPT !.x = @ + (TAB_WIDTH - ((@ \div FONT) % TAB_WIDTH)) * FONT]
    [] c = "bs" -> [p EXCEPT !.x = IF @ < FONT THEN 0 ELSE @ - FONT]
    [] OTHER -> [p EXCEPT !.x = @ + FONT]

(* ... to the next line at the end of one, and home at the end of all.     *)
OnLine(p) == IF p.x + FONT >= WIDTH THEN [x |-> 0, y |-> p.y + FONT] ELSE p

conwrite(s, c) ==
  LET p == OnLine(Moved(s.cursor, c))
  IN  IF p.y + FONT >= HEIGHT THEN Cleared_screen ELSE [s EXCEPT !.cursor = p]

(* conprint writes what format puts out, character by character.           *)
Written(s, text) ==
  LET after[k \in 0 .. Len(text)] == IF k = 0 THEN s ELSE conwrite(after[k - 1], text[k])
  IN  after[Len(text)]

conprint(s, items) == Written(s, format(items))

Plain(c, v) ==
  [flags |-> {}, width |-> 0, precision |-> NotGiven, length |-> "none",
   conversion |-> c, value |-> v]

Prompted(s) ==
  LET path == [Plain("s", g_path) EXCEPT !.precision = Len(g_path)]
      t == conprint(s, <<path, Literal(<<" ">>), Plain("c", <<">">>), Literal(<<" ">>)>>)
  IN  [t EXCEPT !.prompt = t.cursor]

-----------------------------------------------------------------------------
(* get_arg: words end at spaces, but a tab separates arguments as well.    *)

is_whitespace(c) == c \in {" ", "\t"}

(* Where a run of whitespace ends.                                         *)
Ends(str) ==
  {k \in 2 .. Len(str) + 1 :
     is_whitespace(str[k - 1]) /\ (k <= Len(str) => ~is_whitespace(str[k]))}

(* The word behind so many runs, or the empty word when there is none.     *)
get_arg(str, argc) ==
  LET starts == IF argc = 0 THEN {1}
                ELSE {k \in Ends(str) : Cardinality({l \in Ends(str) : l <= k}) = argc}
      rest == {SubSeq(str, k, Len(str)) : k \in starts}
      word(r) == SubSeq(r, 1, SelectInSeq(r \o <<" ">>, LAMBDA c : c = " ") - 1)
  IN  IF rest = {} THEN <<>> ELSE word(CHOOSE r \in rest : TRUE)

(* Runs of whitespace after the first character, and one.                  *)
arg_count(str) ==
  1 + Cardinality({k \in 2 .. Len(str) :
                     is_whitespace(str[k]) /\ (k = 2 \/ ~is_whitespace(str[k - 1]))})

Exec(s, input) ==
  IF arg_count(input) < 2 THEN conprint(s, <<Literal(Messages["Missing"])>>)
  ELSE IF get_arg(input, 1) = <<>> THEN conprint(s, <<Literal(Messages["Invalid"])>>)
  ELSE s

Run(s, input, command) ==
  CASE command = <<>> -> s
    [] command = ClearCommand -> Cleared_screen
    [] command = ExecCommand -> Exec(s, input)
    [] command \in DOMAIN Printed -> conprint(s, Printed[command])
    [] OTHER -> conprint(s, <<Literal(Messages["Unknown"]), Plain("s", command), Literal(<<"\"", "\n">>)>>)

(* Without a first word, on an empty line or after a space, the pointer to *)
(* the command is whatever was on the stack.                               *)
command_handler(s, input) ==
  LET command == get_arg(input, 0)
  IN  IF command # <<>> THEN {Run(s, input, command)}
      ELSE {Run(s, input, stale) : stale \in Stale \cup {<<>>}}

-----------------------------------------------------------------------------
(* kcon_keyboard_handler, with the screen and the line before it.          *)

NoCharacter == UNCHANGED consoleVars

Erased_Bug(n) == n > -1
Erased(n) == n > 0

Backspace ==
  IF Erased(Len(line))
  THEN /\ line' = IF line = <<>> THEN line ELSE Front(line)
       /\ screen' = conwrite(screen, "bs")
       /\ UNCHANGED program
  ELSE NoCharacter

(* A command without its word may also end the program.                    *)
EndOfLine ==
  /\ \/ \E s \in command_handler(conwrite(screen, "\n"), line) :
          screen' = Prompted(s) /\ UNCHANGED program
     \/ /\ get_arg(line, 0) = <<>>
        /\ program' = "stopped" /\ UNCHANGED screen
  /\ line' = <<>>

(* A character at MAX_CHARS is behind the array: the program goes on with  *)
(* it or ends.                                                             *)
OtherCharacter(c) ==
  IF Len(line) > MAX_CHARS THEN NoCharacter
  ELSE /\ line' = Append(line, c)
       /\ screen' = conwrite(screen, c)
       /\ program' \in {program} \cup (IF Len(line) = MAX_CHARS THEN {"stopped"} ELSE {})

kcon_keyboard_handler(c) ==
  CASE c = NUL -> NoCharacter
    [] c = "bs" -> Backspace
    [] c = "\n" -> EndOfLine
    [] OTHER -> OtherCharacter(c)

-----------------------------------------------------------------------------
(* kcon_initialize: the framebuffer, the greeting, and the loop.           *)

Booted == phase = "done"

elib_acquire_framebuffer ==
  /\ Booted
  /\ TermClose \/ log_sink_remove \/ clear_term
  /\ UNCHANGED <<ps2Vars, keyboardVars, consoleVars>>

(* Without a framebuffer the program writes to address 0.                  *)
Greet ==
  /\ program = "starting" /\ closer = "closed"
  /\ \/ program' = "polling" /\ screen' = Prompted(conprint(Cleared_screen, Greeting))
     \/ program' = "stopped" /\ UNCHANGED screen
  /\ UNCHANGED <<termVars, ps2Vars, keyboardVars, line>>

elib_input ==
  /\ program = "polling"
  /\ InputEnter \/ InputTake
  /\ UNCHANGED <<termVars, ps2Vars, consoleVars>>

PollReturn ==
  /\ InputReturn
  /\ IF syscall = "take" THEN kcon_keyboard_handler(received.ch) ELSE NoCharacter
  /\ UNCHANGED <<termVars, ps2Vars>>

Hardware ==
  /\ \/ \E k \in Keys : Press(k) \/ Release(k)
     \/ kb_interrupt_handler \/ ElibStore \/ ElibDone \/ Migrate
  /\ UNCHANGED <<termVars, ps2Vars, consoleVars>>

FindKeyboards == Ps2Next /\ UNCHANGED <<termVars, keyboardVars, consoleVars>>

Logging ==
  /\ \E c \in Loggers : LogAcquire(c) \/ LogCharacter(c) \/ LogEnd(c)
  /\ UNCHANGED <<ps2Vars, keyboardVars, consoleVars>>

Next ==
  \/ FindKeyboards \/ Logging \/ elib_acquire_framebuffer \/ Greet
  \/ elib_input \/ PollReturn \/ Hardware

Spec == Init /\ [][Next]_vars

-----------------------------------------------------------------------------
(* The user can erase what was typed and nothing before it: the cursor     *)
(* never stands before the end of the prompt, whatever was typed, wrapped, *)
(* tabbed or erased, unless the screen was cleared (console.c:362-409).    *)
PromptStays ==
  LET p == screen.prompt  c == screen.cursor
  IN  c.y > p.y \/ (c.y = p.y /\ c.x >= p.x)

(* Nothing is drawn outside the framebuffer: there is room for a character *)
(* at the cursor, whatever moved it there (console.c:362-386).             *)
DrawnOnScreen == screen.cursor.x + FONT <= WIDTH /\ screen.cursor.y + FONT <= HEIGHT

(* The program's screen and line hold together.                            *)
ScreenSound ==
  /\ program \in {"starting", "polling", "stopped"}
  /\ Len(line) <= MAX_CHARS + 1
  /\ DrawnOnScreen /\ PromptStays
=============================================================================
