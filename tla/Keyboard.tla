------------------------------ MODULE Keyboard ------------------------------
(***************************************************************************)
(* kbd_proc_data of kern/console.c: from the bytes of the keyboard         *)
(* controller (scan code set 1) to characters.  The keys of one group of   *)
(* the tables stand for the group: "a" for the letters, "one" for what has *)
(* two glyphs, "up" and "del" for the grey keys, whose codes follow an E0. *)
(* Names that Console has too begin with Key, as ConsoleProofs is about    *)
(* both modules.                                                           *)
(***************************************************************************)
EXTENDS Naturals, Sequences, FiniteSetsExt

CONSTANTS
  Key,       \* the keys of the keyboard
  MaxWire,   \* bound: bytes the decoder has not yet read
  MaxHeld    \* bound: keys held at a time

E0 == \hE0

Code == [lctl |-> \h1D, rctl |-> \h1D, lshift |-> \h2A, rshift |-> \h36,
         alt |-> \h38, caps |-> \h3A, a |-> \h1E, one |-> \h02,
         enter |-> \h1C, up |-> \h48, del |-> \h53]

ASSUME KeyboardAssumption == Key \subseteq DOMAIN Code /\ MaxWire \in Nat /\ MaxHeld \in Nat

Extended == {"rctl", "up", "del"}
Modifier == [lctl |-> "CTL", rctl |-> "CTL", lshift |-> "SHIFT", rshift |-> "SHIFT", alt |-> "ALT"]

VARIABLES
  wire,     \* bytes sent by the keyboard and not yet read
  shift,    \* the decoder's static flags
  held,     \* the keys that are down
  caps,     \* is caps lock on
  pending   \* ghost: what the keys pressed since should still produce

keyvars == <<wire, shift, held, caps, pending>>

KeyInit == wire = <<>> /\ shift = {} /\ held = {} /\ caps = FALSE /\ pending = <<>>

----------------------------------------------------------------------------
(* The tables *)

\* What the driver answers to a byte: a character, or NO.
NO == "NO"

shiftcode(b) == CASE b \in {\h1D, \h9D} -> {"CTL"}
                  [] b \in {\h2A, \h36} -> {"SHIFT"}
                  [] b \in {\h38, \hB8} -> {"ALT"}
                  [] OTHER -> {}

togglecode(b) == IF b = \h3A THEN {"CAPSLOCK"} ELSE {}

grey(b) == CASE b = \hC8 -> "KEY_UP" [] b = \hD3 -> "KEY_DEL" [] OTHER -> NO

normalmap(b) == CASE b = \h1E -> "a" [] b = \h02 -> "1" [] b = \h1C -> "\n"
                  [] b = \h48 -> "8" [] b = \h53 -> "." [] OTHER -> grey(b)

shiftmap(b) == CASE b = \h1E -> "A" [] b = \h02 -> "!" [] b = \h1C -> "\n"
                 [] b = \h48 -> "8" [] b = \h53 -> "." [] OTHER -> grey(b)

ctlmap(b) == CASE b = \h1E -> "^A" [] b = \h1C -> "\r" [] OTHER -> grey(b)

charcode(flags, b) == IF "CTL" \in flags THEN ctlmap(b)
                      ELSE IF "SHIFT" \in flags THEN shiftmap(b) ELSE normalmap(b)

swapcase(c) == CASE c = "a" -> "A" [] c = "A" -> "a" [] OTHER -> c

----------------------------------------------------------------------------
(* The driver: the flags and the answer after one byte.  A key that reboots *)
(* the machine answers "REBOOT".                                            *)

pressed(flags, b) ==
  LET on == SymDiff(flags \cup shiftcode(b), togglecode(b))
      c  == charcode(on, b)
      d  == IF "CAPSLOCK" \in on THEN swapcase(c) ELSE c
  IN  [shift |-> on, c |-> IF {"CTL", "ALT"} \subseteq on /\ d = "KEY_DEL" THEN "REBOOT" ELSE d]

proc_data(flags, b, released) ==
  CASE b = E0   -> [shift |-> flags \cup {"E0ESC"}, c |-> NO]
    [] b # E0 /\ b >= 128 -> [shift |-> flags \ released, c |-> NO]
    [] b < 128 -> IF "E0ESC" \in flags THEN pressed(flags \ {"E0ESC"}, b + 128)
                                       ELSE pressed(flags, b)

kbd_proc_data_7bit(flags, b) ==
  proc_data(flags, b, shiftcode(b - 128) \cup {"E0ESC"})

kbd_proc_data_escaped(flags, b) ==
  proc_data(flags, b, shiftcode(IF "E0ESC" \in flags THEN b ELSE b - 128))

kbd_proc_data(flags, b) ==
  proc_data(flags, b, shiftcode(IF "E0ESC" \in flags THEN b ELSE b - 128) \cup {"E0ESC"})

KbdProcData ==
  /\ wire # <<>>
  /\ LET r == kbd_proc_data(shift, Head(wire))
     IN  /\ shift' = r.shift
         /\ pending' = IF r.c = NO \/ pending = <<>> THEN pending ELSE Tail(pending)
  /\ wire' = Tail(wire)
  /\ UNCHANGED <<held, caps>>

----------------------------------------------------------------------------
(* The keyboard *)

Down(m) == \E k \in held : k \in DOMAIN Modifier /\ Modifier[k] = m

\* What pressing k means to the one who types.
Meaning(k) ==
  CASE k = "a" -> IF Down("CTL") THEN "^A" ELSE IF Down("SHIFT") # caps THEN "A" ELSE "a"
    [] k = "one" -> IF Down("CTL") THEN NO ELSE IF Down("SHIFT") THEN "!" ELSE "1"
    [] k = "enter" -> IF Down("CTL") THEN "\r" ELSE "\n"
    [] k = "up" -> "KEY_UP"
    [] k = "del" -> IF Down("CTL") /\ Down("ALT") THEN "REBOOT" ELSE "KEY_DEL"
    [] OTHER -> NO

\* The keyboard lifts the shift keys for the grey ones, which it marks with an
\* E0: the bytes around a grey key that is pressed or released.
Fake(k, b) ==
  IF k \in {"up", "del"} /\ Down("SHIFT")
  THEN <<E0, (IF "lshift" \in held THEN Code.lshift ELSE Code.rshift) + b>>
  ELSE <<>>

Escape(k) == IF k \in Extended THEN <<E0>> ELSE <<>>

Send(bytes) == /\ Len(wire) + Len(bytes) <= MaxWire
               /\ wire' = wire \o bytes

\* A key is pressed, or repeats while it is held.  Caps lock does not repeat,
\* and of two keys with the same flag only one is down at a time.
Press(k) ==
  /\ k = "caps" => k \notin held
  /\ k \in DOMAIN Modifier => \A h \in held \ {k} : h \in DOMAIN Modifier => Modifier[h] # Modifier[k]
  /\ Send(Fake(k, 128) \o Escape(k) \o <<Code[k]>>)
  /\ held' = held \cup {k} /\ Cardinality(held') <= MaxHeld
  /\ caps' = IF k = "caps" THEN ~caps ELSE caps
  /\ pending' = IF Meaning(k) = NO THEN pending ELSE Append(pending, Meaning(k))
  /\ UNCHANGED shift

Release(k) ==
  /\ k \in held
  /\ Send(Escape(k) \o <<Code[k] + 128>> \o Fake(k, 0))
  /\ held' = held \ {k}
  /\ UNCHANGED <<shift, caps, pending>>

KeyNext == KbdProcData \/ \E k \in Key : Press(k) \/ Release(k)

KeySpec == KeyInit /\ [][KeyNext]_keyvars

----------------------------------------------------------------------------
(* Properties *)

\* The driver answers each key with the character it had when it was pressed,
\* in the order of the keys, however late it reads their bytes; and it reboots
\* the machine for control-alt-delete only.
DecodedAsTyped ==
  [][wire # <<>> /\ wire' = Tail(wire) =>
       LET c == kbd_proc_data(shift, Head(wire)).c
       IN  c # NO => pending # <<>> /\ c = Head(pending)]_keyvars

\* Once it has read everything, the driver's flags are those of the keys that
\* are held: no modifier sticks or is lost, and no character is missing.
InStep ==
  wire = <<>> =>
    /\ pending = <<>>
    /\ shift = {m \in {"CTL", "SHIFT", "ALT"} : Down(m)} \cup {x \in {"CAPSLOCK"} : caps}
=============================================================================
