------------------------------ MODULE Console ------------------------------
(***************************************************************************)
(* Console input of kern/console.c.  The kernel polls: interrupts are off, *)
(* and cons_getc first drains the serial port, then the keyboard, into a   *)
(* circular buffer.  The devices go on while it does: a character may      *)
(* arrive between any two iterations of the loop in cons_intr.             *)
(***************************************************************************)
EXTENDS Naturals, SequencesExt

CONSTANTS
  CONSBUFSIZE,
  SerialChar,   \* what the serial line carries; 0 is a NUL
  KeyChar,      \* what kbd_proc_data makes of a byte; 0 for "no character yet"
  Mouse,        \* a byte the controller marks as coming from the mouse
  MouseBytes,   \* bound: how many of them arrive
  MaxTyped,     \* bound: how many characters are typed
  MaxWaiting    \* at most so many typed characters are unread at any time

ASSUME ConsoleAssumption ==
  /\ CONSBUFSIZE \in Nat \ {0}
  /\ SerialChar \subseteq Nat /\ KeyChar \subseteq Nat /\ Mouse \notin Nat
  /\ MouseBytes \in Nat /\ MaxTyped \in Nat /\ MaxWaiting \in Nat

Char == (SerialChar \cup KeyChar) \ {0}
Pos  == 0 .. CONSBUFSIZE - 1

VARIABLES
  rx,        \* the serial receive register (its FIFO is off): <<>> or <<c>>
  kb,        \* the keyboard controller: its output buffer is the head
  buf, rpos, wpos,
  pc,        \* where getchar is: "getc", "serial", "kbd", "take"
  result,    \* what cons_getc returned last
  typed,     \* ghost: characters typed so far
  waiting,   \* ghost: characters typed that cons_getc has not returned
  ready      \* ghost: was there one to return when cons_getc was called

vars == <<rx, kb, buf, rpos, wpos, pc, result, typed, waiting, ready>>

Init ==
  /\ rx = <<>> /\ kb = <<>>
  /\ buf = [i \in Pos |-> 0] /\ rpos = 0 /\ wpos = 0      \* in the BSS
  /\ pc = "getc" /\ result = 0
  /\ typed = 0 /\ waiting = 0 /\ ready = FALSE

----------------------------------------------------------------------------
(* The devices.  The serial line is slower than the polling loop: a        *)
(* character finds the receive register empty.                             *)

Type(c) == /\ typed < MaxTyped
           /\ c # 0 => waiting < MaxWaiting
           /\ typed' = typed + 1
           /\ waiting' = IF c = 0 THEN waiting ELSE waiting + 1
           /\ UNCHANGED <<buf, rpos, wpos, pc, result, ready>>

SerialReceive(c) ==
  /\ rx = <<>>
  /\ rx' = <<c>>
  /\ Type(c)
  /\ UNCHANGED kb

KeyReceive(c) ==
  /\ kb' = Append(kb, c)
  /\ Type(c)
  /\ UNCHANGED rx

MouseMove ==
  /\ Len(SelectSeq(kb, LAMBDA c : c = Mouse)) < MouseBytes
  /\ kb' = Append(kb, Mouse)
  /\ UNCHANGED <<rx, buf, rpos, wpos, pc, result, typed, waiting, ready>>

----------------------------------------------------------------------------
(* The kernel *)

Next_pos(i) == IF i + 1 = CONSBUFSIZE THEN 0 ELSE i + 1

\* cons_intr's body: a character, if it is one, goes into the buffer.
store(c) ==
  IF c = 0 THEN UNCHANGED <<buf, wpos>>
  ELSE buf' = [buf EXCEPT ![wpos] = c] /\ wpos' = Next_pos(wpos)

\* The bytes a poll of the keyboard reads: those before the first of the mouse's.
Readable == LET m == SelectInSeq(kb, LAMBDA c : c = Mouse)
            IN  IF m = 0 THEN kb ELSE SubSeq(kb, 1, m - 1)

\* getchar calls cons_getc until it returns something else than 0.
CallGetc ==
  /\ pc = "getc"
  /\ pc' = "serial"
  /\ ready' = (rpos # wpos \/ \E c \in Char : c \in Range(rx \o Readable))
  /\ UNCHANGED <<rx, kb, buf, rpos, wpos, result, typed, waiting>>

\* serial_intr: an iteration of cons_intr(serial_proc_data).
SerialIntr ==
  /\ pc = "serial"
  /\ \/ rx = <<>> /\ pc' = "kbd" /\ UNCHANGED <<rx, buf, wpos>>
     \/ rx # <<>> /\ store(rx[1]) /\ rx' = <<>> /\ UNCHANGED pc
  /\ UNCHANGED <<kb, rpos, result, typed, waiting, ready>>

KbdPoll(again) ==
  /\ pc = "kbd"
  /\ \/ kb = <<>> /\ pc' = "take" /\ UNCHANGED <<kb, buf, wpos>>
     \/ kb # <<>> /\ Head(kb) = Mouse /\ pc' = "take" /\ UNCHANGED <<kb, buf, wpos>>
     \/ /\ kb # <<>> /\ Head(kb) # Mouse
        /\ store(Head(kb)) /\ kb' = Tail(kb)
        /\ pc' = IF again THEN "kbd" ELSE "take"
  /\ UNCHANGED <<rx, rpos, result, typed, waiting, ready>>

KbdIntr_nul == KbdPoll(kb # <<>> /\ Head(kb) # 0)

\* kbd_intr: an iteration of cons_intr(kbd_proc_data), which returns -1 when
\* there is no data, and when there is but it is the mouse's.
KbdIntr == KbdPoll(TRUE)

Fetch(some, next) ==
  /\ pc = "take" /\ pc' = "getc"
  /\ \/ some  /\ result' = buf[rpos] /\ rpos' = next /\ waiting' = waiting - 1
     \/ ~some /\ result' = 0 /\ UNCHANGED <<rpos, waiting>>
  /\ UNCHANGED <<rx, kb, buf, wpos, typed, ready>>

Take_nowrap == Fetch(rpos # wpos, IF rpos + 1 < CONSBUFSIZE THEN rpos + 1 ELSE rpos)

Take_less == Fetch(rpos < wpos, Next_pos(rpos))

\* The rest of cons_getc.
Take == Fetch(rpos # wpos, Next_pos(rpos))

KernelStep == CallGetc \/ SerialIntr \/ KbdIntr \/ Take

Next ==
  \/ \E c \in SerialChar : SerialReceive(c)
  \/ \E c \in KeyChar : KeyReceive(c)
  \/ MouseMove
  \/ KernelStep

Spec == Init /\ [][Next]_vars

\* getchar spins: the processor does nothing else.
FairSpec == Spec /\ WF_vars(KernelStep)

----------------------------------------------------------------------------
(* Properties *)

\* The characters in the buffer, oldest first.
Buffered ==
  LET n == (wpos + CONSBUFSIZE - rpos) % CONSBUFSIZE
  IN  [i \in 1 .. n |-> buf[(rpos + i - 1) % CONSBUFSIZE]]

Q == INSTANCE CharQueue WITH queue <- Buffered

\* The circular buffer is a queue: whatever arrives while it is being filled
\* or read, no character is lost, repeated or moved, and NULs never show up.
ImplementsQueue == Q!QSpec

\* cons_getc returns "0 if none waiting" and only then: what the devices had
\* delivered when it was called, it has found.
ZeroMeansNone == pc = "take" /\ rpos = wpos => ~ready

\* Every character typed is returned by getchar sooner or later, as long as no
\* byte of the mouse is in the way: that one is never read.
EveryCharArrives ==
  \A n \in 1 .. MaxWaiting : waiting = n ~> waiting = 0 \/ Mouse \in Range(kb)
=============================================================================
