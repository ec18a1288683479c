------------------------------ MODULE Keyboard ------------------------------
(***************************************************************************)
(* The keyboard (keyboard.c) and the line editor above it                  *)
(* (keyboard_utils.c).  The interrupt handler keeps the last key, one word *)
(* without a lock, and signals an event; getch waits, reads the word,      *)
(* clears the event and resets the word, in three steps that the handler   *)
(* interleaves with.  Keys are names; a scan code is the pair [ext, key]   *)
(* of the table it belongs to and the key the other parts of the code      *)
(* tell apart.  The screen and the LEDs are output only.                   *)
(***************************************************************************)
EXTENDS Integers, Sequences, FiniteSets

CONSTANTS
  ScanCodes,       \* records [ext, key]; key "unknown" is a code without key
  BufferSize,      \* of gets_s
  MaxScans         \* bound: scan codes that arrive

\* gets_s asserts that its buffer has room for a character and the end.
ASSUME KeyboardAssumption == BufferSize \in Nat /\ BufferSize > 1

VARIABLES
  Keycode,         \* [key, nr]: nr numbers the presses, a ghost
  KeyPressedEvt, extendedCode,
  Shift, CapsLock,
  scans,           \* bytes that have arrived; bound and ghost number
  isr,             \* what the handler still has to do: "none", "signal"
  reader,          \* getch: "wait", "read", "clear", "reset"
  got,             \* what KeyboardWaitForKey returned
  taken,           \* the presses getch has returned, a ghost
  line, position,  \* gets_s: Buffer and i
  typed            \* gets_s has returned

keyboardVars == <<Keycode, KeyPressedEvt, extendedCode, Shift, CapsLock, scans, isr,
                  reader, got, taken, line, position, typed>>

NoKey == [key |-> "unknown", nr |-> 0]
EmptyLine == [k \in 1 .. BufferSize |-> "nul"]

\* KeyboardInitialize, and gets_s up to its first getch.
KeyboardInitialize ==
  /\ Keycode = NoKey
  /\ KeyPressedEvt = FALSE /\ extendedCode = FALSE
  /\ Shift = FALSE /\ CapsLock = FALSE
  /\ scans = 0 /\ isr = "none"
  /\ reader = "wait" /\ got = NoKey /\ taken = <<>>
  /\ line = EmptyLine /\ position = 0 /\ typed = FALSE

readerVars == <<reader, got, taken, line, position, typed>>
modifiers == <<Shift, CapsLock>>

\* _KeyboardIsr for the 0xE0 and 0xE1 prefix: nothing else, and no signal.
ExtendedPrefix ==
  /\ isr = "none" /\ scans < MaxScans
  /\ extendedCode' = TRUE
  /\ scans' = scans + 1
  /\ UNCHANGED <<Keycode, KeyPressedEvt, modifiers, isr, readerVars>>

\* A make code: the key is kept and the modifiers follow.
KeyMake(code) ==
  /\ isr = "none" /\ scans < MaxScans
  /\ code.ext = extendedCode
  /\ Keycode' = [key |-> code.key,
                 nr |-> IF code.key = "unknown" THEN 0 ELSE scans + 1]
  /\ Shift' = (Shift \/ code.key = "shift")
  /\ CapsLock' = (CapsLock # (code.key = "caps"))
  /\ isr' = "signal"
  /\ scans' = scans + 1
  /\ extendedCode' = FALSE
  /\ UNCHANGED <<KeyPressedEvt, readerVars>>

\* A break code: only the modifiers, but the event is signalled as well.
KeyBreak(code) ==
  /\ isr = "none" /\ scans < MaxScans
  /\ code.ext = extendedCode
  /\ Shift' = (Shift /\ code.key # "shift")
  /\ isr' = "signal"
  /\ scans' = scans + 1
  /\ extendedCode' = FALSE
  /\ UNCHANGED <<Keycode, KeyPressedEvt, CapsLock, readerVars>>

\* ExEventSignal at the end of the handler.
KeyboardIsrSignals ==
  /\ isr = "signal"
  /\ KeyPressedEvt' = TRUE
  /\ isr' = "none"
  /\ UNCHANGED <<Keycode, extendedCode, modifiers, scans, readerVars>>

\* KeyboardWaitForKey: the event stays signalled, then the word is read.
WaitSeesEvent ==
  /\ reader = "wait" /\ ~typed /\ KeyPressedEvt
  /\ reader' = "read"
  /\ UNCHANGED <<Keycode, KeyPressedEvt, extendedCode, modifiers, scans, isr, got,
                 taken, line, position, typed>>

KeyboardWaitForKey ==
  /\ reader = "read"
  /\ got' = Keycode
  /\ reader' = "clear"
  /\ UNCHANGED <<Keycode, KeyPressedEvt, extendedCode, modifiers, scans, isr,
                 taken, line, position, typed>>

ClearSignal ==
  /\ reader = "clear"
  /\ KeyPressedEvt' = FALSE
  /\ reader' = "reset"
  /\ UNCHANGED <<Keycode, extendedCode, modifiers, scans, isr, got, taken, line,
                 position, typed>>

(***************************************************************************)
(* gets_s: what one key does to the line.                                  *)
(***************************************************************************)

\* KeyboardKeyToAscii: letters, and digits that shift turns into signs; a
\* key without a character is "nul".
KeyToAscii(key) ==
  CASE key = "a" -> IF Shift # CapsLock THEN "A" ELSE "a"
    [] key = "3" -> IF Shift THEN "!" ELSE "3"
    [] OTHER -> "nul"

Insert(c) == line' = [line EXCEPT ![position + 1] = c] /\ position' = position + 1

(* Mutant: the cursor may go one further to the right. *)
EditRight_Wide ==
  IF position < BufferSize - 1
  THEN Insert(IF line[position + 1] = "nul" THEN " " ELSE line[position + 1])
  ELSE UNCHANGED <<line, position>>

\* KEY_RIGHT: over what is there, or over a new blank.
EditRight ==
  IF position < BufferSize - 2
  THEN Insert(IF line[position + 1] = "nul" THEN " " ELSE line[position + 1])
  ELSE UNCHANGED <<line, position>>

EditLine(key) ==
  /\ typed' = \/ key = "return"
              \/ KeyToAscii(key) # "nul" /\ position + 1 >= BufferSize - 1
  /\ CASE key = "backspace" /\ position > 0 ->
            line' = [line EXCEPT ![position] = "nul"] /\ position' = position - 1
       [] key = "left" /\ position > 0 -> position' = position - 1 /\ UNCHANGED line
       [] key = "right" -> EditRight
       [] KeyToAscii(key) # "nul" -> Insert(KeyToAscii(key))
       [] OTHER -> UNCHANGED <<line, position>>

\* The end of KeyboardDiscardLastKey: getch goes round again without a key
\* and returns with one, which gets_s applies.
KeyboardDiscardLastKey ==
  /\ reader = "reset"
  /\ Keycode' = NoKey
  /\ reader' = "wait"
  /\ IF got = NoKey THEN UNCHANGED <<taken, line, position, typed>>
     ELSE taken' = Append(taken, got.nr) /\ EditLine(got.key)
  /\ UNCHANGED <<KeyPressedEvt, extendedCode, modifiers, scans, isr, got>>

\* The next call of gets_s clears its buffer.
NextLine ==
  /\ typed
  /\ line' = EmptyLine /\ position' = 0 /\ typed' = FALSE
  /\ UNCHANGED <<Keycode, KeyPressedEvt, extendedCode, modifiers, scans, isr, reader,
                 got, taken>>

\* The interrupt handler, and the reader's loops.
KeyboardIsr ==
  \/ ExtendedPrefix
  \/ \E code \in ScanCodes : KeyMake(code) \/ KeyBreak(code)
  \/ KeyboardIsrSignals
getch == WaitSeesEvent \/ KeyboardWaitForKey \/ ClearSignal \/ KeyboardDiscardLastKey
gets_s == getch \/ NextLine

KeyboardNext == KeyboardIsr \/ gets_s

(***************************************************************************)
(* Properties.                                                             *)
(***************************************************************************)

\* getch returns keys in the order they were pressed and none twice,
\* whatever the handler does between its steps; keys may be lost.  The line
\* gets_s edits is terminated, and the part it reports is without a hole.
KeysInOrder ==
  /\ \A i \in 1 .. Len(taken) - 1 : taken[i] < taken[i + 1]
  /\ \A i \in 1 .. Len(taken) : taken[i] > 0
LineTerminated ==
  /\ position < BufferSize
  /\ line[BufferSize] = "nul"
  /\ \A k \in 1 .. position : line[k] # "nul"
ConsoleSound == KeysInOrder /\ LineTerminated
=============================================================================
