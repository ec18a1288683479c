------------------------------ MODULE Strings ------------------------------
(***************************************************************************)
(* The strings, memory and numbers of CommonLib (string.c, cl_string.c,    *)
(* memory.c, strutils.c) and the interpreter of the commands of the boot   *)
(* module (cmd_interpreter.c), which cuts its text into lines and each     *)
(* line into arguments in place with two nested contexts of strtok_s, and  *)
(* stops at the command to exit.                                           *)
(*                                                                         *)
(* Characters are numbers, NUL is 0.  A string is a sequence of characters *)
(* without its terminator, or an index into a buffer of cells.  Parameters *)
(* that are NULL are refused before anything happens and left out.         *)
(***************************************************************************)
EXTENDS Integers, Sequences, FiniteSetsExt, SequencesExt

CONSTANTS
  Space, NewLines, Slash,  \* characters with a role; NewLines is "\n\r"
  CaseBit,                 \* LOWER_UPPER_DIFF
  ModuleTexts,             \* contents of the boot module
  CmdExit, CmdMaxArgs,     \* CMD_EXIT, CMD_MAX_ARGS
  Texts,                   \* strings that are compared and trimmed
  WordParts, WordSize,     \* what memcpy moves at a time: 4, 2, 1 and 8 bytes
  Cells,                   \* size of the memory that is copied
  NarrowBits, WideBits,    \* bits of a DWORD and of a QWORD
  Bases,
  Directives,              \* parts of a format string with their arguments
  BufferSizes              \* sizes of output buffers

VARIABLES
  lib,          \* the call in progress and its result
  hasModule,    \* the loader brought the boot module "Tests"
  text, buf,    \* its content as it was and as it is
  lineContext, argContext,
  commands,     \* arguments of the commands that were executed
  cmdPc

stringVars == <<lib, hasModule, text, buf, lineContext, argContext, commands, cmdPc>>

NUL == 0
Null == -1      \* the pointer
Rubbish == 99   \* the content of a cell that nobody wrote

\* The cells of a string, followed by memory of somebody else.
Buffer(s) == [i \in 0 .. 2 * Len(s) + 3 |->
                IF i < Len(s) THEN s[i + 1]
                ELSE IF i = Len(s) \/ i > 2 * Len(s) + 1 THEN NUL ELSE Rubbish]

\* The first index from p on whose cell is NUL or in stop.
Scan(m, p, stop) == Min({i \in DOMAIN m : i >= p /\ m[i] \in stop \union {NUL}})
StringAt(m, p) == [i \in 1 .. Scan(m, p, {}) - p |-> m[p + i - 1]]

(***************************************************************************)
(* Comparisons, of the strings in two buffers.                             *)
(***************************************************************************)

\* tolower sets one bit of any character.
tolower(c) == IF (c \div CaseBit) % 2 = 0 THEN c + CaseBit ELSE c
Lowered(s) == [i \in 1 .. Len(s) |-> tolower(s[i])]

\* Where the loops stop: at the end of a string or at a difference.
StopAt(s, t, length) ==
  LET end == Min({length, Len(s), Len(t)})
  IN  Min({i \in 0 .. end : i = end \/ s[i + 1] # t[i + 1]})

strcmp(s, t) ==
  LET i == StopAt(s, t, Len(s) + Len(t)) IN
  IF i < Len(s) /\ i < Len(t) THEN (IF s[i + 1] > t[i + 1] THEN 1 ELSE -1)
  ELSE IF i < Len(s) THEN 1 ELSE IF i < Len(t) THEN -1 ELSE 0

\* Equal strings that are shorter than length compare as "string 2 is bigger".
strncmp(s, t, length) ==
  LET i == StopAt(s, t, length) IN
  IF i = length THEN 0
  ELSE IF i < Len(s) /\ i < Len(t) THEN (IF s[i + 1] > t[i + 1] THEN 1 ELSE -1)
  ELSE IF i < Len(s) THEN 1 ELSE -1

stricmp(s, t) == strcmp(Lowered(s), Lowered(t))
strnicmp(s, t, length) == strncmp(Lowered(s), Lowered(t), length)

(***************************************************************************)
(* Searches.                                                               *)
(***************************************************************************)

\* Not found is the start of the string.
strchr(m, p, c) == LET i == Scan(m, p, {c}) IN IF m[i] = c THEN i ELSE p
strrchr(m, p, c) ==
  LET found == {i \in p .. Scan(m, p, {}) - 1 : m[i] = c}
  IN  IF found = {} THEN p ELSE Max(found)

\* The count stops at a character that is the delimiter, as strchr returns the
\* same pointer as when there is none.
strcelem(m, c) ==
  LET elements[p \in DOMAIN m] == LET cur == strchr(m, p, c)
                                  IN  IF cur = p THEN 1 ELSE 1 + elements[cur + 1]
  IN  elements[0]

\* One token: its delimiter becomes its terminator.
strtok_s(m, token, delimiters, context) ==
  LET p == IF context = Null THEN token ELSE context
      i == Scan(m, p, delimiters)
  IN  IF m[p] = NUL THEN [found |-> Null, context |-> context, m |-> m]
      ELSE [found |-> p, context |-> IF m[i] = NUL THEN i ELSE i + 1, m |-> [m EXCEPT ![i] = NUL]]

(***************************************************************************)
(* Memory.                                                                 *)
(***************************************************************************)

\* Chunks of the sizes given, each read and then written, upwards.
CopyChunks(m, d, s, sizes) ==
  LET copied[k \in 0 .. Len(sizes)] ==
        IF k = 0 THEN [m |-> m, at |-> 0]
        ELSE LET before == copied[k - 1]
                 chunk == before.at .. before.at + sizes[k] - 1
             IN  [m |-> [i \in DOMAIN m |-> IF i - d \in chunk THEN before.m[s + i - d]
                                            ELSE before.m[i]],
                  at |-> before.at + sizes[k]]
  IN  copied[Len(sizes)].m

memmove(m, d, s, n) == CopyChunks(m, d, s, [i \in 1 .. n |-> 1])
memcpy(m, d, s, n) ==
  CopyChunks(m, d, s, SelectSeq(WordParts, LAMBDA p : ((n % WordSize) \div p) % 2 = 1)
                        \o [i \in 1 .. n \div WordSize |-> WordSize])
memset(m, a, value, n) == [i \in DOMAIN m |-> IF i \in a .. a + n - 1 THEN value ELSE m[i]]

\* strncpy: at most length characters of s, and a NUL after them.
strncpy(m, d, s, length) ==
  LET n == Min({length, Len(s)})
  IN  [i \in DOMAIN m |-> IF i \in d .. d + n - 1 THEN s[i - d + 1]
                          ELSE IF i = d + n THEN NUL ELSE m[i]]

\* Spaces at the end are cut off, then the rest moves to the start.
strtrim(m) ==
  LET length == Scan(m, 0, {})
      words == {i \in 0 .. length - 1 : m[i] # Space}
      cut == [m EXCEPT ![Max(words) + 1] = NUL]
  IN  IF words = {} THEN [m EXCEPT ![0] = NUL]
      ELSE IF Min(words) = 0 THEN cut
      ELSE memmove(cut, 0, Min(words), Max(words) + 1)

(***************************************************************************)
(* Numbers.  A digit is its own value, a minus sign is Minus.              *)
(***************************************************************************)

Minus == -1
Bits(wide) == IF wide THEN WideBits ELSE NarrowBits

\* The value without its sign: negating the least INT32 does not change it,
\* and it is then extended with its sign to a QWORD.
Magnitude(v, negative, wide) ==
  IF ~negative THEN v
  ELSE IF ~wide /\ v = 2 ^ (NarrowBits - 1) THEN 2 ^ WideBits - v
  ELSE 2 ^ Bits(wide) - v

itoa(v, signed, base, wide) ==
  LET negative == signed /\ v >= 2 ^ (Bits(wide) - 1)
      digits[n \in Nat] == IF n < base THEN <<n>> ELSE Append(digits[n \div base], n % base)
  IN  (IF negative THEN <<Minus>> ELSE <<>>) \o digits[Magnitude(v, negative, wide)]

\* Calculates in a QWORD; the assertion is that a value without sign fits.
atoi(s, base, wide) ==
  LET negative == s[1] = Minus
      digits == IF negative THEN Tail(s) ELSE s
      value == FoldLeft(LAMBDA v, d : (v * base + d) % (2 ^ WideBits), 0, digits)
  IN  [value |-> (IF negative THEN (2 ^ WideBits - value) ELSE value) % (2 ^ Bits(wide)),
       asserts |-> ~wide /\ ~negative /\ value >= 2 ^ NarrowBits]

(***************************************************************************)
(* vsnprintf.  A directive is a character, or a conversion with its digits,*)
(* its fill character and the string that itoa or the caller supplies.     *)
(***************************************************************************)

Fill(d) == IF d.digits > Len(d.arg) THEN d.digits - Len(d.arg) ELSE 0
CharsToCopy(d) == IF d.next = "S" THEN Min({d.digits, Len(d.arg)}) ELSE Len(d.arg)

PrintStart(buffSize) ==
  [out |-> [i \in 0 .. 2 * buffSize |-> Rubbish], offset |-> 0, status |-> "ok"]

PrintChar(r, d, buffSize) ==
  IF r.offset + 1 >= buffSize
  THEN [r EXCEPT !.out[r.offset] = NUL, !.status = "BUFFER_TOO_SMALL"]
  ELSE [r EXCEPT !.out[r.offset] = d.arg[1], !.offset = @ + 1]

PrintConversion(r, d, buffSize) ==
  LET at == r.offset + Fill(d)
      filled == memset(r.out, r.offset, d.fill, Fill(d))
  IN  IF d.next \notin {"d", "s", "S"} THEN [r EXCEPT !.status = "PARSE_FAILED"]
      ELSE IF at + Len(d.arg) >= buffSize THEN [r EXCEPT !.status = "BUFFER_TOO_SMALL"]
      ELSE [r EXCEPT !.out = IF CharsToCopy(d) = 0 THEN filled
                             ELSE strncpy(filled, at, d.arg, CharsToCopy(d)),
                     !.offset = at + CharsToCopy(d)]

vsnprintf(directives, buffSize) ==
  LET print(r, d) == IF r.status # "ok" THEN r
                     ELSE IF d.next = "char" THEN PrintChar(r, d, buffSize)
                     ELSE PrintConversion(r, d, buffSize)
      r == FoldLeft(print, PrintStart(buffSize), directives)
  IN  IF r.status = "ok" THEN [r EXCEPT !.out[r.offset] = NUL] ELSE r

(***************************************************************************)
(* The commands of the boot module.                                        *)
(***************************************************************************)

Idle == [op |-> "idle"]

StringInit ==
  /\ lib = Idle /\ cmdPc = "line" /\ hasModule \in BOOLEAN
  /\ text \in ModuleTexts /\ (~hasModule => text = <<>>) /\ buf = Buffer(text)
  /\ lineContext = Null /\ argContext = Null /\ commands = <<>>

Current == argContext[1]   \* the line of which arguments are taken

\* _CmdExecuteModuleCommands: the next line, if BootModuleGet finds the module;
\* a command starts with a slash and has a character after it.
CmdExecuteModuleCommands ==
  LET t == strtok_s(buf, 0, NewLines, lineContext)
      line == StringAt(t.m, t.found)
  IN  /\ cmdPc = "line" /\ lib = Idle /\ hasModule
      /\ buf' = t.m /\ lineContext' = t.context
      /\ IF t.found = Null THEN cmdPc' = "keyboard" /\ UNCHANGED <<argContext, commands>>
         ELSE IF line # <<>> /\ line[1] = Slash /\ Len(line) > 1
         THEN cmdPc' = "args" /\ argContext' = <<t.found, Null>> /\ commands' = Append(commands, <<>>)
         ELSE UNCHANGED <<cmdPc, argContext, commands>>
      /\ UNCHANGED <<lib, hasModule, text>>

\* BootModuleGet fails: no line is executed.
CmdModuleNotFound ==
  /\ cmdPc = "line" /\ lib = Idle /\ ~hasModule
  /\ cmdPc' = "keyboard"
  /\ UNCHANGED <<lib, hasModule, text, buf, lineContext, argContext, commands>>

Argv == [j \in 1 .. Len(Last(commands)) |-> StringAt(buf, Last(commands)[j])]

(* Mutant: the command to exit does not end the loop. *)
ExecCmd_NoExit == IF Argv = <<>> THEN "asserted" ELSE "line"

\* ExecCmd, which asserts that there is an argument, and what the loop of the
\* caller does with its answer.  The other commands leave the buffer alone.
ExecCmd ==
  IF Argv = <<>> THEN "asserted" ELSE IF stricmp(Argv[1], CmdExit) = 0 THEN "left" ELSE "line"

\* _CmdExecLine: the next argument of the command, for which there has to be
\* room; the command is executed after the last.
CmdExecLine ==
  LET t == strtok_s(buf, Current + 1, {Space}, argContext[2]) IN
  /\ cmdPc = "args"
  /\ buf' = t.m
  /\ IF t.found = Null THEN cmdPc' = ExecCmd /\ argContext' = Null /\ UNCHANGED commands
     ELSE /\ argContext' = <<Current, t.context>>
          /\ IF Len(Last(commands)) < CmdMaxArgs
             THEN /\ commands' = [commands EXCEPT ![Len(commands)] = Append(@, t.found)]
                  /\ UNCHANGED cmdPc
             ELSE cmdPc' = "asserted" /\ UNCHANGED commands
  /\ UNCHANGED <<lib, hasModule, text, lineContext>>

\* CmdRun then reads the keyboard, or returns after the command to exit; a
\* failed assertion stops the system.
CommandsDone == cmdPc \in {"keyboard", "left", "asserted"} /\ UNCHANGED stringVars

(***************************************************************************)
(* One call of a function, with all of its arguments.                      *)
(***************************************************************************)

Memory == [i \in 0 .. Cells - 1 |-> i + 1]
Call(r) == lib' = r /\ UNCHANGED <<hasModule, text, buf, lineContext, argContext, commands, cmdPc>>

CompareStrings ==
  \E s \in Texts, t \in Texts, n \in 1 .. 3 :
    Call([op |-> "compare", s |-> s, t |-> t, n |-> n, cmp |-> strcmp(s, t), icmp |-> stricmp(s, t),
          ncmp |-> strncmp(s, t, n), nicmp |-> strnicmp(s, t, n)])
SearchString ==
  \E s \in Texts, c \in {Space, Slash} :
    Call([op |-> "search", s |-> s, c |-> c, first |-> strchr(Buffer(s), 0, c),
          last |-> strrchr(Buffer(s), 0, c), elements |-> strcelem(Buffer(s), c),
          trimmed |-> StringAt(strtrim(Buffer(s)), 0)])
CopyMemory ==
  \E d \in 0 .. Cells - 1, s \in 0 .. Cells - 1, n \in 0 .. Cells :
    /\ d + n <= Cells /\ s + n <= Cells
    /\ Call([op |-> "copy", d |-> d, s |-> s, n |-> n, moved |-> memmove(Memory, d, s, n),
             copied |-> memcpy(Memory, d, s, n)])
ConvertNumber ==
  \E wide \in BOOLEAN, signed \in BOOLEAN, base \in Bases :
    \E v \in 0 .. 2 ^ Bits(wide) - 1 :
      Call([op |-> "number", v |-> v, signed |-> signed, wide |-> wide, base |-> base,
            string |-> itoa(v, signed, base, wide),
            back |-> atoi(itoa(v, signed, base, wide), base, wide)])
FormatString ==
  \E d1 \in Directives, d2 \in Directives, size \in BufferSizes :
    Call([op |-> "format", directives |-> <<d1, d2>>, size |-> size,
          result |-> vsnprintf(<<d1, d2>>, size)])

StringCall ==
  /\ lib = Idle /\ hasModule /\ text = <<>> /\ cmdPc = "line"
  /\ CompareStrings \/ SearchString \/ CopyMemory \/ ConvertNumber \/ FormatString
StringReturns ==
  /\ lib # Idle /\ lib' = Idle
  /\ UNCHANGED <<hasModule, text, buf, lineContext, argContext, commands, cmdPc>>

StringNext ==
  \/ CmdExecuteModuleCommands \/ CmdModuleNotFound \/ CmdExecLine \/ CommandsDone
  \/ StringCall \/ StringReturns

(***************************************************************************)
(* Properties.                                                             *)
(***************************************************************************)

\* The fields of a string between delimiters; the last is only one if it is
\* not empty.
Fields(s, delimiters) ==
  LET ends == {0} \union {i \in 1 .. Len(s) : s[i] \in delimiters} \union {Len(s) + 1}
      bounds == SetToSortSeq(ends, <)
      all == [k \in 1 .. Len(bounds) - 1 |-> SubSeq(s, bounds[k] + 1, bounds[k + 1] - 1)]
  IN  IF Last(all) = <<>> THEN Front(all) ELSE all

\* The commands of the module: the lines that begin with a slash, cut at
\* spaces, up to and with the first that exits.
Commands ==
  LET lines == SelectSeq(Fields(text, NewLines), LAMBDA s : Len(s) > 1 /\ s[1] = Slash)
  IN  [k \in 1 .. Len(lines) |-> Fields(Tail(lines[k]), {Space})]
Exits(command) == Lowered(command[1]) = Lowered(CmdExit)
UpToExit(cs) == LET exits == {k \in 1 .. Len(cs) : Exits(cs[k])}
                IN  IF exits = {} THEN cs ELSE SubSeq(cs, 1, Min(exits))

\* Those are executed with their arguments, whatever the other lines and the
\* empty ones are: no line's context runs into the next, nothing is executed
\* after the command to exit or without the module, and an assertion fails for
\* the first command with too many arguments and for nothing else.
CommandsExact ==
  LET executed == [k \in 1 .. Len(commands) |->
                     [j \in 1 .. Len(commands[k]) |-> StringAt(buf, commands[k][j])]]
      due == UpToExit(Commands)
      cut == executed # <<>> /\ IsPrefix(Front(executed), due) /\ Len(executed) <= Len(due)
               /\ IsPrefix(Last(executed), due[Len(executed)])
  IN  /\ cmdPc = "line" => IsPrefix(executed, due)
      /\ cmdPc = "args" => cut
      /\ cmdPc \in {"keyboard", "left"} =>
           executed = due /\ (cmdPc = "left" <=> due # <<>> /\ Exits(Last(due)))
      /\ cmdPc = "asserted" => cut /\ Len(due[Len(executed)]) > CmdMaxArgs
      /\ \A k \in 1 .. Len(executed) - 1 : Len(executed[k]) \in 1 .. CmdMaxArgs
      /\ \A i \in DOMAIN buf : i > Len(text) => buf[i] = Buffer(text)[i]

\* The lexicographic order of strings, and of their first characters.
Before(s, t) ==
  \/ s # t /\ IsPrefix(s, t)
  \/ \E i \in 1 .. Len(s) : i <= Len(t) /\ s[i] < t[i] /\ SubSeq(s, 1, i - 1) = SubSeq(t, 1, i - 1)
Compared(s, t, r) == r = (IF s = t THEN 0 ELSE IF Before(s, t) THEN -1 ELSE 1)
First(s, n) == SubSeq(s, 1, Min({n, Len(s)}))

\* Comparisons are the lexicographic order.  With a length that both strings
\* do not reach strncmp answers -1 for equal strings.
CompareSound ==
  lib.op = "compare" =>
    /\ Compared(lib.s, lib.t, lib.cmp) /\ Compared(Lowered(lib.s), Lowered(lib.t), lib.icmp)
    /\ Len(lib.s) >= lib.n \/ Len(lib.t) >= lib.n =>
         /\ Compared(First(lib.s, lib.n), First(lib.t, lib.n), lib.ncmp)
         /\ Compared(First(Lowered(lib.s), lib.n), First(Lowered(lib.t), lib.n), lib.nicmp)

\* Strings are trimmed of their outer spaces only; the count of elements is
\* that of the fields when no field is empty.
SearchSound ==
  lib.op = "search" =>
    LET t == lib.trimmed
        fields == Fields(lib.s, {lib.c})
        words == {i \in 1 .. Len(lib.s) : lib.s[i] # Space}
    IN  /\ t = IF words = {} THEN <<>> ELSE SubSeq(lib.s, Min(words), Max(words))
        /\ lib.s # <<>> /\ Last(lib.s) # lib.c /\ (\A k \in DOMAIN fields : fields[k] # <<>>)
             => lib.elements = Len(fields)
        /\ \A i \in 1 .. Len(lib.s) : lib.s[i] = lib.c => lib.first < i /\ i <= lib.last + 1

\* A copy to a lower address or to cells apart is exact, also when memcpy moves
\* words of regions that overlap.  Upwards over an overlap it is not.
CopySound ==
  lib.op = "copy" /\ (lib.d <= lib.s \/ lib.d >= lib.s + lib.n) =>
    \A i \in DOMAIN Memory :
      LET want == Memory[IF i \in lib.d .. lib.d + lib.n - 1 THEN lib.s + i - lib.d ELSE i]
      IN  lib.moved[i] = want /\ lib.copied[i] = want

\* A number that is printed and read again is the same and no assertion fails;
\* in the bases that vsnprintf uses its string fits the buffer on the stack.
\* The least INT32 is the exception.
LeastNarrow == ~lib.wide /\ lib.signed /\ lib.v = 2 ^ (NarrowBits - 1)
NumbersSound ==
  lib.op = "number" /\ ~LeastNarrow =>
    /\ lib.back = [value |-> lib.v, asserts |-> FALSE]
    /\ ~lib.signed \/ lib.base = 10 => Len(lib.string) <= WideBits

\* What a directive prints.
Printed(d) == [i \in 1 .. Fill(d) |-> d.fill] \o First(d.arg, CharsToCopy(d))

\* Formatting never writes past the buffer; when it succeeds the buffer has
\* exactly the text and its terminator, and it only refuses a text that, with
\* its arguments in full, leaves no place for the terminator.
FormatSound ==
  lib.op = "format" =>
    LET r == lib.result
        ds == lib.directives
        printed == FoldLeft(LAMBDA s, d : s \o Printed(d), <<>>, ds)
        full == FoldLeft(LAMBDA n, d : n + Fill(d) + Len(d.arg), 0, ds)
    IN  /\ \A i \in DOMAIN r.out : i >= lib.size => r.out[i] = Rubbish
        /\ r.status = "ok" => StringAt(r.out, 0) = printed
        /\ r.status = "BUFFER_TOO_SMALL" => full >= lib.size
        /\ r.status = "PARSE_FAILED" => \E k \in DOMAIN ds : ds[k].next \notin {"char", "d", "s", "S"}

\* The strings of CommonLib and the commands cut with them.
StringsSound ==
  CommandsExact /\ CompareSound /\ SearchSound /\ CopySound /\ NumbersSound /\ FormatSound
=============================================================================
