------------------------------- MODULE Shell --------------------------------
(***************************************************************************)
(* The command loop of the kernel, shell and run_cmd of init/shell.c, and  *)
(* its copy for user mode, user/shall.c: a line is read, cut into tokens   *)
(* where it stands, and the command it names is run.  A character of the   *)
(* model may stand for a whole command name; blanks and digits stand for   *)
(* themselves.  What a command prints is said, its wording left out.       *)
(***************************************************************************)
EXTENDS CString

CONSTANTS BUF,          \* size of cmd_buf, 128
          ARGS,         \* size of args, 4
          ROW,          \* bytes in a line of mdmp, 16
          PAGE,         \* 0x1000
          DEFAULT_END,  \* vend of a ptwalk without arguments, 0x10000
          Line          \* what may be typed, without the newline

ASSUME ShellAssumption ==
  /\ {BUF, ARGS, ROW, PAGE} \subseteq Nat \ {0} /\ BUF > 1 /\ ROW < WORD /\ PAGE < WORD
  /\ DEFAULT_END \in 0..(WORD - 1)
  /\ Line \subseteq Seq(Char)

VARIABLES
  shellOf,      \* "kernel" or "user": whose shell runs
  pc,           \* "off", "prompt", "getline", "strtok", "run", "mdmp", "ptwalk",
                \* "repeat", "done", "fault" (a page fault, which halts)
  input,        \* what was typed and not yet read
  cmd_buf,
  next_token,   \* the static variable of strtok, or cmd before the first call
  args,         \* the tokens found, argc of them
  i, end,       \* the variable and the bound of the loop of a command
  line,         \* history: the line read
  said,         \* history: addresses dumped or walked, words printed
  stray         \* history: something outside a buffer was read or written

shellVars == <<shellOf, pc, input, cmd_buf, next_token, args, i, end, line, said, stray>>

ShellInit ==
  /\ shellOf = "kernel" /\ pc = "off" /\ input = <<>>
  /\ cmd_buf = <<>> /\ next_token = NULL /\ args = <<>>
  /\ i = 0 /\ end = 0 /\ line = <<>> /\ said = <<>> /\ stray = FALSE

(* shell is called, or the program shall started.  The last byte of        *)
(* cmd_buf is never written: it keeps what the stack held.                 *)
shell_begin ==
  /\ pc = "off"
  /\ pc' = "prompt"
  /\ shellOf' \in {"kernel", "user"}
  /\ \E last \in {NUL, "?"} : cmd_buf' = [a \in 0..(BUF - 1) |-> last]
  /\ UNCHANGED <<input, next_token, args, i, end, line, said, stray>>

(* The prompt is printed.  The locals of run_cmd are gone; what cmd_buf    *)
(* holds from the last line is any characters but NUL.                     *)
prompt ==
  /\ pc = "prompt"
  /\ pc' = "getline"
  /\ cmd_buf' = [a \in 0..(BUF - 1) |-> IF a = BUF - 1 THEN cmd_buf[a] ELSE "?"]
  /\ args' = <<>> /\ i' = 0 /\ end' = 0
  /\ line' = <<>> /\ said' = <<>> /\ stray' = FALSE
  /\ UNCHANGED <<shellOf, input, next_token>>

Type(l) ==
  /\ pc = "getline" /\ input = <<>>
  /\ input' = Append(l, "\n")
  /\ UNCHANGED <<shellOf, pc, cmd_buf, next_token, args, i, end, line, said, stray>>

(* Mutant of getlinek: the newline is dropped without a NUL in its place. *)
getlinek_NoNul ==
  LET e == Skip(input, 1, {input[k] : k \in 1..Len(input)} \ {"\n"})
      len == IF e < BUF THEN e - 1 ELSE BUF - 1
  IN  /\ pc = "getline" /\ input # <<>>
      /\ cmd_buf' = [a \in 0..(BUF - 1) |-> IF a < len THEN input[a + 1] ELSE cmd_buf[a]]
      /\ input' = SubSeq(input, IF e < BUF THEN e + 1 ELSE BUF, Len(input))
      /\ line' = SubSeq(input, 1, len)
      /\ next_token' = 0 /\ pc' = "strtok"
      /\ UNCHANGED <<shellOf, args, i, end, said, stray>>

(* getlinek asks terminal_read for BUF - 1 characters.  A newline ends the *)
(* line and becomes its NUL; a longer line is cut, without one, and its    *)
(* rest read the next time.                                                *)
getlinek ==
  LET e == Skip(input, 1, {input[k] : k \in 1..Len(input)} \ {"\n"})
      len == IF e < BUF THEN e - 1 ELSE BUF - 1
  IN  /\ pc = "getline" /\ input # <<>>
      /\ cmd_buf' = [a \in 0..(BUF - 1) |->
                       IF a < len THEN input[a + 1]
                       ELSE IF a = len /\ e < BUF THEN NUL ELSE cmd_buf[a]]
      /\ input' = SubSeq(input, IF e < BUF THEN e + 1 ELSE BUF, Len(input))
      /\ line' = SubSeq(input, 1, len)
      /\ next_token' = 0 /\ pc' = "strtok"
      /\ UNCHANGED <<shellOf, args, i, end, said, stray>>

(* The loop at the beginning of run_cmd: a call of strtok, after the last  *)
(* argument one more.                                                      *)
tokenize ==
  LET r == strtok(cmd_buf, next_token, {" "}, BUF)
      more == r.token # NULL /\ Len(args) < ARGS
  IN  /\ pc = "strtok"
      /\ cmd_buf' = r.mem /\ next_token' = r.next
      /\ args' = IF more THEN Append(args, r.token) ELSE args
      /\ pc' = IF more THEN pc ELSE "run"
      /\ stray' = (stray \/ r.stray)
      /\ UNCHANGED <<shellOf, input, i, end, line, said>>

argc == Len(args)
Word(k) == StringAt(cmd_buf, args[k], BUF)
Unsigned(x) == x % WORD

-----------------------------------------------------------------------------
(* run_cmd, behind the loop.  The user's shell has fewer commands.         *)
KernelCommands == {"exit", "clear", "help", "heap", "mdmp", "ptwalk", "break",
                   "kinfo", "sd", "echo", "repeat", "color", "bgcolor"}
UserCommands == {"exit", "help", "mdmp", "break", "kinfo", "sd", "echo", "repeat"}

Known == IF shellOf = "kernel" THEN KernelCommands ELSE UserCommands

(* strcmp of the first token with the name of a command there is.          *)
Named(name) == argc > 0 /\ name \in Known /\ Word(1) = <<name>>

Stay == UNCHANGED <<shellOf, input, cmd_buf, next_token, args, line>>
Prompt(s, out) == pc' = "prompt" /\ said' = s /\ stray' = out /\ UNCHANGED <<i, end>>

(* An empty line has no token: the strcmps read from address 0, outside    *)
(* every buffer.  Either that faults, as the page may not be mapped or not *)
(* for the user, or what stands there (the BIOS keeps its interrupt table  *)
(* there) is taken to be no command.                                       *)
no_token ==
  /\ pc = "run" /\ argc = 0
  /\ pc' \in {"prompt", "fault"} /\ said' = <<>> /\ stray' = TRUE
  /\ Stay /\ UNCHANGED <<i, end>>

exit ==
  /\ pc = "run" /\ Named("exit")
  /\ pc' = "done"
  /\ Stay /\ UNCHANGED <<i, end, said, stray>>

(* The commands that only print or set a colour, an unknown or an empty    *)
(* one (a line that begins with a blank), and mdmp without its arguments.  *)
other_cmd ==
  /\ pc = "run" /\ argc > 0
  /\ ~ \E name \in {"exit", "ptwalk", "echo", "repeat"} : Named(name)
  /\ Named("mdmp") => argc < 3
  /\ Prompt(<<>>, stray)
  /\ Stay

Loop(command, from, to) ==
  /\ pc' = command /\ i' = from /\ end' = to
  /\ said' = <<>> /\ Stay /\ UNCHANGED stray

(* mdmp: size and address are numbers in any base. *)
mdmp ==
  /\ pc = "run" /\ Named("mdmp") /\ argc >= 3
  /\ Loop("mdmp", 0, Unsigned(strtol(Word(2), 0)))

dump_address == Unsigned(strtol(Word(3), 0))

(* What is said is kept up to a word's worth of entries. *)
Say(s) == said' = IF Len(said) < WORD THEN said \o s ELSE said

(* Mutant of dump_row: the last line is complete, too. *)
dump_row_Whole ==
  /\ pc = "mdmp" /\ i < end
  /\ Say([j \in 1..ROW |-> Unsigned(dump_address + i + j - 1)])
  /\ i' = Unsigned(i + ROW)
  /\ Stay /\ UNCHANGED <<pc, end, stray>>

(* The iteration of mdmp: a line of bytes, the last one incomplete. *)
dump_row ==
  /\ pc = "mdmp" /\ i < end
  /\ LET shown[j \in 0..ROW] ==
           IF j = 0 THEN <<>>
           ELSE IF Unsigned(i + j - 1) < end
           THEN Append(shown[j - 1], Unsigned(dump_address + i + j - 1))
           ELSE shown[j - 1]
     IN  Say(shown[ROW])
  /\ i' = Unsigned(i + ROW)
  /\ Stay /\ UNCHANGED <<pc, end, stray>>

dump_end == pc = "mdmp" /\ i >= end /\ Prompt(said, stray) /\ Stay

(* ptwalk: both arguments have defaults. *)
ptwalk ==
  /\ pc = "run" /\ Named("ptwalk")
  /\ Loop("ptwalk", IF argc > 1 THEN Unsigned(strtol(Word(2), 0)) ELSE 0,
                    IF argc > 2 THEN Unsigned(strtol(Word(3), 0)) ELSE DEFAULT_END)


(* Its iteration: a page, or a page table that is not present. *)
walk_page ==
  /\ pc = "ptwalk" /\ i <= end
  /\ Say(<<i>>)
  /\ i' = Unsigned(i + PAGE)
  /\ Stay /\ UNCHANGED <<pc, end, stray>>

walk_end == pc = "ptwalk" /\ i > end /\ Prompt(said, stray) /\ Stay

(* The words from the k-th on with a blank behind each, strcat by strcat,  *)
(* and the last blank cut off: str[strlen(str) - 1] = 0, which lies before *)
(* str if there are no words.                                              *)
Joined(k) ==
  LET text[a \in k..(argc + 1)] ==
        IF a > argc THEN <<>> ELSE Word(a) \o <<" ">> \o text[a + 1]
  IN  SubSeq(text[k], 1, Len(text[k]) - 1)

echo ==
  /\ pc = "run" /\ Named("echo")
  /\ Prompt(Joined(2), stray \/ argc < 2)
  /\ Stay

repeat ==
  /\ pc = "run" /\ Named("repeat")
  /\ IF argc > 1
     THEN /\ pc' = "repeat" /\ i' = 0 /\ end' = strtol(Word(2), 10)
          /\ said' = <<>> /\ stray' = (stray \/ argc < 3)
     ELSE Prompt(<<>>, stray)
  /\ Stay

repeat_print ==
  /\ pc = "repeat" /\ i < end
  /\ Say(<<Joined(3)>>)
  /\ i' = i + 1
  /\ Stay /\ UNCHANGED <<pc, end, stray>>

repeat_end == pc = "repeat" /\ i >= end /\ Prompt(said, stray) /\ Stay

run_cmd ==
  no_token \/ exit \/ other_cmd \/ mdmp \/ ptwalk \/ echo \/ repeat

run_loop ==
  dump_row \/ dump_end \/ walk_page \/ walk_end \/ repeat_print \/ repeat_end

(* The loop of shell, and of main in shall.c. *)
shell == prompt \/ getlinek \/ tokenize \/ run_cmd \/ run_loop

-----------------------------------------------------------------------------
Full == Len(line) = BUF - 1

(* The fields of the line, cut at single blanks; an empty field at the end *)
(* is none.                                                                *)
Blanks == {k \in 1..Len(line) : line[k] = " "}
Starts == {1} \cup {k + 1 : k \in Blanks}
Ends(s) == CHOOSE e \in s..(Len(line) + 1) :
             /\ e = Len(line) + 1 \/ e \in Blanks
             /\ \A k \in s..(e - 1) : k \notin Blanks
Fields == {s \in Starts : s <= Len(line)}

(* run_cmd works on the first ARGS fields of the line, in their order,     *)
(* although strtok cuts the line in place and remembers where it is in a   *)
(* static variable.  A line that fills the buffer has no end.              *)
TokensAreFields ==
  pc = "run" /\ ~ Full =>
    /\ \A k \in 1..argc :
         LET s == args[k] + 1
         IN  s \in Fields /\ Word(k) = SubSeq(line, s, Ends(s) - 1)
    /\ \A k \in 2..argc : args[k - 1] < args[k]
    /\ \A s \in Fields : \/ \E k \in 1..argc : s = args[k] + 1
                         \/ argc = ARGS /\ s > args[ARGS] + 1

(* Each byte asked for is dumped once and in order, and each page from the *)
(* first to the last one is looked at once.  Bounds within a row or a page *)
(* of the largest word are excepted: the loop variable wraps.              *)
LoopsCover ==
  /\ pc = "mdmp" /\ i >= end /\ end <= WORD - ROW =>
       said = [k \in 1..end |-> Unsigned(dump_address + k - 1)]
  /\ pc = "ptwalk" /\ i > end /\ end < WORD - PAGE =>
       /\ \A k \in 1..Len(said) : said[k] <= end
       /\ \A k \in 2..Len(said) : said[k] = said[k - 1] + PAGE
       /\ said # <<>> => said[Len(said)] + PAGE > end
  /\ pc = "repeat" /\ i >= end =>
       Len(said) = IF end < 0 THEN 0 ELSE end

(* Nothing outside the buffers is read or written, but for a line without  *)
(* an end, for an empty line, whose command is read through a null         *)
(* pointer, and for echo and repeat without words.                         *)
StraysExplained ==
  stray => \/ Full
           \/ line = <<>>
           \/ Named("echo") /\ argc = 1
           \/ Named("repeat") /\ argc = 2

=============================================================================
