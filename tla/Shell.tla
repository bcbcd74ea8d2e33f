------------------------------- MODULE Shell -------------------------------
(***************************************************************************)
(* The command interpreter of src/shell/shell.c: shell_init, the argument *)
(* splitter shell_parse_args, and shell_execute_command with the handlers  *)
(* that change state or fail to return.                                    *)
(*                                                                         *)
(* A command line is a sequence of characters over a small alphabet;      *)
(* command names are single letters standing for the entries of the       *)
(* commands[] table (CommandNames).  What a handler only prints is left   *)
(* out.  cd, ls and cat look names up with fs_finddir(fs_root, path),      *)
(* which recurses forever on a directory (module Vfs, FsFinddir).          *)
(*                                                                         *)
(* shell_run reads its lines with terminal_read_line, which never returns *)
(* (Terminal.TerminalReadLine), and kernel_main never calls shell_init;    *)
(* shell_execute_command is the public entry point modelled here, called  *)
(* by any caller.                                                          *)
(***************************************************************************)
EXTENDS Vfs, SequencesExt

CONSTANTS
  MaxArgs,       \* the max_args shell_execute_command passes, and the size of its argv (64)
  Lines,         \* command lines passed to shell_execute_command
  CommandNames   \* commands[].name: the word naming each command

Blanks == {" ", "\t"}
Quotes == {"\"", "'"}
NUL == "nul"            \* the '\0' shell_parse_args writes
NoQuote == "none"       \* quote_char = 0

(* shell_status_t                                                          *)
SHELL_OK == 0
SHELL_ERROR_COMMAND_NOT_FOUND == 1
SHELL_ERROR_INVALID_ARGUMENTS == 2
SHELL_EXIT == 5

RootPath == <<"/">>
DotDot == <<".", ".">>

VARIABLES
  current_dir,   \* shell_ctx.current_dir
  shell_ret,     \* history: the status the last shell_execute_command returned
  shell_parsed   \* history: the last line and the argv shell_parse_args made of it

shellVars == <<current_dir, shell_ret, shell_parsed>>

-----------------------------------------------------------------------------
(* Mutant of ParseStep: a blank ends the argument without writing the    *)
(* '\0' over it.                                                          *)
ParseStepNoTerminate(st) ==
  LET c == st.line[st.i] IN
  CASE c \in Quotes /\ ~st.in_quote ->
         [st EXCEPT !.in_quote = TRUE, !.quote_char = c, !.in_arg = TRUE,
                    !.argv = IF st.in_arg THEN @ ELSE Append(@, st.i + 1),
                    !.i = @ + 1]
    [] st.in_quote /\ c = st.quote_char ->
         [st EXCEPT !.in_quote = FALSE, !.quote_char = NoQuote,
                    !.line[st.i] = NUL, !.i = @ + 1]
    [] c \in Blanks /\ ~st.in_quote ->
         [st EXCEPT !.in_arg = FALSE, !.i = @ + 1]
    [] OTHER ->
         [st EXCEPT !.argv = IF st.in_arg THEN @ ELSE Append(@, st.i),
                    !.in_arg = TRUE, !.i = @ + 1]

(* One iteration of shell_parse_args's loop on command_line[i].  The      *)
(* state is the loop's locals, the buffer with the '\0's written so far,   *)
(* and the argv entries as indices into it.                                *)
ParseStep(st) ==
  LET c == st.line[st.i] IN
  CASE c \in Quotes /\ ~st.in_quote ->
         [st EXCEPT !.in_quote = TRUE, !.quote_char = c, !.in_arg = TRUE,
                    !.argv = IF st.in_arg THEN @ ELSE Append(@, st.i + 1),
                    !.i = @ + 1]
    [] st.in_quote /\ c = st.quote_char ->
         [st EXCEPT !.in_quote = FALSE, !.quote_char = NoQuote,
                    !.line[st.i] = NUL, !.i = @ + 1]
    [] c \in Blanks /\ ~st.in_quote ->
         [st EXCEPT !.line[st.i] = IF st.in_arg THEN NUL ELSE @,
                    !.in_arg = FALSE, !.i = @ + 1]
    [] OTHER ->
         [st EXCEPT !.argv = IF st.in_arg THEN @ ELSE Append(@, st.i),
                    !.in_arg = TRUE, !.i = @ + 1]

(* while (command_line[i] != '\0' && argc < max_args)                      *)
RECURSIVE ParseLoop(_, _)
ParseLoop(st, max) ==
  IF st.i > Len(st.line) \/ Len(st.argv) >= max THEN st
  ELSE ParseLoop(ParseStep(st), max)

(* The string an argv entry points to: up to the first '\0' or the end.   *)
StringAt(buf, s) ==
  LET nuls == {j \in s .. Len(buf) : buf[j] = NUL}
  IN SubSeq(buf, s, IF nuls = {} THEN Len(buf) ELSE Min(nuls) - 1)

(* shell_parse_args(line, argv, max): the argument strings, and whether    *)
(* argv[argc] = NULL lands at argv[max], one past an argv of max entries. *)
ParseArgs(line, max) ==
  LET st == ParseLoop([i |-> 1, line |-> line, argv |-> <<>>, in_quote |-> FALSE,
                       in_arg |-> FALSE, quote_char |-> NoQuote], max)
  IN [args |-> [k \in 1 .. Len(st.argv) |-> StringAt(st.line, st.argv[k])],
      nullPastEnd |-> Len(st.argv) = max]

-----------------------------------------------------------------------------
(* The handler commands[] gives a word, by str_compare equality.          *)
IsCommand(w) == \E h \in DOMAIN CommandNames : CommandNames[h] = w
HandlerOf(w) == CHOOSE h \in DOMAIN CommandNames : CommandNames[h] = w

(* fs_finddir(fs_root, path): NULL without a root; the name is not read   *)
(* before the call recurses.                                              *)
FinddirRoot == IF fs_root = NoNode THEN NoNode ELSE FsFinddir(fs_root)

Outcome(ret, dir) == [ret |-> ret, dir |-> dir]

(* cmd_cd's "..": cut current_dir at its last '/', or make it "/" when     *)
(* that is the first character; unchanged without a '/'.                  *)
ParentDir(d) ==
  LET slashes == {k \in 1 .. Len(d) : d[k] = "/"} IN
  IF slashes = {} THEN d
  ELSE IF Max(slashes) = 1 THEN RootPath ELSE SubSeq(d, 1, Max(slashes) - 1)

(* The node cmd_cd, cmd_ls and cmd_cat act on, and the failures of its   *)
(* lookup: INVALID_ARGUMENTS for NULL or the wrong type.                  *)
Looked(node, type, ok) ==
  CASE node = Overflow -> Outcome(Overflow, current_dir)
    [] node = NoNode -> Outcome(SHELL_ERROR_INVALID_ARGUMENTS, current_dir)
    [] ntype[node] # type -> Outcome(SHELL_ERROR_INVALID_ARGUMENTS, current_dir)
    [] OTHER -> ok

CmdCd(argv) ==
  CASE Len(argv) < 2 \/ argv[2] = RootPath -> Outcome(SHELL_OK, RootPath)
    [] argv[2] = DotDot -> Outcome(SHELL_OK, ParentDir(current_dir))
    [] OTHER -> Looked(FinddirRoot, "dir", Outcome(SHELL_OK, argv[2]))

CmdLs(argv) ==
  LET path == IF Len(argv) > 1 THEN argv[2] ELSE current_dir
      node == IF path = RootPath THEN fs_root ELSE FinddirRoot
  IN Looked(node, "dir", Outcome(SHELL_OK, current_dir))

(* cmd_cat on a file calls fs_open, which recurses into node->open.       *)
CmdCat(argv) ==
  IF Len(argv) < 2 THEN Outcome(SHELL_ERROR_INVALID_ARGUMENTS, current_dir)
  ELSE Looked(FinddirRoot, "file", Outcome(Overflow, current_dir))

CmdHelp(argv) ==
  IF Len(argv) = 1 \/ IsCommand(argv[2]) THEN Outcome(SHELL_OK, current_dir)
  ELSE Outcome(SHELL_ERROR_COMMAND_NOT_FOUND, current_dir)

(* cmd_ps walks process_list until NULL, which the list process_init and  *)
(* process_create build ends in, printing each PCB: it returns SHELL_OK.   *)
CmdPs == {Outcome(SHELL_OK, current_dir)}

(* What handler h may return on argv: exit asks to leave, and clear, echo, *)
(* version, uptime and meminfo only print.                                 *)
Run(h, argv) ==
  CASE h = "cd" -> {CmdCd(argv)}
    [] h = "ls" -> {CmdLs(argv)}
    [] h = "cat" -> {CmdCat(argv)}
    [] h = "help" -> {CmdHelp(argv)}
    [] h = "exit" -> {Outcome(SHELL_EXIT, current_dir)}
    [] h = "ps" -> CmdPs
    [] OTHER -> {Outcome(SHELL_OK, current_dir)}

(* shell_execute_command: parse a copy of the line (str_copy keeps up to   *)
(* 255 characters; the lines are shorter), OK for no arguments, else the *)
(* first table entry named argv[0], or COMMAND_NOT_FOUND.                  *)
Execute(line) ==
  LET argv == ParseArgs(line, MaxArgs).args IN
  IF argv = <<>> THEN {Outcome(SHELL_OK, current_dir)}
  ELSE IF IsCommand(argv[1]) THEN Run(HandlerOf(argv[1]), argv)
  ELSE {Outcome(SHELL_ERROR_COMMAND_NOT_FOUND, current_dir)}

-----------------------------------------------------------------------------
NoParse == [line |-> <<>>, args |-> <<>>]

(* The static shell_ctx is zero: current_dir is the empty string.         *)
ShellInitState ==
  /\ current_dir = <<>>
  /\ shell_ret = SHELL_OK
  /\ shell_parsed = NoParse

(* shell_init: current_dir = "/"; the flags, names, last_command and      *)
(* exit_code it also sets are read by nothing shell_execute_command runs,  *)
(* and keyboard_connect_terminal has an empty body.                        *)
ShellInit ==
  /\ sys = "running"
  /\ current_dir' = RootPath
  /\ UNCHANGED <<shell_ret, shell_parsed, vfsVars>>

(* shell_execute_command(line) from a caller, while no earlier call is    *)
(* stuck: one outcome, its new current_dir, and sys = Overflow when it    *)
(* recursed away.                                                          *)
ShellExecuteCommand(line) ==
  /\ sys = "running"
  /\ \E o \in Execute(line) :
       /\ shell_ret' = o.ret
       /\ current_dir' = o.dir
       /\ sys' = IF o.ret = Overflow THEN Overflow ELSE sys
  /\ shell_parsed' = [line |-> line, args |-> ParseArgs(line, MaxArgs).args]
  /\ UNCHANGED <<fs_root, alive, ntype, parent, nxt, children, target>>

ShellNext ==
  \/ ShellInit
  \/ \E line \in Lines : ShellExecuteCommand(line)

-----------------------------------------------------------------------------
(* The characters of the command lines.                                   *)
LineChars == UNION {Range(l) : l \in Lines}

ShellTypeOK ==
  /\ \A k \in 1 .. Len(current_dir) : current_dir[k] \in LineChars
  /\ shell_ret \in {SHELL_OK, SHELL_ERROR_COMMAND_NOT_FOUND,
                    SHELL_ERROR_INVALID_ARGUMENTS, SHELL_EXIT, Overflow}
  /\ shell_parsed.line \in Lines \cup {<<>>}
  /\ \A a \in Range(shell_parsed.args) : Range(a) \subseteq LineChars

(* Reference tokenizer for a line without quotes: the maximal runs of     *)
(* non-blanks, in order; once max of them have started, the last one      *)
(* runs to the end of the line.                                            *)
WordStarts(line) ==
  {k \in 1 .. Len(line) : line[k] \notin Blanks /\ (k = 1 \/ line[k - 1] \in Blanks)}

WordFrom(line, s) ==
  LET ends == {j \in s .. Len(line) : line[j] \in Blanks}
  IN SubSeq(line, s, IF ends = {} THEN Len(line) ELSE Min(ends) - 1)

Words(line, max) ==
  LET ss == SetToSortSeq(WordStarts(line), <)
      n == IF Len(ss) < max THEN Len(ss) ELSE max
  IN [k \in 1 .. n |-> IF k = max THEN SubSeq(line, ss[k], Len(line))
                                   ELSE WordFrom(line, ss[k])]

(* A line that is one quoted string.                                      *)
QuotedWhole(line) ==
  \E q \in Quotes :
    /\ Len(line) >= 2 /\ line[1] = q /\ line[Len(line)] = q
    /\ \A k \in 2 .. Len(line) - 1 : line[k] # q

(* shell_parse_args, which cuts the buffer in place with '\0's and keeps  *)
(* quote and argument flags, gives the argv a tokenizer by words would:   *)
(* blank-separated words for a line without quotes, the max-th taking the *)
(* rest of the line, and the text between the quotes for a quoted line.  *)
ParseArgsSplitsWords ==
  LET l == shell_parsed.line
      a == shell_parsed.args
  IN /\ (\A k \in 1 .. Len(l) : l[k] \notin Quotes) => a = Words(l, MaxArgs)
     /\ QuotedWhole(l) => a = <<SubSeq(l, 2, Len(l) - 1)>>

(* shell_parse_args ends with argv[argc] = NULL, and shell_execute_command *)
(* passes max_args = 64 with char* argv[64]: the NULL stays inside argv    *)
(* only while a line makes fewer than max_args arguments.                  *)
ArgvNullWithinArgv == Len(shell_parsed.args) < MaxArgs
=============================================================================
