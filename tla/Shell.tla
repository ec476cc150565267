------------------------------- MODULE Shell --------------------------------
(***************************************************************************)
(* The shell (apps/shell/shell.c) above fork(), exec() and the descriptors *)
(* of its process: redirections are opened, a built-in runs in the shell   *)
(* or a child is forked to exec() a program, and at the end of the line    *)
(* everything is put back.  When the shell itself is replaced, init        *)
(* (apps/init/init.c) starts another one after the program's end.          *)
(*                                                                         *)
(* A line is the sequence of its tokens: a word is its length, LESS and    *)
(* GREATER are the redirections (">" and ">>" differ in flags only).       *)
(***************************************************************************)
EXTENDS Exec

CONSTANTS
    SHELL_MAX_ARGS,
    WordLengths,      \* the lengths of the words typed
    MaxTokens         \* bound: tokens in a line

ASSUME ShellAssumption == /\ SHELL_MAX_ARGS \in Nat
                          /\ WordLengths \subseteq Nat \ {0}
                          /\ MaxTokens \in Nat

LESS    == 0
GREATER == -1
Token   == WordLengths \cup {LESS, GREATER}
Lines   == UNION {[1 .. n -> Token] : n \in 1 .. MaxTokens}

VARIABLES
    pc,               \* where the shell is
    args,             \* the tokens still to be looked at by apply_redirects()
    words,            \* the tokens kept
    in_fd, out_fd,    \* the redirections, -1 if none
    shell_stdin_fd, shell_stdout_fd,
    cat_fd,           \* the descriptor cmd_cat() reads
    failed,           \* apply_redirects() gave the line up
    entry_files       \* history: the shell's descriptors when the line came

shell_vars == <<pc, args, words, in_fd, out_fd, shell_stdin_fd, shell_stdout_fd, cat_fd, failed, entry_files>>
vars == <<vars_exec, shell_vars>>

ShellInit ==
    /\ pc = "prompt" /\ args = <<>> /\ words = <<>> /\ in_fd = -1 /\ out_fd = -1
    /\ shell_stdin_fd = 0 /\ shell_stdout_fd = 1 /\ cat_fd = -1 /\ failed = FALSE /\ entry_files = {}

Init == ExecInit /\ ShellInit

redirection == <<in_fd, out_fd>>
stdio == <<shell_stdin_fd, shell_stdout_fd>>

\* What execute_command() has read of its line; what a command leaves alone.
line_vars == <<args, words, redirection, stdio, failed, entry_files>>

\* execute_command() returns; its local variables are gone.
EndLine == pc' = "prompt" /\ args' = <<>> /\ words' = <<>> /\ in_fd' = -1 /\ out_fd' = -1 /\ cat_fd' = -1

-----------------------------------------------------------------------------
\* A line is entered; the tokenizer keeps the first SHELL_MAX_ARGS tokens.
ReadLine(line) ==
    /\ pc = "prompt"
    /\ args' = SubSeq(line, 1, Min({Len(line), SHELL_MAX_ARGS}))
    /\ failed' = FALSE /\ entry_files' = files["shell"]
    /\ pc' = "redirect"
    /\ UNCHANGED <<vars_exec, words, redirection, stdio, cat_fd>>

KeepWord ==
    /\ pc = "redirect" /\ args # <<>> /\ Head(args) > 0
    /\ words' = Append(words, Head(args))
    /\ args' = Tail(args)
    /\ UNCHANGED <<vars_exec, pc, redirection, stdio, cat_fd, failed, entry_files>>

\* The error returns of apply_redirects(): no file name, or it cannot be
\* opened.  Only a failed ">" closes the descriptor of an earlier "<".
RedirectFails ==
    /\ pc = "redirect" /\ args # <<>> /\ Head(args) <= 0
    /\ files' = IF Len(args) > 1 /\ Head(args) = GREATER
                THEN Closed("shell", {in_fd})
                ELSE files
    /\ EndLine /\ failed' = TRUE
    /\ UNCHANGED <<image, exec_vars, stdio, entry_files>>

\* Mutation of Redirect: the earlier descriptor is not closed.
RedirectKeepsEarlier(op) ==
    /\ pc = "redirect" /\ Len(args) > 1 /\ Head(args) = op
    /\ \E d \in FreeFd("shell") :
         /\ files' = Opened("shell", d)
         /\ in_fd' = IF op = LESS THEN d ELSE in_fd
         /\ out_fd' = IF op = LESS THEN out_fd ELSE d
    /\ args' = Tail(Tail(args))
    /\ UNCHANGED <<image, exec_vars, pc, words, stdio, cat_fd, failed, entry_files>>

\* A redirection is opened; an earlier one in the same direction is closed.
Redirect(op) ==
    /\ pc = "redirect" /\ Len(args) > 1 /\ Head(args) = op
    /\ \E d \in FreeFd("shell") :
         LET earlier == IF op = LESS THEN in_fd ELSE out_fd
         IN  /\ files' = [files EXCEPT !["shell"] = (@ \cup {d}) \ {earlier}]
             /\ in_fd' = IF op = LESS THEN d ELSE in_fd
             /\ out_fd' = IF op = LESS THEN out_fd ELSE d
    /\ args' = Tail(Tail(args))
    /\ UNCHANGED <<image, exec_vars, pc, words, stdio, cat_fd, failed, entry_files>>

\* A line of redirections only: they are closed again.
NoCommand ==
    /\ pc = "redirect" /\ args = <<>> /\ words = <<>>
    /\ files' = Closed("shell", {in_fd, out_fd})
    /\ EndLine
    /\ UNCHANGED <<image, exec_vars, stdio, failed, entry_files>>

\* The redirections take effect and the command is looked up.
Dispatch ==
    /\ pc = "redirect" /\ args = <<>> /\ words # <<>>
    /\ shell_stdin_fd' = IF in_fd >= 0 THEN in_fd ELSE shell_stdin_fd
    /\ shell_stdout_fd' = IF out_fd >= 0 THEN out_fd ELSE shell_stdout_fd
    /\ pc' \in {"builtin", "cmd_cat", "cmd_fork", "cmd_kill", "cmd_exec", "fork"}
    /\ UNCHANGED <<vars_exec, args, words, redirection, cat_fd, failed, entry_files>>

\* A built-in that waits for nothing and leaves the descriptors as they were
\* (cmd_write() closes what it opened on every path).
BuiltIn ==
    /\ pc = "builtin"
    /\ pc' = "out"
    /\ UNCHANGED <<vars_exec, line_vars, cat_fd>>

\* cat opens its argument or takes the redirected input, unless there is
\* neither or it cannot be opened.  What it reads is a file or /dev/tty.
CmdCat ==
    /\ pc = "cmd_cat"
    /\ \/ pc' = "out" /\ (Len(words) >= 2 \/ shell_stdin_fd <= 2) /\ UNCHANGED <<files, cat_fd>>
       \/ /\ pc' \in {"cat", "cat_tty"}
          /\ \/ /\ Len(words) >= 2
                /\ \E d \in FreeFd("shell") : files' = Opened("shell", d) /\ cat_fd' = d
             \/ Len(words) < 2 /\ shell_stdin_fd > 2 /\ cat_fd' = shell_stdin_fd /\ UNCHANGED files
    /\ UNCHANGED <<image, exec_vars, line_vars>>

\* A read returns nothing: the file is at its end, or another process has
\* taken the byte that tty_read() was woken for.
CatEnds(from) ==
    /\ pc = from /\ pc' = "out" /\ cat_fd' = -1
    /\ files' = IF Len(words) >= 2 THEN Closed("shell", {cat_fd}) ELSE files
    /\ UNCHANGED <<image, exec_vars, line_vars>>

\* The built-ins fork and crash: fork() fails, or the child gets a copy of
\* memory and descriptors, ends at once, and the shell waits for it.
CmdFork ==
    /\ pc = "cmd_fork"
    /\ \/ pc' = "out" /\ UNCHANGED files
       \/ pc' = "cmd_wait" /\ files' = [files EXCEPT !["child"] = files["shell"]]
    /\ UNCHANGED <<image, exec_vars, line_vars, cat_fd>>

\* The built-in kill: nothing is killed, or the victim was a child and wait()
\* reaps it; or it was not, and wait() blocks although no child is left.
CmdKill ==
    /\ pc = "cmd_kill"
    /\ \/ pc' = "out"
       \/ Len(words) >= 2 /\ pc' = "kill_wait"
    /\ UNCHANGED <<vars_exec, line_vars, cat_fd>>

\* That wait() ends only if a child of the process that had the shell's pid
\* before it exits.
StrayChild ==
    /\ pc = "kill_wait" /\ pc' \in {"kill_wait", "out"}
    /\ UNCHANGED <<vars_exec, line_vars, cat_fd>>

\* cat writes the bytes that are typed.
CatTty == pc = "cat_tty" /\ UNCHANGED vars

\* The built-in exec: without a second word it only prints its usage.  Its
\* path lies in the line buffer.
CmdExec ==
    /\ pc = "cmd_exec"
    /\ \/ Len(words) < 2 /\ pc' = "out" /\ UNCHANGED vars_exec
       \/ Len(words) >= 2 /\ ExecCall("shell", <<>>, TRUE) /\ pc' = "execing"
    /\ UNCHANGED <<line_vars, cat_fd>>

\* fork() fails, or the child gets a copy of memory and descriptors.  A
\* command without "/" is first tried under /bin, a path built on the stack.
Fork ==
    /\ pc = "fork"
    /\ \/ pc' = "out" /\ UNCHANGED <<files, image>>
       \/ /\ pc' \in {"bin", "plain"}
          /\ files' = [files EXCEPT !["child"] = files["shell"]]
          /\ image' = [image EXCEPT !["child"] = "old"]
    /\ UNCHANGED <<exec_vars, line_vars, cat_fd>>

\* The child calls exec() with the words of the line.
ChildExec ==
    /\ \/ pc = "bin" /\ ExecCall("child", words, FALSE)
       \/ pc = "plain" /\ ExecCall("child", words, TRUE)
    /\ pc' = IF pc = "bin" THEN "bin_wait" ELSE "wait"
    /\ UNCHANGED <<line_vars, cat_fd>>

\* exec() under /bin has failed and the child's program is intact.
ChildRetries ==
    /\ pc = "bin_wait" /\ at = "failed" /\ image["child"] = "old"
    /\ pc' = "plain" /\ ExecLeft
    /\ UNCHANGED <<files, image, line_vars, cat_fd>>

\* Mutation of ChildExits: a child whose exec() fails does not exit.
ChildExitsNew ==
    /\ \/ pc \in {"bin_wait", "wait"} /\ at = "started"
       \/ pc = "cmd_wait"
    /\ pc' = "out" /\ ExecLeft
    /\ files' = [files EXCEPT !["child"] = {}]
    /\ image' = [image EXCEPT !["child"] = "old"]
    /\ UNCHANGED <<line_vars, cat_fd>>

\* The child exits: from its new program, after the last exec() has failed,
\* because it returned into memory that is overwritten, or as the child of
\* fork and crash does.  wait() returns.
ChildExits ==
    /\ \/ pc \in {"bin_wait", "wait"} /\ at = "started"
       \/ pc = "wait" /\ at = "failed"
       \/ pc = "bin_wait" /\ at = "failed" /\ image["child"] = "partial"
       \/ pc = "cmd_wait"
    /\ pc' = "out" /\ ExecLeft
    /\ files' = [files EXCEPT !["child"] = {}]
    /\ image' = [image EXCEPT !["child"] = "old"]
    /\ UNCHANGED <<line_vars, cat_fd>>

\* The built-in exec comes back with an error.
ExecReturns ==
    /\ pc = "execing" /\ at = "failed" /\ image["shell"] = "old"
    /\ pc' = "out" /\ ExecLeft
    /\ UNCHANGED <<files, image, line_vars, cat_fd>>

\* The shell's program is replaced or overwritten.  Its process ends some time
\* later and init starts a shell.
Respawn ==
    /\ pc = "execing" /\ image["shell"] # "old" /\ at \in {"started", "failed"}
    /\ ExecLeft
    /\ files' = [p \in Process |-> {}] /\ image' = [p \in Process |-> "old"]
    /\ EndLine /\ shell_stdin_fd' = 0 /\ shell_stdout_fd' = 1
    /\ failed' = FALSE /\ entry_files' = {}

EndOfLine ==
    /\ pc = "out"
    /\ shell_stdin_fd' = 0 /\ shell_stdout_fd' = 1
    /\ files' = Closed("shell", {in_fd, out_fd})
    /\ EndLine
    /\ UNCHANGED <<image, exec_vars, failed, entry_files>>

Parsing == KeepWord \/ RedirectFails \/ Redirect(LESS) \/ Redirect(GREATER) \/ NoCommand \/ Dispatch
Running == \/ BuiltIn \/ CmdCat \/ CatEnds("cat") \/ CmdFork \/ CmdKill \/ CmdExec \/ Fork \/ ChildExec \/ ChildRetries \/ ChildExits
           \/ ExecReturns \/ Respawn \/ EndOfLine \/ (ExecStep /\ UNCHANGED shell_vars)

\* Nothing makes these steps happen.
Endless == CatTty \/ CatEnds("cat_tty") \/ StrayChild

Next == (\E line \in Lines : ReadLine(line)) \/ Parsing \/ Running \/ Endless

Spec == Init /\ [][Next]_vars
FairSpec == Spec /\ WF_vars(Parsing \/ Running)

-----------------------------------------------------------------------------
(* Properties *)

\* do_exec() gives back both descriptors on every path: when it returns, into
\* the old program or the new one, the process has those the shell had when
\* the line came and the redirections, in the child by inheritance.
ExecBalanced ==
    at \in {"failed", "started"} => files[self] = entry_files \cup ({in_fd, out_fd} \ {-1})

\* Standard input and output of a built-in are open descriptors, whatever
\* redirections came before on the line.
StdioOpen ==
    /\ shell_stdin_fd = 0 \/ shell_stdin_fd \in files["shell"]
    /\ shell_stdout_fd = 1 \/ shell_stdout_fd \in files["shell"]

\* A line that apply_redirects() accepts costs the shell no descriptor,
\* whatever the command does or fails to do.
LineCostsNoFd == pc = "prompt" /\ ~failed => files["shell"] = entry_files

\* The descriptors of shell and child are the ones the line calls for.
DescriptorsKept == ExecBalanced /\ StdioOpen /\ LineCostsNoFd

\* The new program finds in argv the words of the line, in order, although
\* they are copied twice and the null pointer ends the array; and however long
\* the words, which are never empty, snapshot_argv() stays inside argv_kbuf.
ArgvDelivered ==
    /\ Len(argv_kbuf) <= USER_ARGV_STRS_SZ
    /\ at = "started" /\ self = "child"
       => /\ area.argc = Len(words)
          /\ \A k \in 1 .. area.argc : StringAt(area.strs, area.ptrs[k]) = Bytes(k, words[k])

\* The shell comes back to its prompt if the programs it starts end, whatever
\* fails on the way, with two exceptions: kill of a process that is no child of
\* the shell, after which cmd_kill() waits for a child all the same (commands.c
\* says "Reap if the target was one of our children"), and cat of /dev/tty,
\* which reads as long as somebody types.
PromptReturns == (pc # "prompt") ~> (pc \in {"prompt", "kill_wait", "cat_tty"})

\* shell.c: the "child replaces its image on success", so it is intact when
\* exec() fails.
FailureKeepsImage == at = "failed" => image[self] = "old"
=============================================================================
