# TLA+ models of GNV bash

This directory holds formal models of the OpenVMS port of GNU bash (GNV bash):
`src/reference/bash` is bash 5.2 with its C sources changed here and there to C++,
`src/vms_source/bash` is what the port adds.  Each model is a TLA+ module written
from the C code, checked with TLC on small instances, and, where stated, proved for
every instance with TLAPS.  The paths below are relative to `src/reference/bash`
unless they begin with `vms_`, which are in `src/vms_source/bash`.

Contents: 1 inventory, 2 plan, 3 the modules, 4 the runs, 5 what the checks found,
6 bounds, 7 fairness, 8 proofs, 9 what is not modelled.

## 1. Inventory

bash is one process with one thread.  What makes it hard is what happens around that
thread: signals, ASTs (the VMS word for callbacks the kernel runs in the process),
children that end when they like, and longjmps out of the middle of anything.

| Component | State | Operations | Hard behaviour |
|---|---|---|---|
| FIFO pipes, `vms_vm_pipe.c` | one context per pipe: three status words, a chain of buffers, the record being written, two channels | `install_fifo`; ASTs `vms_read_mbx_ast`, `vms_write_mbx_ast`, `check_if_child_is_alive_ast`, `vms_watch_child_ast` | three chains of callbacks over one structure that one of them frees; children that die; requests the system refuses |
| Job control, `jobs.c` (not in the VMS build) | the array `jobs`, the indices of its first, last, current and previous job, `the_pipeline`, `bgpids`, the count of SIGCHLDs | `make_child`, `stop_pipeline`, `waitchld`, the waits, `start_job`, `kill_pid`, `delete_job`, `mark_dead_jobs_as_notified`, `realloc_jobs_list` | the SIGCHLD handler and the waits reap into one table; jobs stop and go on; the array is compacted under indices kept elsewhere |
| Child processes, `nojobs.c` (the VMS build) | `pid_list`, `last_made_pid`, `last_asynchronous_pid`, `already_making_children` | `make_child`, `wait_for`, `wait_for_single_pid`, `wait_for_background_pids`, `reap_dead_jobs`, `cleanup_dead_jobs` | children end in any order and at any moment; pids come back; `waitpid` fails; a signal leaves a wait by longjmp |
| Traps and signals, `trap.c`, `sig.c`, `quit.h` | `sigmodes`, `trap_list`, `original_signals`, `pending_traps`, `catch_flag`, `running_trap`, `interrupt_state`, `terminating_signal`, the kernel's dispositions | `trap_handler`, `run_pending_traps`, `_run_trap_internal`, the trap builtin, `throw_to_top_level`, `termsig_handler`, `run_exit_trap`, the reset in subshells | signals between any two steps; traps that change traps; returns and throws out of traps |
| Unwind stack, `unwind_prot.c` | a list of tags, saved variables and cleanups | begin, add, protect, run, discard | a longjmp that skips the end of several activations |
| Buffered input, `input.c` | one buffer per descriptor, some of them shared; which descriptor the script is on | fill, get, unget, sync, duplicate, save, close, `push_stream`, `pop_stream` | a child and the shell share a file offset; `exec` moves the script's descriptor |
| Terminal I/O, `vms_terminal_io.c` | a table of descriptor states | wrappers of open, dup2, close, tcgetattr, tcsetattr | an entry that outlives its descriptor |
| Redirections, `redir.c` | the two undo lists, the descriptor table | `do_redirections`, `add_undo_redirect`, `cleanup_redirects`, exec | a failure half-way; descriptors saved in the table that bodies redirect |
| Variables, `variables.c` | a chain of contexts of hash tables, the temporary environment, the environment array and `array_needs_making` | push, pop, bind, find, `make_local_variable`, `makunbound`, temporary environments, `maybe_make_export_env` | variables that hide each other and are handed from scope to scope; cached strings |
| Hash tables `hashlib.c`, arrays `array.c`, aliases `alias.c` | buckets; a ring with a cached position | insert, remove, find, grow | the cached position after a removal |
| Execution, parser, expansions, builtins | the C stack and global flags | the tree walk | data-driven recursion over text |
| readline, glob, regex, malloc, iconv wrapper | | | libraries, vendored, or not linked |

How they interact.  `execute_command_internal` looks at the marks that signal
handlers left (`QUIT; run_pending_traps ()`, `execute_cmd.c:559`) before each command,
forks with `make_child` (`nojobs.c`) and waits with `wait_for`, which installs its own
SIGINT handler and puts the old one back.  A trap's command is run by
`parse_and_execute`, so the whole interpreter runs inside the trap code, and
`return`, `exit` and SIGINT leave it by longjmp, over frames of `unwind_prot.c`.
A child takes the traps of its parent along and resets them
(`execute_in_subshell`).  The reader of the script and the redirections share the
descriptor table: before a redirection of the descriptor the script is on,
`check_bash_input` moves the script elsewhere, and before a fork `make_child` seeks back
over what was read ahead.  The assignments before a command are the temporary
environment, which `push_scope` and `push_context` make a context of the variables.  On VMS a pipe between two commands is a FIFO of
`vms_vm_pipe.c`, driven by ASTs in the shell whatever the main line is doing.

What makes each component correct:

* FIFO pipes: what goes in comes out, once and in order; no request of a chain while
  another of it is outstanding; nothing touches the context after it is freed; nothing
  waits for ever.
* Children: the table tells the truth about what was reaped, each wait returns its own
  child's status, the shell never goes past a foreground command, a status is dropped
  only for the limit `CHILD_MAX`, and waits end.
* Traps: a trapped signal leads to its trap; the handlers installed are the ones the
  tables speak of; a trap's marks are cleaned up however it is left; signals ignored at
  entry stay so; the EXIT trap runs once, in the shell that set it.
* Unwinding: whatever a longjmp skips, the outer call finds its own counters and jump
  buffers again, no longjmp goes to a call that is over, and frames match calls.
* Buffered input: every line of the script is read once, by the shell or by a child.
* Redirections: a command that is over leaves every descriptor as it found it.
* Variables: the chain of tables means what dynamic scoping says, and children get the
  values of now.
* Job control: the array agrees with the kernel, no status that may be asked for is lost,
  and every wait is answered truthfully and ends.

The full list of hazards, each at its line with the properties that watch it, or the reason why none does, is
`hazards` in `PROJECT.json`.

## 2. Plan

| Order | Modules | Composes | Abstract specification | Runs and bounds | Theorems |
|---|---|---|---|---|---|
| 1, done | `Fifo`, `VmsPipe`, `MCVmsPipe`, `VmsPipe_proofs` | the three AST chains, kernel services, processes | `Fifo`: a sequence of sent records of which a prefix is delivered | 1 or 2 children, 3 records | every safety property, and the refinement when SYS$QIO does not fail: done |
| 2, done | `Nojobs`, `MCNojobs`, `Nojobs_proofs` | table and kernel | | 2 or 3 pids, up to 4 forks | typing, `RunningMeansUnreaped`; the other safety properties when pids do not come back: done |
| 3, done | `Traps`, `MCTraps`, `Traps_proofs` | tables, handlers, nested commands, subshells | | 2 signals, DEBUG and ERR, 3 of each event | every safety property of the runs: done |
| 4, done | `UnwindProt`, `Unwinding`, `MCUnwinding`, `Unwinding_proofs` | calls, jumps and the list of frames | the C stack itself: the values at a call's entry are those at its end (`ScopesRestored`) | 3 nested calls | every property, where FUNCNEST is exceeded in a string: done |
| 5, done | `LineStream`, `BufferedInput`, `Redirections`, `MCRedirections`, `Redirections_proofs` | the shell's streams, the descriptor table, commands with redirections | `LineStream`: lines handed out once, in order | 11 descriptors, 3 lines, 3 commands | typing, and `StreamsInPlace` of `ScriptStaysReadable`: done |
| 6, done | `JobsTable`, `Jobs`, `MCJobs`, `JobsTable_proofs`, `Jobs_proofs` | the array, the kernel's processes, handler and waits | | 2 pids, 3 forks, 1 stop | every safety property: done |
| 7, done | `DynamicScope`, `Variables`, `MCVariables`, `Variables_proofs` | the chain of tables | `DynamicScope`: frames that hide each other | 2 names, 2 values, 3 contexts | typing, `ContextsTrue` and `EnvTrue`: done |
| 8 | hash table, array, directory stack, history | | finite maps; sequences | small | the representation invariants |
| 9 | children and traps together | `Nojobs` and `Traps` around `wait_for` | | 2 pids, 2 signals | |

`RECURSIVE` is used in no module.

## 3. The modules

### Fifo and VmsPipe

`Fifo` says what a pipe promises: `Put` appends to `sent`, `Get` takes the next one to
`delivered`.  `VmsPipe` has one record `fifo` for `struct vms_mbx` (the comments on
`FifoState` name the field each component stands for) together with the kernel objects
it uses: the two channels, the requests outstanding, the ASTs posted, the unread
records of the first mailbox; its `direction` says which end is the shell's, and
constant `Directions` which ones an instance considers.  Handlers are operators from a context to a context,
composed as the C functions call each other: `ReadMbx` is `vms_read_mbx_ast`, which
calls `StartChildWatcher` and `WriteMbx`.  The actions `RunReadAst`, `RunWriteAst`,
`RunJpiAst` and `RunTimerAst` each run one posted AST to its end: VMS serialises the
ASTs of a process, so handlers are atomic with respect to each other and to the
shell's main line, and everything else interleaves.  `WriteRecord`, `CloseWriter`,
`ReadRecord`, `CloseReader` and `Exit` are the processes at the ends, through the C
run-time library; they are external.  Closing a pipe's end writes an end-of-file mark.

Abstractions: allocation failure and mailboxes that are too small call `LIB$STOP`,
after which there is no state; the initial requests of `install_fifo` succeed.
`cleanup_fifo` has no caller.  The object file is not in the link list of `bash.mms`
at this commit; the module models the file as it is written.

### Nojobs

`pidList` is the array `pid_list`, a sequence that `AllocPidList` grows;
`FindIndex` is the linear search that returns the first match, which matters when a pid
occurs twice.  `at` is where the shell's one thread is: between commands, between two
forks of a pipeline, reading a command substitution's output, or inside one of the
waits.  A child is `none`, `running`, `zombie` or `reaped` in the kernel (`proc`), and
`ChildEnds` may happen before any step; `noZombies` says that the shell was started
with SIGCHLD ignored, so that a child that ends is gone at once.  Every reap goes through `Reap` and
`SetPidStatus`.  `WaitForOther` and `WaitForDone` are the turns of the loop in
`wait_for`, `WaitForNobody` its exit when `waitpid` fails.  `WaitTrapped` is
`CHECK_WAIT_INTR`, which leaves the wait builtin by longjmp.  `PipelineCommand`,
`EndOfPipeline`, `CommandSubstitution` and `OutputRead` are the statements of
`execute_cmd.c` and `subst.c` that use the table.  The history variables `result`,
`owed` and `claimed` record what a property needs to look back at and are read by
no action.

### Traps

The tables are functions over trap numbers, numbered as in the code.  `disp` is the
kernel's disposition of each signal, `orig` what `original_signals` has recorded of it
("unknown" is `IMPOSSIBLE_TRAP_HANDLER`).  `Receive` is the delivery of one signal: it
does what the installed handler does.  It is enabled between any two steps.

The C stack is `stack`, with one record per call that has something to do when it is
left: `pending` for `run_pending_traps` (with the signal its loop has come to), `trap`
for `_run_trap_internal` and, as `exit`, for `run_exit_trap` (with the values they put
back), `function`, and `throw` and `termsig` for a `throw_to_top_level` and a
`termsig_handler` that run the SIGINT trap first.  Commands of all depths are the same actions; each command begins with
`Check`, the look at the marks, and acts afterwards, so a signal can fall between the
two.  `Return` is the longjmp of `return`, and `ThrowToTopLevel` that of SIGINT; both
drop frames and do to the tables what the code they pass over or land in does.

`shell` is the shell an instance is about, chosen from `Shells` in `Init`: whether it is
interactive, which signals were ignored when it started, whether SIGINT is among the
signals, and which of functions, waits and subshells its commands use.

`env` follows a child from `Fork` (`SUBSHELL_IGNTRAP`) through `EnterSubshell`
(`execute_in_subshell` has assigned `subshell_environment`; `async` is the child of an
asynchronous command) to `ExecuteInSubshell`
(handlers reset, strings kept) and `FreeTrapStrings` (the child's first trap command), or,
when a signal is found before the reset, to `dying`.  `xhandler` is what
`initialize_terminating_signals` found installed and `reset_terminating_signals` puts back.

`waiting` is true from the installation of `wait_sigint_handler` in `wait_for` until the wait
is over.  `WaitDone` and `WaitInterrupted` put `old_sigint_handler` back;
`WaitTerminated` is `CHECK_TERMSIG` (`nojobs.c:819`, `:846`), which comes before that and
runs the EXIT trap, whose commands may wait in turn.

Abstractions: a trap's command is "some commands", the trap builtin sets one trap at a
time; all signals are of the terminating kind; the RETURN trap, SIGCHLD traps
(job control only), the special case of SIGWINCH and the nesting limit `evalnest_max`
are left out.  Waits are foreground waits.

### UnwindProt and Unwinding

`UnwindProt` is the list as pure operators on a record `[list, vars]`: `Begin` is
`begin_unwind_frame` with the `unwind_protect_var`s that follow it, `Run` and `Discard`
look for the innermost frame with a tag and, as the code does, take the whole list if
there is none.  The end of the sequence is the head of the list.

`Unwinding` is the interpreter around it.  `calls` is the C stack as far as it matters:
functions, eval, source, for loops, and the string of `-c`.  For each kind of call an
operator `Enter...` says what the C functions do on the way in and `Leave...` what they
do on the way out, in their order.  A `jmp_buf` is the place in `calls` of the call that
made it; when a call is over, `Forget` turns all copies of its buffer into `Dead`,
those saved on the list too.  A longjmp takes several steps: an action that begins it
(`Return`, `ExpansionFails`, `BuiltinUsage`, `FunctionTooDeep`, `CommandFails`,
`ExitBuiltin`, `Interrupt`) sets `jump`, and `CatchReturn`, `CatchInString` and
`CatchAtTopLevel` are the setjmps it comes to, some of which pass it on.  `entry` in a
call holds the variables as they were before the call; only `TurnBack` reads one of
them (the C local `ignexit_flag`), and the properties compare with them.

Abstractions: an expansion error, a usage error or a failing command may happen at any
command; `set -e` and FUNCNEST are as the shell was started; saved variables and
cleanups that no property tells apart (positional parameters, streams, history, memory)
are left out, and so are `continue`, while and select, whose frames are those of `for`,
and traps, which are in `Traps`.

### LineStream, BufferedInput and Redirections

`BufferedInput` is `input.c` with `push_stream` and `pop_stream`, as operators on a record
`m` that holds the kernel's descriptor table and file offsets next to the shell's
`buffers`, `bash_input`, `default_buffered_input`, `bash_input_fd_changed` and
`stream_list`.  Text is counted in lines: a stream's `unread` is what lies between
`b_inputp` and `b_used`.  `SaveBashInput`, `CheckBashInput`, `DuplicateBufferedStream` and
`CloseBufferedFd` are the calls by which the redirections reach the streams.

`Redirections` is `do_redirections` with its two undo lists, folded over a list of
redirections (`OpenFile`, `OpenBoth`, `Duplicate`, `CloseThis` are the cases of
`do_redirection_internal`), and the commands that use it.  The descriptors that
`add_undo_redirect` saves live in the same table as the user's, from `ShellFdBase` up.
`Enter` and `Leave` bracket a group, function, builtin or eval whose redirections are
undone at its end; `ExecBuiltin` keeps them and runs `exec_redirection_undo_list`;
`ExternalCommand` and `ReadBuiltin` take a line past the shell's streams.
`LineStream` is what all readers promise together.

Abstractions: a file is a sequence of lines, and nobody reads half a line; `ok` in a
redirection stands for all reasons for which a file cannot be opened; here documents are
files; a name in `Descs` is used again once nothing refers to it.

### JobsTable and Jobs

`JobsTable` is the array and its lists as operators on a record `t`, `Jobs` the processes,
the reaping loop and the commands.  A process in `kernel` has a state and, in `news`, the
change that `waitpid` has yet to report.  `waitchld` takes one step per call of `waitpid`
(`WaitpidReports`, `WaitpidNone`, and `WaitpidNobody` for ECHILD); `reap` says on whose behalf it runs, the SIGCHLD
handler's or a wait's, and whether it may block.  `pending` is the signal the kernel
holds, `sigchld` the counter of the handler when it finds SIGCHLD queued.  `at` and `cmd`
are where the shell's main line is.  `owed` is a history of the background processes whose
status may still be asked for; `answer` is what the last wait said, of which process,
and which process `wait_for` called `child`.  The look for a job by `wait -n`
(`WaitAnyCheck`) and its blocking (`WaitAnyBlock`) are two steps.  A mode of `Modes` is a script or an interactive shell
with the commands it uses and the processes it makes.

Abstractions: a wait status is one of five; `$!` may be asked for by its pid only;
terminal, process groups and pipefail are left out, and traps are in `Traps`.

### DynamicScope and Variables

`tables[n]` is everything the tables hold under the name `n`: at 0 the temporary
environment, at 1 the global table, above it the contexts.  A cell is a sequence because
`HASH_NOSRCH` insertions can put two variables of one name into a table.  The operators
work on one name's cells and the flag `array_needs_making`, each under the name of its C
function, and the actions are the commands: `Prefix` is one assignment before a command,
`Assign` one that is a command; `Call`, `Eval` and their ends push and pop; `Read`,
`DeclareCommand`, `ExportCommand`, `Unset` and `Special` are builtins that end with
`EndCommand` (`dispose_used_env_vars` or `merge_temporary_env`); `Execute` makes the
environment array for a child.

`DynamicScope` knows frames, what each holds, and nothing of tables, attributes or
levels.  `Frames` and `Given` are the refinement mapping; `passed` is a history variable
that both share, of names that were given to export.  `mode` is a kind of script: POSIX
mode, `localvar_inherit`, `localvar_unset`, the commands and names it uses.  The
commands do not include `misplaced`, which permits the two uses of `local` that
section 5 describes.

## 4. The runs

Passing runs:

| Run | Question |
|---|---|
| `PipeFifo` | does a FIFO with one process at each end implement `Fifo` in each direction, and deliver everything unless the reader goes away? |
| `PipeStress` | with two children, early completions, refused requests and killed children, is the bookkeeping still right? |
| `JobTable` | with three children and every use of the table, are its statuses true, are results right, is nothing forgotten early? |
| `JobWaits` | when pids are reused, signals break waits off and the kernel keeps or keeps no zombies: does the table know who is still to be reaped, and do waits end? |
| `TrapTables` | in four kinds of shell, are trapped signals kept, do tables and handlers agree, do special traps not nest and does the EXIT trap run once? |
| `TrapLive` | does a pending trap run in the end? |
| `UnwindScopes` | in five kinds of shell, two of them with a FUNCNEST, however calls are left: are outer scopes put back, do frames match calls, are all jump targets alive? |
| `ScriptInput` | for a script in a file and one on standard input: whatever is redirected, is every line handed out once, is every descriptor restored, does the script stay readable? |
| `JobControl` | in two kinds of script and an interactive shell: does the array agree with the kernel, do its indices frame it, is every status kept and every wait answered truthfully? |
| `JobControlWaits` | do the waits of a script and `fg` end? |
| `Variables` | in sixteen kinds of script: do the tables implement dynamic scoping, does every variable know its level, is the environment up to date? |

Every property has a mutant of the code (in the module of the definition it changes,
marked "Mutant") which TLC catches under the same configuration.

One run ends with a counterexample to a comment of the code:

| Run | What happens |
|---|---|
| `JobKillLoop` | without job control `kill %1` never returns when a process of the job is already gone: the `continue` in the do loop of `kill_pid` (`jobs.c:3614`) does not advance |

## 5. What else was met while modelling

The properties say where they do not apply, and this is why.  Each item was seen in a
counterexample of TLC to a stronger property, and none has a run of its own; those
marked (run) were also seen in a bash 5.2 on Unix.

* Pipes.  `vms_vm_pipe.c:448` says "Child watcher will free context eventually", but the
  watcher contains no free.  A context is also kept when the reader stops while the writer is idle
  (`vms_vm_pipe.c:570` leaves it to the next write AST, and there is none).  The
  status 2 that `check_if_child_is_alive_ast` sets to announce an end-of-file mark is
  read nowhere.  The watcher knows one pid, so the end of that process ends the
  reading although another one of the same pipe still writes.
* Children.  `last_asynchronous_pid` is never reset (`execute_cmd.c:864`): a foreground
  child that is given the pid of the last background one, long reaped, is not waited for.
  `ForegroundAwaited` is checked in `JobTable`, where pids do not come back.
  `mark_dead_jobs_as_notified` counts slots that are going anyway, so with
  a small `CHILD_MAX` one status can push out another that nobody asked for.  A
  trapped signal leaves the wait builtin after the slot was marked, and the status is
  forgotten.  The table keeps `128 + n` and not the wait status, so exit code 130 is
  taken for a death by SIGINT (`nojobs.c:226`).
* Traps.  `run_interrupt_trap` clears `catch_flag` for all signals (`trap.c:1212`), and the
  trap of another signal that is pending is not run when the command completes;
  `PendingTrapsRun` is checked without SIGINT.  A signal that arrives during the last command of its own trap is wiped out
  (`trap.c:443`), which is why `SignalKept` leaves out signals whose trap is running.
  A throw to the top level cleans up only the innermost of nested traps
  (`sig.c:428`), and the start of a subshell too, so that a trap can stay marked
  `SIG_INPROGRESS`.  The same throw out of the EXIT trap of an interactive
  shell lets the next exit run it again (`ExitTrapOnce`), and it can nest a special trap
  in itself: SIGINT in a function called by the ERR trap cleans up the mark of that
  trap (`trap.c:1209`) and runs the SIGINT trap, whose `return` goes back into
  the ERR trap's command.  A function's return out of
  a pending trap leaves `running_trap` set and the rest of the walk undone.
  `trap - INT` gives SIGINT a handler even if it
  was ignored at entry (`IgnoredStaysIgnored` speaks of the other signals, and of shells that
  are not interactive).  A shell that is terminated while it waits runs its EXIT trap before
  SIGINT's handler is put back (`nojobs.c:819` and `:846` before `:854`); when that trap waits
  itself, `old_sigint_handler` is overwritten with `wait_sigint_handler`, and SIGINT's own
  handler is lost for the rest of the trap.  `HandlersAgree` admits that handler in a shell
  whose `termsig_handler` has begun, and in no other.  "I don't believe this condition ever
  tests true" (`sig.c:574`) is wrong: it does when SIGINT ends the shell and the command
  between the signal and the next `QUIT` traps it.  A signal
  trapped when the terminating handlers are installed and reset later ends the shell
  without its EXIT trap.  A child that has dropped `SUBSHELL_IGNTRAP` and not yet
  reset its traps swallows a trapped signal.  A terminating signal that reaches a new
  subshell before it resets its traps runs the parent's EXIT trap in the child
  (`execute_cmd.c:1501`).
* Calls and jumps.  FUNCNEST exceeded in a script leaves `return_catch_flag` positive
  (`execute_cmd.c:4772`); the next `return` at the top level is a longjmp into a function
  that is over.  `source` turns `set -e` off in the sourced file, always: in the condition
  at `execute_cmd.c:4596`, `CMD_IGNORE_RETURN` is required of eval only.  After an error in a loop inside an eval string, `loop_level` keeps
  its value (`evalstring.c:354`); a `break` outside of the loop is then accepted, and all
  commands are skipped until something resets `breaking`.  `ScopesRestored` excludes
  `loop_level` after such an error for this reason.  While ERREXIT passes through nested
  functions `variable_context` is set to 0 and then decremented by `pop_context` below 0;
  the shell is exiting.  When a redirection of a builtin fails, the frame `saved_fifos`
  stays until `simple-command` is discarded, and the memory its cleanup would free is
  already freed.  `command` turns `set -e` off in the same way as `source`.
  FUNCNEST exceeded inside an eval in a function sets `funcnest` to 0
  (`execute_cmd.c:4771`, "should we reset it somewhere else?") and the error is caught by
  the eval; only the frames of functions above the eval put `funcnest` back, so the rest
  of the function below it counts from 0 and calls deeper than the limit.
  `ScopesRestored` promises only that `funcnest` is not larger than at the call.

* Input and redirections.  In a script on standard input, `eval "exec 3<&0"` copies a stream
  that the eval has put away, and the shell follows a null pointer (`input.c:364`) (run);
  an eval that reads or replaces standard input there gets out of step with the
  script.  `EvalUsesStdin` is FALSE for both.  `{ ...; } 5<&4-` with 5 closed leaves 4
  closed (`redir.c:1101` saves 4 only if 5 was open) (run), and `{ ...; } &>file` with 2
  closed leaves 2 open (`redir.c:1000`) (run); the lists of `ScriptInput` do not contain
  them.  A stream copied by `n<&m` shares its buffer with the original and has its own
  position in it.  `check_bash_input` can fail for want of a descriptor, and no caller
  looks.
* Job control.  `disown` of a running job saves the status 0 for it (`jobs.def:280`), and
  `disown -r` leaves no current job though stopped ones remain (`jobs.c:4613`).
  `kill -CONT %2` makes a stopped job run and leaves it current before others that are
  stopped.  A job continued by `bg` becomes `$!` by its process group, so `wait $!` may
  not know it.  `wait -n` can return a job that a `wait` was already answered
  for, or 127 when the last job ends between its look at the dead and at the running.  SIGCHLD
  is open between its look at the running (`jobs.c:3247`) and the blocking wait, so a job that
  ends there is reaped by the handler, and `wait -n` sleeps until another child ends.
  For a stopped job `wait_for` answers `128 + WSTOPSIG (child->status)` (`jobs.c:2985`), where
  `child` is the first process of the pipeline, although the comment at `jobs.c:2974` calls the
  status of the last one significant and the one at `jobs.c:3025` says that using
  `child->status` is wrong for pipelines: when the first process has exited with 3 and
  the last is stopped, the answer is 131.  `ResultTrue` leaves stopped jobs whose first process
  has ended out.
  `delete_old_job` drops the status of an old process whose pid is given to a new one
  together with its job, even if `$!` still names it (`jobs.c:1258`).  It drops the status
  of the last process of the old pipeline, too, when the pid that comes back is that of
  another process of it; the pipelines of `JobControl` use up both forks, so that this
  does not occur there, and the theorems of section 8 set it aside by a hypothesis.
  A job of which one process is stopped and another one runs counts as running or as
  stopped, depending on which was reported last; `JobsAgree` asks of a stopped job that a
  process is stopped and not that none runs.
* Variables.  `f() { x=1 eval 'local x'; x=5; }; f` sets the global `x`, because the local
  variable is made in the scope of the eval and not of the function (run).  `x=2 local x`
  in a function with a local `x` puts a second variable of the name into the table, which
  reappears after `unset` (run).  Both are what the comment at `variables.c:2515` says
  cannot be; `Misplaced` describes them.  In a function, `x=u command eval 'export x'` followed by `declare +x x` and
  `local x` leaves two variables of the name in the function's table, and the `unset x`
  that takes the exported one away (`variables.c:3754`) does not mark the environment as
  out of date, so that children still get it; the modes of `Variables` keep these
  commands apart.
  A local variable that is not exported does not
  hide an exported one from the environment of children.  `f() { local -x x=2; }; x=1 f`
  sets the global `x` to 2 (`declare.def:966` marks a local variable for propagation)
  (run), so `DynamicScope` lets a name given to export reach the frame around.
* Terminals, by reading only: `vms_terminal_io.c` keeps the channel of a descriptor from
  0 to 2 after `dup2` has put another file there, and its `dup2` tests the new descriptor
  where the old one is meant.

## 6. Bounds

`MaxSent`, `MailboxSize` (pipes): three records through a mailbox of two give an empty,
a partly filled and a full mailbox, and a queue that is longer than one while a write
is outstanding; the three chains have one request each, so no more records add a new
combination of statuses.  `MaxForks`, `Pids`, `SlotsPerGrowth`, `ChildMax` (children):
three children exceed `ChildMax = 1` by more than one and the two slots of the first
growth; four forks over two pids reuse each of them.  `MaxSignals`, `MaxTrapCommands`,
`MaxDepth` (traps): three signals are one pending, one running and one that arrives
meanwhile; three trap commands set, change and reset; depth three holds a trap in a
trap in a trap.  Two signals suffice because the code treats each alone, except for
the order of the walk in `run_pending_traps`, SIGINT, and the shared `catch_flag`.
`MaxDepth`, `MaxLoops` (calls): three calls hold a call whose jump is passed on by another
one to a third, and every pair of kinds inside every kind; `loop_level` is bounded
because it grows with every error in a loop.
`Lines`, `BufferLines`, `MaxFd`, `ShellFdBase` (input): a buffer of two of three lines is
full, partly used and short at the end; eleven descriptors of which seven are the shell's
hold the script, two nested undo lists and one redirection on top.  `MaxCommands` and
`MaxDepth`: a command that disturbs a body's saved descriptors needs the body, the command
and one more.  `ChildMax = 0`, `JobSlots = 1`, `MaxJobsInArray = 2` (jobs): every dead job
is one too many, the array grows with each job, and the third one is preceded by a
compaction; two processes make one pipeline of two or two jobs, a third fork reuses a
pid.  `MaxStops`, `MaxQueued`: one stop, one SIGCHLD queued behind another.
`depth` (variables): three contexts are a function in a function, an eval between, and
the global table below; one name suffices because names meet only in
`array_needs_making` and in the merge in POSIX mode, where the mode `Pairs` has two.
The cfg of a liveness run has one value of data or fewer events, because behaviours
rather than states are searched there.

`CHECK_DEADLOCK FALSE` is set everywhere: the shell may exit, every process may close
its pipe, and a shell at its prompt does nothing.

## 7. Fairness

`VmsPipe`: the kernel delivers posted ASTs, answers requests and lets timers expire
(weak fairness).  A process that holds the reading end goes on reading; the parent can
be interrupted by the watcher's AST every second, hence strong fairness there.
Writers, closings and deaths are never required.

`Nojobs`: running children end (weak fairness of each), and a shell in a wait takes its
own next step when it can: `waitpid` has something to report, or there is nobody left.  No signal has
to come: the steps by which one leaves a wait (`WaitTrapped`, and `EINTR` in the two single
waits) have no fairness, so that `WaitReturns` holds of waits nobody interrupts.  Nothing
forces the shell to start commands.

`Traps`: commands, trap commands and children end, and the shell executes further
commands.  `run_pending_traps` is strongly fair since a look at the marks happens
before every command, while its own actions may be disabled and enabled as traps nest;
so are the ends of trap commands, which a signal can postpone but not for ever.

`Jobs`: a running process ends or stops, a stopped one is continued or ends (its user
would otherwise let the wait hang, which is right), the shell goes on with a wait or with
what it has begun, a pending SIGCHLD is delivered.  No command has to be given.

`Unwinding`, `Redirections` and `Variables` have safety properties only and no fairness.

## 8. Proofs

`VmsPipe_proofs` proves, for any finite set of children, any data, both directions, any
bounds, and with `SYS$QIO` failing at will, that `Spec` implies `[]TypeOK`,
`[]OneRequestPerChain`, `[]StatusTellsOutstanding`, `[]IdleWriterHasEmptyQueue` and
`[]NothingOutstandingAfterFree`.  The only assumption is `PipeAssumption`.

None of these is inductive alone: that a context is freed with nothing outstanding
needs to know which status words go with which requests, and that needs in turn that no
chain ever has two.  `IInv == TypeOK /\ Chains(fifo)` joins them: for each of reader and
writer the status word says exactly whether the chain is busy; the watcher, whose
status stays positive after its timer stops, only in one direction; an idle writer has
an empty queue; a freed context is one whose reader and writer stopped and whose
watcher never ran or is done.  The proof follows the shape of the code.  Handlers call
handlers, so first come lemmas about the queue of ASTs, then one lemma per handler,
saying which parts of the invariant it needs and leaves (in the middle of
`vms_read_mbx_ast` the reader is busy with nothing outstanding, and `Sane` is the part
that holds there too), then one step per action of `Next`.

`Nojobs_proofs` proves, for any set of pids, any ways to end, any `CHILD_MAX` and growth
of the table, pids that come back or not, signals or not, and SIGCHLD ignored or not,
that `Spec` implies `[]TypeOK` and `[]RunningMeansUnreaped`, from `NojobsAssumption`.
`RunningMeansUnreaped` needs three more conjuncts to be inductive: typing; that a shell
in a wait for one child waits for a pid and not for `NO_PID`; and that no zombies are
kept when SIGCHLD is ignored, since `waitpid` would otherwise report children whose slot
is not the first.  The argument is about the table: `SameSlots` says of marking, freeing
and notifying that they leave the slots in use alone, `SetPidStatusTable` that a slot
whose child was reported is the first of its pid and so the one `set_pid_status`
changes, and `AddPidTable` that the slot a new child gets comes before every old slot
of its pid.  That the first index of a set of slots exists is proved from the
well-foundedness of the natural numbers.

`Traps_proofs` proves all the safety properties of `Traps` that the runs check, for any
number of signals and either number of special traps, any shells and any bounds, from
`TrapsAssumption`: `Spec` implies `[]TypeOK`, `[]HandlersAgree`, `[]IgnoredStaysIgnored`,
`[]SignalKept`, `[]ExitTrapOnce`, and `[](~Interactive => SpecialNotNested)`.  Three
invariants carry them.

* `IInv` says for each signal by itself what its entries in the tables have to do with
  each other (`SignalOK`).  `HandlersAgree` speaks of shells that are alive and of children
  that have reset their traps; `SignalOK` holds always, and adds what makes it
  inductive: an original disposition that has not been looked up is still the one at entry
  and was never `trap_handler` (`KnowsOriginal`); a signal ignored at entry to a shell that is
  not interactive is ignored now, untrapped, and marked `SIG_HARD_IGNORE` as soon as it
  is looked up, and `xhandler` puts it back to that (`EntryIgnored`); the traps left in a
  subshell that has not freed its strings are those that ignore.  While a wait is on, the
  disposition of SIGINT is the one the wait will put back (`Held`), and the wait's own handler
  is found only there or after `termsig_handler` has begun (`WaitOK`).  Most actions leave the
  tables of all signals alone, the others change those of one, so the lemmas are one for
  "nothing changed" (`CalmStep`), one for "all the others" (`UndisturbedSignal`) and one
  per branch of the trap builtin.
* `Kept` adds to `SignalKept` that no trap on the stack is that of a signal still to be
  heard, because a trap that ends wipes the count of its signal out.
* `Once`, for shells that are not interactive, says that nothing ever sets
  `interrupt_state` there, that no frame is a throw, and that an EXIT trap that was run is
  the bottom of the stack and marked `SIG_INPROGRESS`; `Single` that each special trap on
  the stack is marked and occurs once.  What would break them is the removal of a mark:
  `KeepsMarks` is proved of every step but the end of a trap and the jumps out of traps, and
  these remove only the marks of frames they take from the stack.

Interactive shells are left out of `Once` and `Single` because there both are false, as
section 5 says; the instances of `TrapTables` have no interactive shell with functions.

### More about pipes and children

`ChannelTheorem` adds to `IInv` that no read is outstanding on a `read_chan` that was given
back, and that the watcher or the reader has stopped by then (`ReadChanOK`).  `FifoRefinement` says that
`Spec` implements `Fifo`: each step is a `Put`, a `Get` or a stutter of it.  Its hypothesis
`~QioFails` is that SYS$QIO is not refused; a refused write loses its record.  The
invariant behind it, `FlowInv`, says that as long as somebody may read, what was sent is
what was delivered followed by what is in the pipe: the record being written, the queue,
the record that a posted read AST holds, and the first mailbox, in this order.  `DataOf`, which drops the end-of-file marks, is a
recursive function; what is needed of it is proved from its defining equation by
induction on a set of natural numbers.

`StatusInv` of `Nojobs_proofs` joins `IInv` with: every slot records what its child is doing
or how it ended (`TableTrue`); whoever is awaited has a slot (`Awaiting`); what a wait
returned is true.  It needs `~RecyclePids`: when pids come back, the slot of an older process
has the status of that one, and `last_made_pid` may equal a stale
`last_asynchronous_pid`, as section 5 says.  `ForgetsTheorem` needs `~Signals` besides,
because a wait that a trapped signal leaves has marked its slot and told nobody.

### Job control

`JobsTable_proofs` is about the operators alone: what deleting, adding, cleaning up and
compacting keep of a table (`Good`), that a job which is not dead survives all of it, and
that the status of a dropped job is saved unless the caller said not to
(`Tidied`, `Put`, `Joined`, `ReallocOK`).  `Jobs_proofs` builds the invariant
`Inv == KernelOK /\ Listed /\ ShellInv` on it, for any pids, modes and bounds, pids that come
back included: processes in the table say of themselves what the kernel says, jobs what
their processes say, and no pid is twice in the table; the pipeline being made is alive;
what the shell is doing names jobs that are there.  `TypeOK`, `JobsAgree` and `IndicesTrue`
follow from `Inv`.  That a status is kept until it was asked for (`Owing`) is proved step by
step; each action of the reaping loop and each command is shown to be `Kept`, that is to
drop no status still owed.  `StatusKept`, `ResultTrue` and `AllAwaited` have the hypothesis
`[][NoOwedJobReused]_vars`: no new process gets the pid of a process in a dead job whose
last process is still owed.  Without it they are false, as section 5 says.

### Calls and jumps

`Unwinding_proofs` proves `[]TypeOK`, `[]JumpTargetsLive`, `[]FramesOfCalls` and
`ScopesRestored` for any shells and any depths of calls and loops.  `FramesOfCalls` alone is not
inductive, for it does not say what the frames hold.  The invariant `Inv` says that there
is a list for each call (`Stack`), each being the one below with the frames of one call pushed
on it (`Pushed`), holding what the variables were at the entry of that call; that each
call's entry is what the variables may be inside the call below it (`Inside`, `Within`);
and that the present variables and list are those inside the innermost call, up to what an
error in a loop or a function has left behind (`Near`).  A jump in flight relaxes the last
part in the way that its kind does: the rest of the list may be that of any call
above the target (`Like`, `Descend`), and while a shell exits the frames of several calls
are taken off out of order (`Woven`, `ExitOK`).  The lemmas about the list say what `Run` and
`Discard` do to a list that ends with the frames of one call; those about jumps go down from call to
call by induction on the depth.

The theorems have the hypothesis `[][TooDeepInString]_vars`: when FUNCNEST is exceeded, an
eval, a sourced file or the string of `-c` is there to catch the error.  Where it is not,
`return_catch_flag` stays positive (section 5), and `JumpTargetsLive` is false.  For shells
that have a FUNCNEST only with `-c`, as those of `UnwindScopes`, `UnwindingTheorem`
proves that the hypothesis holds, and the properties follow from `Spec` alone.

### Variables

`Variables_proofs` proves `[]TypeOK` and `[]ContextsTrue` for any names, values, kinds of
script and depths, those with `misplaced` included, from `VariablesAssumption`.
The invariant `Inv1` is about the chain (`ChainOK`: the global table is first, every context
knows its level) and about one name's cells (`TabOK`: a table for each context, at most one
temporary variable, every variable at the level of its context).  `CellsOK` says the same of
cells that an operation is in the middle of changing, and each function of `variables.c` has a
lemma that it leaves `CellsOK` so, for the chain or for what is left of it when a
context ends.  Three facts carry the argument.  Where `bind_variable_internal` makes a variable it
gives it level 0, which is right only in the global table; `push_exported_var` and its
like use it on other tables too, and it is their next assignment that puts the level right
(`PutTwice`, `BindInTopIs`).  The end of a context is a fold over its variables;
`SomeTurns` and `TurnsStay` prove by induction on their number that what each turn keeps holds in
the end.  And a local variable goes into the table of the innermost function, whose
level is that of the whole chain, whatever evals are above it (`FuncContextIn`).

The second part of `Variables_proofs` goes on to `[]EnvTrue`.  It compares the cells of one name before and after
an operation: what they show to children (`Shows`) is what the highest table offers that has
an exported, visible variable, the temporary environment before all tables, and an operation
`Leads` from one to the other when the flag is set in the end or what they show is the same.
The functions of the C code get one lemma each again.  Some set the flag only after they
have changed a variable, so the lemmas have a parameter `loud`: `dispose_variable` sets the
flag for an exported variable that goes, and what was handed on before it need not have
(`Settled`).  What has to be kept for that (`Neat`): a cached string is the value, unless there is none;
a variable of a temporary environment is visible; no table has two variables of the name.
The last is false when `local` finds, in its function, a variable that is neither local nor
temporary, as the end of `read` or of `command eval` leaves one there
(`push_exported_var` takes `tempvar` away): `make_local_variable` then adds a second one with
`HASH_NOSRCH`.  `EnvTheorem` has the hypothesis `[][NoSecondLocal]_vars` for that.  `ScriptTheorem` has none
about the behaviour, only about the script (`Separate`): one that uses `declare` or `local` has no
`read` or `command eval` with assignments, and not the two cases of `misplaced`.  The variables of a
function are then all local or temporary (`strict` in `Neat`), and `OneLocalHere` shows that
`local` finds the one that is there.  All sixteen scripts of the run are `Separate`.  Without
these hypotheses `EnvTrue` is false, as section 5 says.

### Input and redirections

`Redirections_proofs` proves `[]TypeOK` and `[]StreamsInPlace` for any lists of redirections, any
descriptor tables to start from, and any limits of descriptors, lines and depth, from
`BufferedInputAssumption` and `RedirectionsAssumption`.  The second property is the part of
`ScriptStaysReadable` that holds without regard to what is redirected: each stream in
`buffers` is kept for the descriptor it says, and while the shell reads a script, it
reads it from `default_buffered_input`.  It is not inductive, because an eval puts the script's stream away and
`pop_stream` puts it back, on another descriptor when `bash_input_fd_changed` is set.  The
invariant `Inv` therefore says what is at the end of `stream_list` meanwhile (`Linked`): the script's
input, on the descriptor where it was or else with the flag set, its stream that of
that descriptor, and above it only strings; and that the list is as long as there are evals being
executed, so that `pop_stream` never finds it empty and a line is read only when it is.
Each function of `input.c` and `redir.c` has one lemma: either it leaves the
shell's idea of its input alone (`Quiet`) or it moves the script in step (`Keeps`, of
`save_bash_input`).  `do_redirections` is a fold over a list; `DoRedirectionsOK` shows, by
the same induction as in `Variables_proofs`, that it leads to a `Result`: a machine that `Keeps`, and two
undo lists that are lists of redirections again, so that undoing them, in whatever
state the body left the descriptors, is one more use of the same lemma.

### Only model-checked

* The refinement of `DynamicScope` by `Variables`.
* `EachLineOnce`, `DescriptorsRestored`, and of `ScriptStaysReadable` that the script's
  descriptor stays open, with its close-on-exec flag, and keeps a stream.  These depend on
  which lists a script has: for arbitrary ones they are false, as when no descriptor is left to save
  another in, when `exec n<&m-` moves the descriptor the shell put its script on, or when
  that one is duplicated during an eval that has put its stream away.  `MCRedirections` says which lists the run has.
* All liveness (`PendingTrapsRun` among it), which is out of the prover's reach.

## 9. Not modelled

See `components` in `PROJECT.json`, and the abstractions in section 3.  In short:
parsing, expansion and pattern matching are functions of text; `lib/malloc` is not in the
VMS build; readline is a library; the VMS helpers for command lines, file names and
termcap keep no state.  `vms_terminal_io.c` keeps a table of descriptors, but what could be
promised of it is contradicted by its code in the ways section 5 lists.  Steps 8 and 9 of
the plan are still to come.
