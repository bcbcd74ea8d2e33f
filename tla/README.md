# TLA+ models of the KluxOS kernel

These modules model the parts of KluxOS (`src/KluxOS/src`) where the order of
events matters. That means state shared between the kernel's main flow and
interrupt handlers, counters that wrap, and allocators whose bookkeeping can
drift. Each module is translated from the C source. `PROJECT.json` maps every
definition to the lines it models.

## The system and how its parts interact

KluxOS is a single-core 32-bit kernel.

- **Boot and interrupts.** `kernel_main` (`kernel/init/main.c`) calls, in
  order: `init_memory`, `idt_init` (which runs `pic_init` and then `sti`),
  `pit_init(100)`, `register_timer_callback` and `keyboard_init`. It then
  waits for a key before starting the shell.
- **Interrupt delivery.** Hardware interrupts pass through the 8259 PIC to
  `irq_handler` (`kernel/interrupt/idt.c`). `irq_handler` calls the handler
  registered for the vector and then sends EOI. Every gate is an interrupt
  gate, so handlers run with IF clear and never nest. A handler is therefore
  one atomic step, and it can fall between any two statements of the main
  flow.
- **Timer.** IRQ0 runs `pit_handler` (`kernel/timer/pit.c`). It advances the
  uint32 tick counter and `uptime_ms`, then calls `timer_callback` from
  `main.c`. `sleep_ms` busy-waits on the tick counter with `hlt`.
- **Keyboard.** IRQ1 runs `keyboard_handler` (`drivers/keyboard.c`). It
  pushes into a ring buffer that the main flow pops from, with no interrupt
  masking.
- **Scheduler.** The scheduler (`kernel/process.c`) keeps a singly linked PCB
  list and `current_process`. `scheduler_tick` calls `process_schedule` every
  `time_slice` ticks. The main flow changes the same list through
  `process_create` and `process_terminate`. `cli`/`sti` in that file are
  empty, and so are `save_context` and `load_context`.
- **Memory.** The memory manager (`kernel/mm/memory.c`, `memory_ext.c`) has
  two parts:
  - a frame bitmap, used by `alloc_frame`/`free_frame` to map page-table slots
    to frames;
  - a bump heap (`kmalloc_internal`) over a static 1 MiB array.

  The two meet in `get_page`, which takes every new page table from
  `kmalloc_aligned_physical`.
- **Terminal.** `terminal.c` keeps the VGA text screen and its cursor.
  `kernel_main` initialises it first, and everyone writes to it. The keyboard
  handler also echoes keys into it from IRQ1.
- **Library services.** `kernel_main` never starts these services: the file
  system tree (`kernel/fs.c`) with `syscall_open` (`kernel/syscall.c`), the
  ACLs (`security/acl.c`), the audit log (`security/audit.c`) and the packet
  filter (`security/firewall.c`). Each is a set of functions any caller may
  invoke. They share no state.
- **Security and cryptography.** `security/security.c` keeps the security
  settings. `security_init` and `security_set_level` call the audit log, the
  packet filter and the crypto key store (`crypto.c`), through prototypes
  that partly do not match their definitions. `security_encrypt_data` and
  `security_decrypt_data` call the AES cipher (`aes.c`) with a fixed key.
- **Shell.** `shell/shell.c` splits a command line into arguments
  (`shell_parse_args`) and runs the command named by the first one. `cd`,
  `ls` and `cat` look names up in the file system tree, and `ps` walks the
  process list. `shell_run` would read the lines from the terminal, and
  nothing calls `shell_init`.

## Modules

| Module | Code | State | Actions |
|---|---|---|---|
| `FrameAllocator` | memory.c frames, `alloc_frame`, `free_frame`, `get_page`; memory_ext.c `get_physaddr`, `map_page` | bitmap `frames`, table set `tables`, the translation `pte` of the page each table lies on, slot flags `used`; history `owned` | `GetPage`, `AllocFrame`, `FreeFrame`; `FirstFreeFrame` is the word-then-bit scan, written as a RECURSIVE operator |
| `Heap` | `kmalloc_internal` and wrappers, `kfree`, `krealloc` | `heap_end`, the array's `base`; history `blocks` | `KmallocInternal(size, align)`, `Krealloc(size)` |
| `Scheduler` | process.c | `head`, `nxt`, `current`, `pstate`, `nextPid`, `slice`; the main flow's place `pc` inside `process_terminate` and its `victim` | `Create`, `TerminateUnlink`, `TerminateTestCurrent` and `TerminateStoreCurrent` (lines 101 and 102, which a tick may fall between), `TerminateMark`, `Tick` (which calls `ProcessSchedule` and `Switch`), `SyscallExit` (`syscall_exit` of syscall.c, `process_terminate` of the current PCB) |
| `BoundedFIFO` | abstract | queue `q`, last read `got` | `Put`, `Get` |
| `KeyboardBuffer` | keyboard.c buffer, handler, `keyboard_read`, `keyboard_getchar` | the array, `buffer_start`/`end`/`count`; main flow `pc` with the loaded count and character | `KeyIRQ`, `TimerIRQ`, `PopLoad`, `PopStore`, `GetcharCheck`, `GetcharHlt` |
| `Timer` | pit.c, `timer_callback` in main.c | `timer` fields, the callback's statics, the `sleep_ms` caller's place and locals; histories `total`, `slept`, `sleepNeed` | `PitInit`, `RegisterTimerCallback`, `PitHandler`, `SleepMs`, `SleepCheck` |
| `Memory` | memory.c as one component | the variables of both | `InitPaging`, then `GetPage` (a frame-allocator table plus a heap block), `AllocFrame`, `FreeFrame`, `Kmalloc`, `Krealloc`; it instantiates `FrameAllocator` and `Heap` |
| `Vfs` | fs.c node tree, path lookup, `syscall_open` | `fs_root`, `alive`, node `ntype`, `parent`, `nxt` (`next`), `children`, `target`; `sys`, which becomes `Overflow` when a call recurses forever | `FsInit`, `FsCreateNode`, `FsCreateSymlink`, `FsAddNode`, `FsRemoveNode`, `SyscallOpen`; `Walk` (RECURSIVE) is the component loop of `fs_resolve_path` |
| `Acl` | acl.c `acl_add_entry`, `acl_remove_entry`, `acl_check_permission` | `acl[r]`, the entry array as a sequence | `AclAddEntry`, `AclRemoveEntry`; `CopyExcept` (RECURSIVE) is the remove copy loop; `AclCheckPermission` with its loop `CheckLoop` (RECURSIVE) is the query, which changes no state |
| `Audit` | audit.c | `logs` (event ids), `allocated`, `next_event_id`, `current_level` | `AuditInit`, `AuditLog`, `AuditSetLevel`; `Stored` is the shift of a full array |
| `Firewall` | firewall.c | `rules`, `firewall_enabled` | `FirewallInit`, `FirewallAddRule`, `FirewallEnable`, `FirewallDisable`; `CheckPacket` is the first-match lookup |
| `Terminal` | drivers/terminal.c | `screen[y][x]`, `terminal_row`, `terminal_column`, `cursor_visible`, `reading`; the reference text `shown` and `tracking` | `TerminalPutchar`, `TerminalClear`, `TerminalEdit` (move, scroll, clear line, the partial clears), `TerminalDelete`, `TerminalSetCursorVisible`, `TerminalReadLine`; `Putchar` and `Tab` call each other (RECURSIVE) |
| `Aes` | aes.c | the caller's `aes_ctx` and key; history `aes_last` | `AesInit`, `AesEncryptBlockOp`, `AesDecryptBlockOp`, `AesEncryptCbc`, `AesDecryptCbc`; the rounds, the key schedule and CBC chaining are operators (`EncryptCbcFrom` is RECURSIVE) |
| `Crypto` | crypto.c key store, contexts, XOR and Caesar | `key_store`, `next_key_id`, the allocated `keys` and `contexts` | `CryptoInit`, `CryptoGenerateKey`, `CryptoDestroyKey`, `CryptoCreateContext`, `CryptoDestroyContext`; `Encrypt` and `Decrypt` are operators |
| `Security` | security.c | `security_config`, the calls a handler still has to make `sec_pending`; history `sec_last` | `SecurityInit`, `SecuritySetLevel`, `SecurityAddFirewallRule`, `SecurityEncryptData`, `SecurityDecryptData`, and `SecCall`, which makes the next queued call with the Audit, Firewall or Crypto action |
| `Shell` | shell.c | `current_dir`; histories `shell_ret` and `shell_parsed` | `ShellInit`, `ShellExecuteCommand(line)`; `ParseArgs` is the loop of `shell_parse_args` (`ParseLoop`, RECURSIVE), and `CmdCd`, `CmdLs`, `CmdCat`, `CmdHelp`, `CmdPs` the handlers |
| `KernelCore` | memory.c, process.c with `scheduler_tick`, and the keyboard buffer with IRQ1 | the variables of `Memory`, `Scheduler` and `KeyboardBuffer` (the two `pc`s renamed `sched_pc` and `kbd_pc`) and `part` | each behaviour exercises one of the three, chosen in `Init`; it instantiates all three |
| `KernelServices` | the library services, the terminal, the PIT timer, AES, crypto, security and the shell | their variables and `service` | each behaviour exercises one service (see below) |
| `Boot` | `kernel_main`, `idt_init`, `pic_init`, `irq_handler` | boot step `bpc`, PIC `imr`/`irr`, `iflag`, handler registry; the Timer variables | `InitMemory`, `IdtInit`, `PitInit`, `RegisterCallback`, `KeyboardInit`, `Raise(i)` (the device), `Deliver(i)`; it instantiates `Timer` |

`KeyboardBuffer` refines `BoundedFIFO`. The refinement mapping `Queue` reads
the `buffer_count` cells from `buffer_start`, counting from before a pop that
is under way. Each `MC_*` module gives the constants their values for TLC.

Data is abstracted to what the properties tell apart:
- characters are model values;
- frame addresses are frame indices;
- heap addresses are in units of a scaled page (`Page = 4`; the arena is
  `HeapSize = 16` in the overflow run and 64 in the memory run);
- file nodes, ACL resources and firewall header values are model values or
  small integers; names are left out, because `fs_finddir` never compares
  one;
- ACL permissions are the sets of `ACL_PERM_*` bits they hold;
- the uint32 tick counter is kept modulo `2^W` (`W = 8` in the Timer and Boot
  runs, 6 in the services run), so that it wraps within reach;
- AES bytes, blocks and keys are exact: the cipher is checked bit for bit;
- a shell command line is a sequence of characters over a letter, a blank
  and the two quotes, and a command name is one letter standing for an entry
  of `commands[]`.

## Runs

| Run | Expect | Shows |
|---|---|---|
| `kernel_core_safety` | pass | Memory, scheduler and key buffer, one per behaviour. Memory: frame allocator and heap together; 3 slots, each on its own page; 8 frames of which 2 are reserved; 4 bits per bitmap word; page tables come from the heap between other `kmalloc`s. The bitmap is exactly the set of owned and reserved frames (`BitmapExact`), no frame is owned by two slots (`NoDoubleAllocation`), every allocation takes the lowest free frame (`FirstFit`), no two heap blocks overlap (`BlocksDisjoint`) and aligned blocks start on a page (`AlignedBlocksAligned`). Scheduler: pids 0..3, `time_slice` 2; the timer may interrupt `process_terminate` between any two of its statements, and `syscall_exit` terminates the current process. The list stays exact (`ListExact`) and `current_process` never points at a terminated PCB (`CurrentNeverTerminated`). Key buffer: 3 cells, 2 characters, `AtomicDec = TRUE`; it refines `BoundedFIFO` (`FifoSpec`). |
| `frame_alloc_shared_page` | violation | Two slots in one page table. `alloc_frame` maps the frame at the slot's own address, which a later allocation in the same page overwrites. `free_frame` then releases the other slot's frame, which is handed out a second time. |
| `frame_alloc_exhaustion` | violation | On a full bitmap `first_free_frame` returns 0, which `alloc_frame` treats as a free frame, so reserved frame 0 is handed out. |
| `scheduler_current_running` | violation | Exactly one PCB, the current one, is RUNNING (`OnlyCurrentRunning`, spec 3 and 4.6). `process_terminate(current)` leaves the new current process READY; a tick between lines 101 and 102 also leaves a second PCB RUNNING. |
| `scheduler_walk_spin` | violation | Pids 0..4. Ticks between the test and the store of `current_process` in `process_terminate` strand RUNNING PCBs in the list; once they fill it and current is unlinked, `process_schedule`'s walk meets neither current nor a READY PCB and spins in the interrupt (`ScheduleWalkEnds`). |
| `keyboard_lost_update` | violation | `AtomicDec = FALSE`: a push between the load and the store of `buffer_count--` breaks the FIFO. |
| `timer_sleep_wrap` | violation | A `sleep_ms` started near the wrap returns without waiting. |
| `heap_overflow` | violation | Allocations run past the end of `kernel_heap`. |
| `boot_timer_ticks` | violation | `pic_init` masks every IRQ, so the timer never ticks. |
| `services_safety` | pass | 5 nodes, 2 users and 2 groups, 3 ACL entries, a 3-slot audit log, 3 firewall rules over 2 fields. Any sequence of `fs_add_node` and `fs_remove_node` keeps a tree (`TreeWellFormed`). The ACL copy loops append one entry or remove the first match, checked against `Append` and `RemoveFirstMatch` of SequencesExt (`AclEditsExact`). A full audit log keeps the newest events with consecutive ids (`AuditKeepsNewest`). A new firewall rule never changes the verdict on a packet an earlier rule matches (`EarlierRuleWins`). A 3-column, 2-row terminal shows exactly the text written since the last clear, with the cursor after it (`ScreenShowsText`). The PIT timer, with frequencies 5, 20 and 2000 and a 6-bit counter run past its wrap: `uptime_ms` never runs ahead of the real time the ticks stand for and falls behind by less than a millisecond a tick (`UptimeWithinRounding`, spec 8), the callback's seconds never run ahead (`SecondsNeverAhead`), and `sleep_ms`'s divisor is never 0 after `pit_init` (`SleepDivisorNonZero`). AES encryption gives the FIPS-197 answers for 128, 192 and 256-bit keys (`AesKnownAnswer`), and CBC chains as SP 800-38A defines it (`CbcIsChained`). The crypto key store stays exact under generate, destroy and `crypto_init` (`KeyStoreExact`), and XOR and Caesar decryption undo encryption across the uint8_t wrap (`CryptoRoundTrip`). `shell_parse_args` splits every line of up to four characters as a word tokenizer would (`ParseArgsSplitsWords`). `acl_check_permission` agrees with a reference decision for every user, root included, group and permission (`AclCheckAgrees`). A change of audit level leaves an event exactly when the log exists and the new level keeps INFO (`AuditLevelChangeRecorded`). |
| `shell_argv_overflow` | violation | With `max_args = 2`, the line `a a a` makes `shell_parse_args` write its NULL at `argv[2]`, one past the array (`ArgvNullWithinArgv`); in the code, 64 words write `argv[64]`. |
| `security_round_trip` | violation | `security_decrypt_data` of the block `security_encrypt_data` produced does not give the plaintext back: `inv_mix_columns` is not the inverse of `mix_columns`. |

Every property of a passing run has a mutant in `PROJECT.json`: a plausible
bug in the mapped code under which TLC finds the property violated. Examples
are a dropped full check, an off-by-one, a walk that starts at the head, and
a subtraction that does not wrap.

### Bounds

- **Frames.** 8 frames and 4-bit words give two bitmap words. This is enough
  for the scan to skip a full word.
- **Pids.** Pids 0..3 allow up to three user processes besides the kernel PCB.
  That covers unlinking at the head, in the middle and at the tail, while the
  current process is any of them. The walk that spins needs two stranded
  PCBs besides the one being removed, and so pids 0..4 (`scheduler_walk_spin`);
  with 0..3 it does not happen.
- **Keyboard buffer.** 3 cells make the buffer wrap and fill.
- **Timer.** `MaxTicks = 2^W + 24` passes the tick counter's wrap at least
  once. `MaxEarly = 2` limits ticks before the callback is registered. This
  models the few statements between `pit_init` and `register_timer_callback`.
- **Memory.** `MaxAllocs = 5` heap calls, with `Page = 4`, reach both aligned
  and unaligned cursors from every base. Page tables of 4 units and a
  directory of 9 units sit among blocks of 0, 3 and 6.
- **Services.** 5 nodes allow a root, a list of two, and a second directory
  to move a removed node into. That is the smallest case where a stale
  `next` pointer shows. Two users in one group and two permission sets give
  duplicate (user, group) entries within 3 entries. A 3-slot log with 6
  events fills and then shifts three times. 3 rules over 2 fields with the
  wildcard give overlapping matches with different actions.
- **Terminal.** 3 columns and 2 rows with `TAB_SIZE = 4` make a tab wrap a
  line. Two characters plus the blank let a shifted or stale row show.
- **AES.** The FIPS-197 keys of 16, 24 and 32 bytes, and a 20-byte key the
  switch rejects; the FIPS-197 plaintext and the zero block; one two-block
  CBC message with CBC lengths that are and are not multiples of 16. The
  known answers exercise every key-schedule branch, including the extra
  substitution of 256-bit keys.
- **Crypto.** 3 key addresses, 1 context address and `MAX_CRYPTO_KEYS = 2`
  let the store fill, refuse a third key and swap on removal; freed
  addresses are reused. The five-byte message wraps under both ciphers.
- **Security.** Levels 0 to 4, and rules that allow or deny every packet
  for what `firewall_add_rule` reads at a port number.
- **Shell.** `MaxArgs = 2` stands for the 64 of `shell_execute_command`:
  every line of up to four characters over `a`, blank and `"`, plus
  `a a a` and a line with both quotes, reaches a word cut off at the limit,
  a blank after it, a quote mid-word and a quote inside quotes. The command
  lines call every handler, `cd ..` and names that are not commands.
- **Symmetry.** The services run is symmetric in the 5 nodes only. The key
  and context addresses are not permuted: a union of the two permutation
  groups made TLC several times slower per state for little reduction.

## Fairness

Only the Boot run assumes fairness: weak fairness on the boot steps, on the
PIT hardware raising IRQ0 (`Raise(0)`), and on delivery of an unmasked,
pending line. The PIT raises its line whatever the software does.

The scheduler and the key buffer have no liveness properties. Their progress
needs the timer interrupt, to run `scheduler_tick` or to end the `hlt` of
`keyboard_getchar`. This build gives no such guarantee: `pic_init` masks
every IRQ (run `boot_timer_ticks`), and nothing calls `process_init`, which
registers `scheduler_tick`, or `keyboard_getchar`. Their runs check safety
only, which holds whether or not the interrupts come.

`CHECK_DEADLOCK FALSE` appears in three kinds of run:
- in the Timer, Heap and core runs, where the named bounds end behaviours;
- in the services run, where a call that recurses forever (`sys = Overflow`)
  really stops the file system, and the bounds end the others;
- in the Boot run, where the system really does stop: with every line masked,
  nothing can happen after the wait.

### The services run checks a disjoint union

`KernelServices` lets each behaviour exercise one service, chosen in
`Init`. A service is a component, or a group of components that call each
other: `security` runs the Security actions with the audit log, the packet
filter and the key store they drive, and `shell` runs the Shell actions with
`fs_init`, the only file system call that changes what the shell reads.
This is sound here:
- the services share no variable, so the reachable states of their
  interleaving are the product of each service's reachable states;
- every property reads one service's variables, so it holds of the product
  exactly when it holds of that service alone.

The union checks the same thing with the sum of the state counts, not the
product. That leaves room for 5 nodes.

`KernelCore` joins `Memory`, `Scheduler` and `KeyboardBuffer` the same way,
for the same reasons: the timer and keyboard handlers touch no memory-manager
state, and `kfree`, the one memory call of `process_terminate`, is a stub.
Also, the scheduler and the key buffer both model the single main flow with a
`pc`, and a product would let two main flows run at once.

## What the models show besides the runs

- **The file system recurses forever.** `fs_create_node` sets a directory's
  `finddir` to `fs_finddir`, which calls `node->finddir`. So every lookup of a
  name recurses until the stack is exhausted; `fs_open`, `fs_read`,
  `fs_write`, `fs_close` and `fs_readdir` do the same. `syscall_open` of a
  path with a name therefore never returns. Its `O_CREAT` branch and its
  write of the fd table are never reached. The other file system calls only
  take their error paths. The shell passes `fs_root`, which is NULL because
  `fs_init` is not called.
- **`acl_remove_entry` removes only the first match**, and `acl_add_entry`
  does not reject duplicates. Adding the same (user, group) twice and
  removing it once leaves a grant. `AclEditsExact` pins this behaviour.
- **`acl_check_permission` tests for a NULL array before it tests for root.**
  Once `acl_remove_entry` has removed a resource's last entry, root is
  denied on it. `AclCheckAgrees` checks the check against a reference
  decision that says so.
- **`audit_set_level` logs at INFO under the new level.** Lowering the level
  to ERROR or WARNING is therefore not recorded. `AuditLevelChangeRecorded`
  states exactly which changes leave an event.
- **`terminal_read_line` never returns.** `terminal_gets` waits for
  `KEY_ENTER`, but `terminal_getchar` always returns `KEY_NULL`. So
  `shell_run` never gets a command.
- **AES decryption does not invert encryption.** `inv_mix_columns`
  (`aes.c` lines 157-160) XORs each of `eea`, `ffb`, `ggc`, `hhd` with
  itself, so the products by 0x0e, 0x0b, 0x0d and 0x09 vanish. Encryption
  agrees with FIPS-197 (`AesKnownAnswer` passes); decrypting its answer
  69c4e0d8... under key 00..0f gives 39 f2 d7 3c ... instead of 00 11 .. ff.
  The `security_round_trip` run shows it through `security_decrypt_data`.
- **`shell_parse_args` writes one past `argv`.** After the loop it sets
  `argv[argc] = NULL`; a line of 64 words makes `argc` 64, and the argv of
  `shell_execute_command` has 64 entries. The `shell_argv_overflow` run
  shows it with `max_args = 2` and the line `a a a`.
- **`process_terminate` is not atomic against the tick.** Its test of
  `current_process` (line 101) and its store (line 102) are two statements,
  and `cli()` is empty. A tick in between strands a RUNNING PCB in the list
  (`scheduler_current_running`); with enough of them the schedule walk spins
  (`scheduler_walk_spin`). The list itself ends in NULL: `process_init` sets
  the kernel PCB's `next` to NULL and `process_create` pushes at the head, so
  `cmd_ps` returns.
- **`cd` to a name, and `cat`, never return once `fs_init` has run**, as
  every lookup recurses. Before `shell_init`, `current_dir` is the empty
  string, so `ls` looks it up like a name and fails or recurses; after it,
  `ls` lists the root.
- **`acl_protect_file` sets the wrong mask bits.** It writes the permissions
  into the "other" bits of the mask, which `fs_check_permission` tests only
  for users who are neither the owner nor in the group. The owner is denied.

## Not modelled

See `components` in `PROJECT.json`:
- the legacy `interrupt.c`, which is never called;
- the rest of the system calls, which are stubs or only reach the
  terminal; `fs_check_permission`, `audit_view_logs` and
  `audit_find_events`, which only read and print;
- the file descriptor table of syscall.c: `syscall_open` never gets as far
  as writing it, because every lookup or open recurses first, so `read`,
  `write` and `close` only take their error paths;
- `acl_protect_file` and `acl_protect_process`: the resource they build is
  dropped on return, so no later call sees it;
- `crypto_hash`, a checksum whose result no property depends on, and the
  AES and RSA cases of `crypto_encrypt`, which return an error code;
- `shell_run`'s loop body: it waits in `terminal_read_line`, which never
  returns; the handlers' printing, and `uptime` and `meminfo`, which only
  print;
- the second terminal driver `drivers/terminal/terminal.c`, which defines
  the same symbols; the network (`rtl8139.c`, `wifi.c`) and bus drivers,
  which are port I/O. Nothing calls `wifi_init`, so the Wi-Fi state stays
  DOWN and none of its operations does anything.

Inside the modelled parts, the following are left out:
- byte contents of heap blocks;
- the gate encoding;
- the scancode table;
- screen output.

## Plan for later sittings

- A property that `syscall_exit` never terminates pid 0 needs a model of
  who makes system calls; `SyscallExit` assumes a user process does.
- The run budget is full (12 runs). New components join the
  `KernelServices` union, or a composite run of their own.
