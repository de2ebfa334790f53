# dismasmOS in TLA+

A verification project for [dismasmOS](../src/README.md), a small x86_64
operating system in C: one address space, one thread, two interrupt sources,
an in-memory file system and a shell. The modules here are translations of the
sources in `src/`; every definition that models code is listed with its lines in
the `map` of `PROJECT.json`. TLC checks small instances of the modules, TLAPS
proves the theorems of the eight `...Proofs` modules for all values of the
constants.

    tlc -workers 2 -config MCKbd.cfg MCKbd       # any run of PROJECT.json
    tlapm HeapProofs.tla

## 1. The system

dismasmOS boots into `kmain`, initialises its parts one after the other with
interrupts disabled, executes `sti`, and runs the shell for ever. Nothing is
scheduled: the *process table* is data. All concurrency is between this one
thread and the handlers of IRQ 1 (keyboard) and IRQ 12 (mouse), which run to
completion with interrupts disabled.

| Part | State | Operations | What makes it correct |
|---|---|---|---|
| Keyboard driver `arch/kbd.c` | ring `kbd_buffer`, `kbd_head`, `kbd_tail`; `shift_pressed`, `altgr_pressed`, `extended`; layout | `kbd_handler` (IRQ 1), `kbd_enqueue_key`, `kbd_getchar`, `kbd_set_layout` | a bounded queue; the decoder agrees with the keys held down; a key wakes the reader |
| Mouse driver `drivers/mouse.c` | `mouse_cycle`, `has_wheel`, the packet bytes | `mouse_init` (polling), `mouse_handler` (IRQ 12) | the handler stays in frame; initialisation ends and leaves the controller set up |
| Heap `mm/heap.c` | block headers in a 16 MiB pool, `heap_used_bytes`, `heap_alloc_count` | `malloc`, `free`, `calloc`, `realloc`, `heap_self_test` | blocks tile the pool, callers do not share bytes, no fragmentation between neighbours, counters agree |
| Paths `fs/fs.c` | none | `fs_resolve_path` | canonical, bounded, and exact whenever the buffers suffice |
| File system `fs/fs.c` | `files[64]`, `change_log[64]` | create, mkdir, write, delete, find, log | paths unique, directories hold no text, the log is truthful |
| Shell `shell/shell.c` | `shell_cwd`, the line, history ring, `hist_index` | line editing, `&&`, redirection, the commands | history recalls the right line, the screen shows the line, what is typed is what is run, a command's status tells its effect, every change is logged |
| Editor `em/em.c` | `buffer`, `buf_len`, `cursor_pos`, `mode`, `cmd_buf` | editing keys, command mode, save, typo search, system file dialog | the array is the text with a cursor; the screen shows it; a save writes it |
| Process table `proc/proc.c` | `procs[16]`, `next_pid` | start, kill, comment | pids and names identify processes |
| Screen `drivers/vga.c` | cells, `vga_row`, `vga_col` | putchar, backspace, scroll, clear | the cursor stays on the screen |
| Interrupt entry `arch/idt*.{c,s}`, `arch/pic.c` | IDT, masks, RFLAGS.IF | entry stubs, EOI | handlers are atomic for the thread |
| Manual and pager `shell/wdid*.c` | `top_line` | `wdid_find`, `run_pager` | every page can be opened; the screen shows the lines the status row counts |
| Calculator and numbers `shell.c`, `lib/string.c` | `calc_ptr`, `calc_err` | `parse_num`, `calc_parse_*`, `itoa` | computes and prints the value of an expression, or reports an error |
| Diagnostics: `dump`, `reg`, `asm`, `colr`, `MemRep` | `asm_payload` | print; `asm` executes bytes | the pairs typed are called in order, inside the buffer, and return |
| `boot.s`, `lib/string.c`, build files | | | |

How they interact: the two handlers write the ring, `kbd_getchar` reads it; its
callers are the shell loop, the editor, the editor's dialog and the pager. The
shell calls the file system, the process table, the heap test, the layout switch
and `asm cli`/`asm sti`, which change the interrupt flag that `kbd_getchar`
depends on. The editor calls the file system. Shell and editor both write the
audit log. `mouse_init` shares the 8042's one output register with the keyboard.

What is hard: the ring shared with handlers, `sti; hlt` after a test made
earlier, one output register for two devices and no look at who sent the byte,
prefixed scancodes and mouse packets without framing, link updates in the heap's
split and merge with stale headers left in memory, fixed-size tables that are
reused in place, rings addressed modulo their size, ignored results, statuses
computed apart from effects, texts taken apart in place, two walks that have to
lay out a text alike. The list of
hazards, each with its line, is in `PROJECT.json`. Nothing is persisted, so there
are no crashes to recover from, and nothing but the two handlers is concurrent.

## 2. Modules

| Module | Models | State and actions |
|---|---|---|
| `KbdMap` | the scancode tables and key codes of `kbd.c` | pure operators; the tables' entries are the C tables' |
| `KeyQueue` | abstract: a bounded queue of key codes | `Offer`, `Get` |
| `Kbd` | `kbd.c` and the interrupt entry | the C statics under their names; `pc` splits `kbd_getchar` into `CheckEmpty`, `StiHlt`, `ReadSlot`, `AdvanceTail`; `IRQ1` and `IRQ12` are the handlers, enabled only with `intr`. `KQ` is the refinement mapping to `KeyQueue` |
| `Mouse` | `mouse_handler`, as a function of the two status bits and the byte it reads | `mouse_cycle`; it shares `has_wheel` with `MouseInit`, so the variable has a module of its own, `MouseState` |
| `Input` | `Kbd` and `Mouse` with a keyboard and a mouse | `held` keys, bytes on the two wires, `stray12`: an interrupt request of the mouse left over from `mouse_init`; devices send whole sequences; `MouseIRQ` is `MouseByte`, `StrayTakesKey` (the handler reads a byte of the keyboard and throws it away) or `StrayFindsNothing` |
| `InputProofs` | theorems about `Kbd`, `Input` and `MouseInit` | |
| `MouseInit` | `mouse_init` | a program `Script` of its port accesses, run by `step`; the controller's output register `obuf`; `coming`, the answers on their way to it, so that a read may give up (`GivesUp`) on an answer that comes later (`AnswerArrives`) |
| `Heap` | `heap.c` | a heap is a record of the header fields as functions of addresses; the calls are functions from heap to heap, the actions are the calls of clients, with the pointers they hold in `live` and all they ever freed in `stale`; `Write` is a client that overwrites an old header in its bytes, all of it or only `is_free` (`mangled`) |
| `HeapProofs` | theorems about `Heap` | |
| `FsPath` | `fs_resolve_path` | a path is a sequence of components with lengths |
| `Fs` | `fs.c` | functions from table to table and from log to log, named as in C |
| `FsProofs` | theorems about `FsPath`, lemmas about `Fs` | |
| `ShellFs` | the shell's file commands and the editor's sessions | `files`, `change_log`, `shell_cwd`, the open session |
| `ShellFsProofs` | theorems about `ShellFs` | |
| `TextBuffer` | abstract: text left and right of a cursor, key by key | `Open` (only when closed), `Type`, `Tab`, `Backspace`, `Delete`, `Move`, `StartCommand`, `Command`: which one a key may be, and with which character, is read from `key` |
| `Em` | `em.c` over `Fs` | the C statics and `key`, the local `c` of `em_run`; one action per key class and mode. `TB` maps it to `TextBuffer`. The screen is redrawn after every key from the rest of the state, so `em_render` and `HardwareCursor` are operators |
| `EmProofs` | theorems about `Em` | |
| `Proc` | `proc.c` | `procs`, `next_pid`; `proc_start`, `proc_kill`, `proc_set_comment` |
| `Shell` | `handle_line` and `execute_command`: the composition of `ShellFs` and `Proc` | the state of both and `line`, the command that runs next; `EnterLine`, `handle_line`, `Editor` |
| `ShellProofs` | theorems about `Proc` and `Shell` | |
| `Calc` | `parse_num`, `calc_parse_factor/term/expr`, `cmd_calc`, `itoa` | pure; the parsers pass value, position and error along |
| `CmdLine` | `handle_line`'s splitting, `tokenize`, the redirection of `handle_single_command`, the bytes of `asm` | pure, over sequences of characters |
| `Wdid` | `wdid.c` and the table of pages | pure: `wdid_find`, the pager's arithmetic, `render_page` |
| `TypedText` | a walk by `cd`, a text typed at the prompt, a page turned line by line: the pure modules `FsPath`, `CmdLine`, `Wdid` in motion | `cwd`, `out`, `typed`, `page`, `top`; the properties of what they return |
| `TypedTextProofs` | theorems about `TypedText` | |
| `Vga` | `vga.c` without colours | a screen is a record; functions from screen to screen |
| `Terminal` | `shell_run`'s line editor and history, and `run_pager`, over `Vga` | the C variables, with `history` recording what was stored; while `pager` is open the pager's actions take the keys |
| `TerminalProofs` | theorems about `Terminal`: history, cursor, pager | |

Each `MC` module gives the constants of one component for TLC. `MCText` also
holds `Meaning`, the reference for the calculator, which is a recursive operator and
so may stand in no module that theorems are about. Operators whose
comment begins with *Mutant* are not used by any specification: each is the
changed form of the definition behind it with which the property named in
`PROJECT.json` is violated.

Two runs have a `VIEW`. `HeapView` drops the fields of addresses that hold no header on the
list and no magic number, and of the old headers all but `is_free`: no step reads
them, and the properties do not either. `EmView` drops `key`, which every step that reads a
key sets anew and none tests; `EditsAtCursor` and `MovesByLine` speak of the key of the
step they look at, which TLC has when it looks.

Why calls are single steps in `Heap`, `Fs`, `Em`, `Proc`, `Shell` and `Terminal`: handlers
touch only the ring, the decoder and the mouse packet, so nothing interleaves
with these calls.

## 3. Runs

Passing runs (none takes longer than two minutes with two workers):

| Run | Shows | Bounds and why they are enough |
|---|---|---|
| `kbd_ring` | `LatchedKey`: the key being returned is not overwritten; `KeyQueueSafety`: `Kbd` implements `KeyQueue` | 3 slots (empty, one, full; wraps); the scancodes reach every branch of the handler; bytes in any order |
| `input_path` | `AltGrTracks`, `PacketInFrame`; `KeyboardServed`: every byte is taken, so `asm cli` does not stop the machine for good | 2 slots, so the ring is full after one key; keys that send two-byte sequences; a packet whose second byte looks like a first byte; a mouse interrupt left over from `mouse_init`, which may cost a byte of the keyboard. 858,472 states |
| `mouse_init` | `QuietInitExact`: with nobody typing and no answer late the wheel is recognised and the configuration is as it was but for the two mouse bits; with keys typed and reads that give up at any point, `ConfigByteSource` says which bytes may have been taken for the configuration and `StrayAnswersBounded` how many answers stay behind; `InitFinishes` | up to `KeyMax` = 2 keys, one of whose bytes is the wheel's identifier; up to `LateMax` = 2 reads that give up on an answer under way, so that a shift of the conversation is shifted again; up to two stale bytes; drain limit 2. 73,982 states |
| `heap` | `ListSound` (the list is a coalesced tiling of the pool), and the five other properties of the allocator | a pool of 26 bytes with 2-byte headers, requests of 5 bytes (rounded to 6) and of twice that: three live blocks, blocks taken with and without a split, merges both ways, exhaustion, and a self test that, depending on what clients hold, takes each of its exits; `DoubleFreeNoticed` is about every pointer ever freed. 27,630 states under `HeapView` |
| `typed_text` | `Canonical`, `MatchesReference` (paths); `CalcAgrees`: the calculator against `Meaning`; `LineAsTyped`: commands, the first `>`, words, echoed text and its file, the decimal pairs of asm; `PageServed`: each page has a name that can be typed, and its status line fits | paths: 3 components per argument, from every reachable working directory, a buffer of 6 and 3 component slots, so all three limits are met. Expressions of up to 5 characters with every operator (`%` included), sign, parenthesis, blank and `x`; 4-bit values and a 3-bit `int`, so that overflow, the smallest number, its negative and the quotient that does not fit all occur. That quotient is a trap (`Fault`, to which `isr_default` returns for ever) and must be one in `Meaning` too: an orderly error in its place, or the reverse, is a violation. Texts in which something stands behind a hexadecimal number are left to `calc_hex`. Lines of up to 7 characters with `&&`, blanks, tabs, quotes, `echo` and `>` and 3 arguments at most, so the last one overflows; 4 bytes of `asm_payload`. Pages: the real table at every top line. 707,683 states |
| `shell_fs` | paths unique, log truthful, kinds stable | 2 slots and a log of 2: both overflow; a file, a directory and a system path; relative, absolute and `..` arguments |
| `em` | `EditsAtCursor`: `Em` implements `TextBuffer`; `MovesByLine`, `HopFindsNext`, `SaveKeepsText`; `ScreenShowsText`: text, red words and cursor are where a closed formula for the layout puts them | 3 characters of text, a tab overflows it; one slot in the table, so a save can fail; a screen of 2 columns and 2 text rows, so lines wrap and the text runs out at the bottom. 457,847 states under `EmView` |
| `shell_lines` | `PidsInOrder`, `UniqueNames`, `IdentityStable`; `StatusTellsEffect`: a file command that returns an error has changed nothing, and one that does not has done what it is for to the path it names and touched no other, except that echo to a directory returns none and writes nothing; `PrDoesOrComplains`: a `pr` command, which always returns 0, does its work or complains and changes nothing | one file slot, taken by /home until it is removed, and two paths for it; 3 process slots and 4 names, two of them built in and one of these `system`, so both tables fill and kill is refused; lines of any length; names that fit (the cut name is in `MCShellLong.cfg`). 217,872 states |
| `terminal` | `RecallsTheRightOne`, `ScreenShowsLine`, also after the pager; `PageOnScreen` | ring of 2 and 4 lines stored, so it wraps twice; a small screen that scrolls; pages shorter and longer than the screen and lines wider than it |

Divergence runs: each checks one sentence of the documentation or a comment, and
TLC finds a counterexample in what the code does.

- `lost_wakeup`: a key queued after `kbd_getchar`'s test and before its `sti; hlt`
  is not read until some other interrupt comes. In the interleaving, the handler
  runs between the comparison and the `hlt`; the specification is fair to the CPU and to
  interrupt delivery, and the user is free to press no other key.
- `recall_wrap`: `vga_backspace` stops at column 0, so Up and Down do not erase a
  line that has wrapped.
- `calc_hex`: `parse_num` multiplies a hexadecimal number by 16 when anything
  stands behind it, so `calc 0x1000 + 0x200`, the manual's example, does not give
  4608.

Eight more divergences are kept as configurations that end in a counterexample
and are not in the list of runs:

| Configuration | Property | Code and document |
|---|---|---|
| `MCInputShift.cfg` (`MCInput`) | `NormalColumnAtRest` | `kbd.c:178`, `:152`: PrintScreen's fake shift is taken, its release is not; the layout table `README.md:186` gives the Normal column for an unshifted key |
| `MCMouseInitConfig.cfg` (`MCMouseInit`) | `ConfigPreserved` | `mouse.c:79`: a key typed while `mouse_init` waits for the configuration byte is taken for it and written back; `mouse.c:76`, `:85` "controller configuration byte" |
| `MCHeapWrap.cfg` (`MCHeap`) | `ClientsOwnBlocks` | `heap.c:34`: a size near 2^64 wraps to a small one; `README.md:140` "of the specified size" |
| `MCShellFsEcho.cfg` (`MCShellFs`) | `EditedMeansWritten` | `shell.c:1241`: echo to a directory writes nothing, logs EDITED and returns 0; `wdid_docs_fs.c:256` "echo overwrites the file contents" |
| `MCShellFsCd.cfg` (`MCShellFs`) | `CdTargetExists` | `shell.c:806`: `cd` goes to /home even if it was removed; `wdid_docs_fs.c:68` says a missing target is an error |
| `MCShellFsSystem.cfg` (`MCShellFs`) | `SystemNeedsConfirmation` | `shell.c:1241`: echo writes a system file with no dialog; `wdid_docs_fs.c:195` asks for [ OK ] before editing |
| `MCShellLong.cfg` (`MCShell`) | `UniqueNames` | `proc.c:41`, `:61`: a name cut on storing is never found again; `wdid_docs_diag.c:274` "resumes an existing one" |
| `MCShellChain.cfg` (`MCShell`) | `ChainStopsOnFailure` | `shell.c:1152`: a failed `pr` returns 0; `wdid_docs.c:46` "If any command in the chain fails" |

Smaller disagreements seen while translating, kept in the modules as the code has
them: the bytes of `asm` are read as pairs of decimal digits, so that `c3` is 0 and `90` is
ninety (`shell.c:617`, which `LineAsTyped` states as it is), where `README.md:337` has
`asm 90 90 c3` and `wdid_docs_diag.c:236` `48 c7 c0` in hexadecimal; the quotient that does
not fit traps, and the trap handler returns to it for ever (`shell.c:477`), where `README.md:353` says
that calc "cleanly aborts calculation"; the test that `README.md:137` calls "Double-free
detection guarding against memory bugs" (also `wdid_docs_diag.c:34`) looks at the header alone
(`heap.c:78`), so that a second free of an address that has a new owner frees the new
owner's block; a division by zero inside a parenthesis
with something behind it is reported as a syntax error (`shell.c:439`); the
decimal that `calc` prints is the lower 32 bits of the result (`shell.c:546`);
the page `&&` can be opened only by its alias, because `&&` cuts the line; lines
of a page that are wider than the screen are cut; a `>` or `&&` between quotation
marks still counts.

## 4. Fairness

`Kbd`, `Heap`, `ShellFs`, `Em`, `Proc`, `Shell`, `Terminal` and `TypedText`
have safety specifications only. `Input` assumes weak fairness of `BootSti`, of the call of
`kbd_getchar` and of its steps: the CPU executes instructions, and every command
of the shell comes back to `kbd_getchar`. It assumes strong fairness of the two
interrupts: the PIC keeps a raised request pending, and it is delivered at the
first boundary at which IF is set, so that a shell that clears IF again and
again (`asm cli`) does not hold it off for ever. There is no fairness for the
devices, for the commands, or for `PowerOff`. `MouseInit` assumes weak fairness
of the CPU's steps, and of `AnswerArrives`: what has been answered reaches the
register in the end. The bound `LateMax` on reads that give up is why the second
is needed: without it the last such read would wait for ever on an answer that never
arrives. Neither the keyboard nor the mouse need do anything.

`KeyboardServed` is stated with an alternative for a keyboard that never stops
typing: the wire need not become empty, but bytes go on being taken from it.

## 5. Theorems

What a theorem needs of the constants is in the named `ASSUME`s of the modules.
They hold of the C constants, and TLC evaluates each on the values of the runs.
Those that say more than "a size is not zero":

| Assumption | Says | Why the code justifies it |
|---|---|---|
| `KeysAssumption` | every byte a key sends is one the handler is given | the scancode sets of `Input` |
| `PacketsAssumption` | a packet is four bytes and bit 3 of its first is set | the PS/2 packet format, on which `mouse.c:129` relies |
| `MouseInitAssumption` | stale bytes fit in the rounds of the drain loop | `mouse.c:63` drains up to 16 bytes, the controller holds one and the devices few |
| `HeapAssumption` | the header size is a multiple of the alignment, the pool holds a header and its addresses do not wrap | a header of 48 bytes, an alignment of 16 (`heap.h`), 16 MiB (`heap.c:16`) |
| `EmAssumption` | a text fits in a file, the terminating zero is no character of a text, and the keys that are not characters differ from all that are | `EM_BUF_SIZE` is `FS_MAX_FILESIZE`; the key codes of `kbd.h` are above 255 or control characters |
| `TextAssumption` | typed letters and the prompt move no cursor; what a command prints ends its last row | `shell_run` types `c >= 32` only; `cat` adds the newline a file lacks (`shell.c:926`), the others end with one or print nothing |
| `LengthAssumption` | the prompt and the longest line fit on the screen | `cmd_buf` has `CMD_MAX_LEN` = 128 bytes (`shell.c:16`), a prompt at most 91 characters (`print_prompt`, a path below 64), the screen 2000 cells |
| `CmdLineAssumption` | there is room for two arguments, and for a byte and a return instruction | `MAX_ARGS` is 16 (`shell.c:17`), `asm_payload` has 256 bytes (`shell.c:559`) |
| `TypedTextAssumption` | a character is a string, a path is built of components | they are the representation; any sets of them will do |
| `ShellFsAssumption` | /home and the paths in `fs_init` are canonical | they are literals |

`InputProofs`, the driver: any ring of at least two slots, any set of bytes as
scancodes, arbitrary interleavings.

- `KbdTypeCorrect`, `KbdLatch`: the reader has seen a non-empty ring at `read` and
  holds the oldest key at `advance`. `KbdImplementsQueue`: the refinement.

Argument: the inductive invariant is `KbdInv == KbdTypeOK /\ LatchedKey`. Type
correctness alone is inductive for the ring but not enough for the refinement:
`AdvanceTail` returns the local `c`, and only `LatchedKey` says that it is still
the head of the queue. `HandlerEffect` reduces the handlers, whatever the tables
say, to "at most one key is enqueued". The refinement maps the ring to the
sequence `Contents`; its lemmas say that enqueuing appends to it, that advancing
the tail takes its head, and that it is full with `KBD_BUF_SIZE - 1` elements.
The modulus is removed once, in `RingSucc`.

`InputProofs`, the composition with a keyboard and a mouse, for every subset of the
keys, all packets and wires of any length:

- `InputTypeCorrect`; `InputImplementsKbd` and `InputImplementsQueue`: with real
  devices, and with the mouse handler's own keys in the same ring, the composition
  implements the driver.
- `AltGrFollowed`, `MouseInFrame`: `AltGrTracks` and `PacketInFrame`.

Argument: `InputInv == TypeOK /\ KbdInv /\ AltGrInv /\ FrameInv`. `AltGrTracks`
speaks of moments at which nothing is under way, so what makes it inductive is a
statement about the bytes that are: the last AltGr byte on the wire tells where
the key is (`AltGrPending`), which is worth something only because no sequence is
cut in two (`WholeCodes`). `FrameInv` says that what is left on the mouse's wire
are the last bytes of one packet, in order, and that the handler is at the first
of them.

`InputProofs`, initialisation: every script of typing, all stale bytes, with and
without a mouse.

- `ConfigurationKnown` (`ConfigByteSource`), `FewStrayAnswers` (`StrayAnswersBounded`),
  `QuietConversation` (`QuietInitExact`), with answers as late as they may be.

Argument: `Owed` gives, for each of the 24 port accesses, the answers asked for
and not yet read; `LengthInv` says that the register and what is on its way to it hold
no more than these and one byte for each key typed and each read that gave up. `SourceInv`
is about the bytes in the order in which they will be read: while the loop drains, what lies
behind as many bytes as it will still take are keys typed meanwhile, so that
nothing the firmware left is there when the configuration is asked for. `QuietInv` gives, for each access, what
waits in the output register or is on its way, the sample rates sent and the configuration.

`HeapProofs` is about every pool, header size and alignment, under
`NoWrap`: no request, doubled, comes within the alignment of 2^64, and the five
sizes of `heap_self_test` are not zero. Without it `ClientsOwnBlocks` is false:
`MCHeapWrap.cfg`. All six properties of the `heap` run are theorems:

- `ListStaysSound`, `BlocksHaveOneOwner`, `SecondFreeIsNoticed` (`DoubleFreeNoticed`), `CountersAgree`,
  `AllocationFailsOnlyWhenFull`, `SelfTestLeavesHeap`.

Argument: `WellFormed` (tiled, linked both ways, intact headers, no empty block) is
kept by each step inside a call: `SplitWell`, `MarkedWell`, `AbsorbWell`. Coalescing
is not, so `CoalescedBut` and `IsMergedNext` say where two free neighbours may meet
until the call ends. From them follow `MallocEffect`, `FreeEffect`, `CallocEffect` and
`ReallocEffect`: what a call does to the set of allocated blocks and to their sizes.
`SelfTestEffect` chains them through every exit of the test, with the blocks it has
`Borrowed`. The inductive invariant `HeapInv` adds that clients hold the allocated blocks;
with `HeadersSound`, which makes every intact header off the list say "free" unless a client
has overwritten that, this is why a second `free` returns early: an address that is not
held is that of a free block or of none.

The counters are sums over the list. A sum is a running total over the addresses of the pool, and the
lemmas about it (one weight raised raises the total by as much) argue from a least
address at which they fail, since the provers have no induction. With them
`Accounted` is carried through the steps of each call, so that the `0` at which `free`
would stop a counter is never used. A null pointer from `malloc` means no free
block is large enough; `AllocationFailsOnlyWhenFull` turns this into a statement
about the gaps between live blocks, which is where coalescing is needed: a gap lies
inside one free block. `SelfTestLeavesHeap` rests on a fact that is not obvious from the
code: in a coalesced tiling the allocated blocks determine the whole list.

`FsProofs` is about the functions of `fs.c`. For paths, every buffer size and any number of
components:

- `ResolvedIsCanonical`, `CanonicalResolvesToItself`, `ResolvesLikeReference`, for every
  working directory and argument.

Argument: the loops of `fs_resolve_path` are functions over the length of their
prefix, and `CountUp` (a set of numbers that has 0 and, with each, the next one has
them all) takes the place of induction. `PushedPlain` and `JoinedCanonical` bound
what each loop returns. For the reference, which reads the path from its end, the
invariant `StepAgrees` couples the two directions: what the later components leave
standing of the stack, followed by what stands of these components themselves, is the
same at every position.

For the table, `Created`, `Written` and `Deleted` are the three things a call can do
to it; `ChangesKeepOrder` says what each leaves alone, and the lemmas
before it that each function of `Fs` does one of them. `BootTableOK` and `BootPaths`
say that the table `fs_init` makes is in order, for any list of directories and files.

`ShellFsProofs` is about every size of the table, of a text and of the log, every
set of arguments and texts.

- `ShellFsTypeCorrect`, `ShellFsUniquePaths`, `ShellFsDirsHaveNoText`,
  `ShellFsAuditAgrees`: the invariants. `ShellFsEveryChangeLogged`,
  `ShellFsKindStable`: the action properties. All properties of the `shell_fs` run.

Argument: `StepEffect` says of
every step that it leaves table and log alone, or changes the table and logs that
change (`Changes`), or logs without a change (`Notes`). The inductive invariant
`ShellFsInv` is table in order, log no longer than its array, `AuditAgrees`, and
`PathsOK`: every path stored, the current directory and the editor's file are canonical,
so that no `strncpy` in `fs.c` or `shell.c` ever cuts one and equal texts mean equal
nodes.
The table alone is inductive, and only through it is the slot `fs_find` returns
the only one with that path; `AuditAgrees` needs both, since the entry that falls
out in front must be the oldest (`LogAppends`) and a deletion must remove the last
node of that path.

`EmProofs`: every size of the buffer, every alphabet and dictionary, any files.

- `ImplementsTextBuffer` (`EditsAtCursor`): the refinement, in which each key has its own
  effect on the text. `CursorMovesByLine`, `HopsToNextTypo`, `SavesTheText`.
- `ScreenIsTheText`: `ScreenShowsText`.

Argument: the invariant is `EmInv == TextOK /\ FilesOK(files)`: `buffer[]` holds
`buf_len` characters of a text, a zero behind them, the cursor at or before it, and
every file holds a text. The refinement maps the cells before and behind the
cursor to the two halves of `TextBuffer`; `Closed` and `Opened` say what the
shifting loops do to them, and `FittingRun` that a tab, four insertions in the code, is as much
of its blanks as fits. The hop and line searches in `em.c` are loops to the first
or last place with some property; lemmas give that place as a minimum or maximum,
and the theorems about Up, Down and `;-m` compare minima.

`ScreenShowsText` gives the place of a character in closed form, by lines, while
`get_cursor_row_col` and `em_render` walk over the text character by character.
`PlaceNext` shows that the closed form makes the same step as the walks, also where a
line ends exactly at the right edge; from it follow `CursorIsPlace` and, for the walk
that stops below the last row, `ShownUpTo`: after i characters the cells show just the
first i. That no character overwrites another is `PlacesInOrder`: places grow in
reading order.

`ShellProofs`, the process table: at least two slots, every set of names and
every way in which names are cut.

- `ProcTypeCorrect`, `ProcPidsInOrder`, `ProcIdentity`; `ProcUniqueNames` under
  `NamesFit`, which says that no name is cut. Without it the property is false:
  `MCShellLong.cfg`.

Argument: `ProcInv` contains `PidsInOrder`, which makes the free slots the ones
from `next_pid` on (`FreeSlotsAreLast`); without it `proc_start` could put a new
process anywhere. `CommandEffect` reduces the commands to "relabel a process" and
"add one under a free name".

`ShellProofs`, the composition, with lines of any length that mix every
command.

- `ShellKeepsOrder`: types and canonical paths, unique paths, directories without
  text, a truthful log and pids in order are invariants of `ShellSpec`.
- `ShellStatusTellsEffect` (`StatusTellsEffect`); `ShellPrDoesOrComplains`
  (`PrDoesOrComplains`) under `NamesFit`.

Argument: `Shell` reaches the files through `F == INSTANCE ShellFs`, and the
theorems about them stand in `FP == INSTANCE ShellFsProofs`; both have the same
parameters, and the lemmas `SameCanonical`, `SameAssumptions`, `SameTable`, `SameNext`
and `SameFiles` say
that what is defined through one is what is defined through the other. `PrStep` and
`FileStep` give each command of a line to one of the parts and show that the
other stands still; since `Shell` uses the actions of the parts as they are, the lemmas
that `ShellSpec` implements both follow from the shape of its definitions and only
carry the invariants over. `ShellInvariant` then is the conjunction of the two.
For `ShellStatusTellsEffect`, a command
whose status is no error leaves the node it is for, and where it overwrites or
deletes one, `UniquePaths` is needed to know that no second node with that path
is left (`FileCommandDone`); that no other path changes comes from `ChangeOnlyAt`. `ErrorChangesNothing` is the
other half. For `pr kill`, `UniqueNames` plays
that part (`PrEffect`).

`TerminalProofs` is about every ring of at least one line, screens of any size, all pages
and outputs, and any number of commands.

- `HistoryHoldsLast`: the ring holds the last `HIST_MAX` commands in their slots, and
  every one of them, like the line itself, fits in the `CMD_MAX_LEN` bytes of `cmd_buf`,
  to which Up and Down copy it with `strcpy`.
- `HistoryRecalls`: `RecallsTheRightOne`, the action property of the `terminal` run.
- `CursorStaysOnScreen`: `vga_row` and `vga_col` name a cell whenever one is stored.
- `PagerShowsPage`: `PageOnScreen`.
- `ScreenIsTheLine`: `ScreenShowsLine`, under `[][RubsInRow]_vars`: Backspace is not
  pressed at column 0, and Up and Down only when the whole line to rub out stands in the
  row of the cursor. Lines may wrap and the screen may scroll under them. Where
  `RubsInRow` fails `ScreenShowsLine` may too, which is what `MCTerminalWrap.cfg` shows:
  `vga_backspace` does not go back to the row above.
- `ShortLinesAreShown`: in particular `ScreenShowsLine` holds under `[]LineFits`, prompt
  and line together being shorter than a row, as in every state of `MCTerminal.cfg`.

Argument: in `HistoryInv`, `RingHoldsLast` says that each of the commands not yet
overwritten is in the slot of its number, and `IndexHeld` that `hist_index` never
names one that has been. `SlotsDiffer` (numbers less than `HIST_MAX` apart have
different slots) is why storing a command spoils none of the others. The pager
takes the keys without touching the line (`PagerKeepsLine`). `ScreenInv` says that the
cells form a screen with the cursor on it and that an open page is drawn from a top
line at which no row is wasted (`PagerInv`); printing, rubbing out and recalling keep it
one character at a time.

For `ScreenIsTheLine`, `LineRead` says that the screen, from the beginning of some row
on, reads the prompt and the buffer up to the cursor and nothing behind them
(`ReadsFrom`). This is not inductive alone: a newline goes to the next row, which must be
empty, so `Sheet` adds that nothing stands below the cursor's row. Commands print
anything, tabs, returns and rubouts included; `Sheet` survives it (`PutcharKeepsSheet`),
and the newline at the end makes the row readable again (`NewlineReads`). `LetterReads`
is the step of typing, in a row, over its right edge and off the last row, where the
text scrolls up with the screen; that its first row is never scrolled away follows from
`LengthAssumption` and from `HistoryType`, which bounds every line that can be typed or
recalled. `RubReads` is the step of rubbing out, for a cursor that is not in column 0.
`WalkReads` and `RubbedReads` are the walks over strings, and `ReadShows` turns the rows
into the numbering of cells that the property uses. `NextSplits` and `EarlierPlace`
are the arithmetic of rows and columns they need.

`TypedTextProofs` is about texts of any length over any characters, every set of
paths, buffers of any size, any number of arguments, and the real table of pages.

- `PathsStayCanonical` (`Canonical`), `PathsMatchReference` (`MatchesReference`): what
  `FsProofs` says of one call holds along every sequence of `cd`.
- `LinesAsTyped` (`LineAsTyped`): the commands of a line, where `>` cuts them, their words,
  the text an `echo` writes and the file it writes to, the pairs `asm` calls, each the decimal
  number it denotes. It assumes `WideEnough`: `CALC_BITS` (64 in the program) makes numbers of
  at least 8 bits, since `asm_payload` holds bytes of such numbers.
- `PagesServed` (`PageServed`).

Argument: `LineAsTyped` describes what `handle_line` and `tokenize` return in terms
of places in the text (`Separators`, `Inked`), while the code takes the text apart from
the left. Recursive functions are unfolded once, in `TokenWalk`, `BytesWalk`,
`CountWalk` and `SplitWalk`; the induction along them is `CountUp` again.

*Commands.* `AndFirst` gives what `strstr` finds as the least place of an `&&`. It is a
separator in the sense of the property only if the run of `&` before it is even;
`BeginningsEven` says that it is at every place where a piece begins, which is why
`&&&` is cut after its second character and never after its third. From `SeparatorsFrom`
(the separators behind one are those of the rest of the line) and `TrimToInk` (trimming
leaves the text from the first to the last character that is not blank) follows
`PiecesSplit`: from each beginning on, the list of commands is the list of the pieces
with ink; `ServesNone` and `ServesMore` are its two steps, a blank piece and one that is a
command.

*Words.* The invariant `Words` of `tokenize`'s walk says where each argument begins, that
it is a run of ink, or goes on to the end if it is the last there is room for, and that
`inside` is whether the last character belongs to one. `WordStarts`, `WordGrows` and
`WordEnds` are what a character can do to it.

*Redirection.* `RedirIs` gives what `strchr` finds as the least place of a `>`; `SpannedPart`
says that a trimmed part of the command is what stands between its first and last place with
ink, so that `RunServed` can compare `handle_single_command` case by case with `RunAsTyped`.

*Echo.* The line is concrete but for the text between the marks, so every place in it
is known: the first `>` is the one behind the text, and `Unquoted` removes just the two
marks, whatever the text begins or ends with. `EchoAsTyped` excludes a text in which `&&`
or `>` cuts the line; the code does not look at quotation marks when it cuts.

*Bytes.* `BytesCounted` couples the number of bytes with the number of pairs typed, `PairRead`
says of each place in `asm_payload` which pair of which argument it comes from, and
`ShortNumber` what `parse_num` makes of at most two characters. `PayloadReturns` is the arithmetic
of the last two places of `asm_payload`.

*Pages.* `WordOpens` follows the line `wdid` *word* for each word that opens a page, with
`EntryWords` and `WordsApart` (the word of a page is the name or alias of no other);
`PagerOK` bounds `top` by `MaxTop`, and `StatusFits` adds up the digits of the four
numbers. The proofs take characters from `Characters`, the strings together with the
literals the module names, since the installed provers do not find that a literal is a
string.

## 6. Only model-checked

- Liveness (`KeyboardServed`, `InitFinishes`) is out of the
  prover's reach, as is `ENABLED`.
- `CalcAgrees`: the evaluator of `Calc` goes from left to right through the text, its
  reference `Meaning` from the outside in. That they agree is an induction over
  expressions, and `Meaning` is a recursive operator.
- `RecallShowsLine` and the other properties of the runs that expect a violation: the
  program does not have them.

## 7. Not modelled

- Drawing: `fs_list`, `fs_show_changes`, `proc_status`, the status and message rows
  of the editor, and colours. They read state and print; `Vga`, `Wdid` and `Em` keep
  the cells and the cursor because properties are about them.
- The dictionaries and `detect_file_type`: `Dictionary` is a constant of `Em`.
- What machine code behind `asm` does (it can do anything), `dump`, `reg`.
- The manual's texts, of which `Wdid` keeps the number of lines.
- `boot.s`, the contents of the IDT and the PIC's words: straight-line constants.
- `lib/string.c` but `itoa`: loops over bytes; truncation is modelled where it matters
  (`Proc`'s `Stored`, `Fs`'s `Clamp`, `FsPath`).
- Lengths of the editor's status row and messages and of `pr`'s comments (`msg_buf`,
  `comment_buf`).
- Of the interrupts that `mouse_init` may leave behind, that of the keyboard (IRQ 1): only the
  mouse's (`stray12`) is modelled. The composition begins with nothing else under way: no answers
  of `MouseInit` on the mouse's wire, and packets of the length `has_wheel` says; that
  `has_wheel` is right is `QuietInitExact`, and how many answers may stay behind is
  `StrayAnswersBounded`. A mouse that takes a new command drops what it was still sending; in
  `MouseInit` its late answer comes all the same.
- The heap after a double free that was not noticed; clients that write outside their blocks,
  or the magic number into them; and the copies of old headers among the bytes that `realloc`
  moves.
- The names of processes that are cut when they are stored: only in `MCShellLong.cfg`.

Abstractions: a character is a model value or a code; a path component is an
identity with a length; letters in `Em` are those `is_word_char` accepts; a
bound that the program does not have is named where it is declared (`WireMax`,
`KeyMax`, `LateMax`, `MAX_TYPED`, `MaxHistory`).

## 8. Plan

Done, in the order of importance of the behaviour: input path (`KbdMap`, `Kbd`,
`KeyQueue`, `Mouse`, `Input`, `MouseInit`), heap, paths and file system, shell and
editor, process table, terminal and pager, the composed shell, typed texts; the
theorems of section 5, which state every safety property of the passing runs but
`CalcAgrees`.

Left:
1. The editor's status and message rows, and the listings `fs_list` and
   `proc_status`.
