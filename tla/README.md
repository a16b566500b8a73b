# A verification of the kernel's file system, disk driver, tasks, interrupts and console

This directory holds a TLA+ development for the x86-64 hobby kernel in `kernel/`: models of
its file system, of mounting and formatting, of the ATA driver, of the keyboard ring, of the
preemptive task scheduler, of the interrupt path below it, of the console, of paths and of the
frame allocator, the TLC runs that check them, and proofs of
their main properties.
Paths below are relative to `kernel/src/`.

## 1. The system

The kernel boots under Limine, runs `kmain` with interrupts off, mounts (or formats) a disk,
creates two tasks and jumps into the first. From then on IRQ0 preempts the tasks every 10 ms.
A shell task reads the keyboard and runs commands, most of which are calls of the file system.

| Component | State | Operations | Interacts with |
|---|---|---|---|
| File system calls (`fs.c`) | on disk: bitmap, last-id sector, entry table, regions; in memory: a copy of one entry, static path buffers | `fs_mk_file`, `fs_mk_dir`, `fs_rm_file`, `fs_rm_dir`, `fs_write_file`, `fs_read_file`, `fs_ls_dir`, `fs_copy_file` | called by shell commands; calls the ATA driver sector by sector |
| Mounting (`fs.c`) | superblock, the layout variables | `fs_init`, `fs_format`, `fs_load_superblock`, `fs_write_retry`, `reload_last_id_to_disk` | `ata_identify`; the layout is used by every call |
| ATA driver (`ata.c`) | the device's registers | read, write, identify; counted polling loops | called with no lock |
| Keyboard (`keyboard.c`) | ring `buffer`, `head`, `tail` | `click_on_keybord` (IRQ1), `read_kyboard_from_main` | interrupt handler against task |
| Tasks (`pit.c`, `task.h`, `main.c`, `isr.asm`) | `tasks[]`, `task_count`, `current_task_id`, `tick_count` | `schedule` (IRQ0), `creat_task_*`, `delet_task`, `sleep_ms`, `jump_to_task` | shell commands against the timer interrupt |
| Physical frames (`pmm.c`) | bitmap of frames | init, alloc, free | one allocation in `kmain` |
| Shell (`main.c`) | command line, `current_dir_id`, `read_out`, the buffers of `str_concat` | `enter`, `shell_command`, `sh`, `if`, `for`, `task` | everything above |
| Interrupts (`idt.c`, `pic.c`, `isr.asm`, `pit.c`, `gdt.c`) | the 8259s' request and service bits, IF, the frames on the tasks' stacks, `tasks[].rsp` | gates, stubs, `irq_handler`, `pic_send_eoi`, the switch in `schedule` | devices raise lines; the stubs cut any task anywhere |
| Console (`main.c`) | `screen_buffer`, the cursor, the left edge of the line, `command`, `last_global_command_lenght` | `write`, `put_char_on_crus`, `scroll_screen`, `plus_gc_y`, `re_drw_screen`, the line editor of `shell`, `shell_command` | keys from the ring; output of commands; the counter task |
| Build | | | not modelled, see section 8 |

What is hard in it: there is no journal, so every call writes the disk in several steps and a
reset can fall between any two of them; results of writes are ignored; regions are reused with
the old pointers still in them; tasks are preempted anywhere and share tables with no lock; the
two indices of the ring are shared with an interrupt handler; `kmain` does not look at a failed
`fs_init`. `PROJECT.json` lists the hazards line by line, with the properties that cover them or the reason why none does.

What makes each component correct:

- file system: two live files never share a sector; an id names one entry; a name or a directory
  never disappears but by its own removal; a read returns what was written; every call returns;
- mounting: a half format is never mounted; a mounted layout is the one on disk; a good file
  system is not formatted away; `fs_init` ends;
- ATA driver: a call that returns 0 did what it says; no other sector changes; every call ends;
  only a disk is identified as one;
- paths: a path means the same entry by its words and by a walk through the table;
- frames: no frame is handed out twice or lost, and none that holds the bitmap is handed out;
- keyboard: every accepted key is delivered once, in order;
- tasks: the table never shows half a task; the commands act as if atomic; a stopped task does
  not run; every active task runs again and again; a sleeper wakes;
- interrupts: every EOI ends the service it is sent for; no line stays shut out; who asks is served;
  a task gets its registers and its stack back;
- console: the cursor stays on the screen; what is on the screen is the line; `enter` gets that line.

## 2. Modules

| Module | What it is |
|---|---|
| `Namespace` | abstract: the set of live entries, one atomic step per successful call |
| `FileSystem` | the calls of `fs.c`, one step per sector written, with resets; implements `Namespace` |
| `MCFileSystem` | symmetry, the sets of reset points and the old contents of disks for TLC |
| `FileSystemProofs` | its theorems |
| `Mount` | `fs_init` and `fs_format`, failing disk, resets, disks of changing size |
| `MountProofs` | its theorems |
| `SectorStore` | abstract: what `fs.c` takes the calls of `ata.c` for, each at work in one moment or not at all |
| `AtaDriver` | `ata_sector_read` and `ata_sector_write`, register access by register access, with the disk; implements `SectorStore` |
| `AtaIdentify` | `ata_identify` against whatever may be on the channel |
| `AtaChannel` | the channel from boot on: identification, and then the calls of `AtaDriver` |
| `AtaDriverProofs` | the theorems of `AtaDriver` and `AtaChannel` |
| `Frames`, `MCFrames` | `pmm.c`, and the memory maps for TLC |
| `Paths`, `MCPaths` | path strings, lookup and the working directory, and the paths that are typed for TLC |
| `PathsProofs` | its theorems |
| `BoundedFifo` | abstract: a bounded queue of keys |
| `KeyboardRing` | `keyboard.c`, handler and reader interleaved; implements `BoundedFifo` |
| `ServicesProofs` | the theorems of `Frames` and `KeyboardRing`, two services the rest only calls |
| `TaskTable` | abstract: an append-only list of tasks, each stopped at most once |
| `Scheduler` | the timer interrupt and the task commands interleaved; implements `TaskTable` |
| `SchedulerProofs` | its theorems |
| `Interrupts` | the 8259s, gates, stubs and stacks, and `schedule` as seen from them |
| `InterruptsProofs` | its theorems |
| `Console`, `MCConsole` | the line editor and the screen, and the symmetry of characters for TLC |
| `ConsoleProofs` | its theorems |

### FileSystem

`table`, `bitmap`, `lastId` are the three metadata areas. A data sector is kept as its owner tag
(`data`) and the last eight bytes (`word`), because that is where a region chains to the next one
and where user bytes can be taken for a pointer (`Junk`, a number for which the disk has no sector).
`fs_format` clears the metadata and not the storage area, so the model starts with any words
in it that `OldDisks` allows; `BlankDisk` says that all of them end a chain. A read of a sector that the disk
refuses leaves the buffer as it was (`PointerAt`: zeroed in a read and a removal, user bytes in a write), a write of one
changes nothing, and the call goes on, since it looks at neither result. The locals of the call in progress are
variables, and `pc` says which write comes next, in the order of the code:

- a path is a number of `Walk` steps, one per component, as in `path_to_id`;
- `fs_mk_file` is `MkFile`, `MkScan` (`get_data_region`), one `MkSet` per bit, `WriteEntry`,
  `Reload`; `fs_mk_dir` skips the region; `mk /` makes an entry with an empty name under
  the root, which no path finds;
- `fs_rm_file` is `RmFile`, then `FreeNext`, one `FreeClear` per bit, for each region, `Erase`,
  `Reload`; `fs_rm_dir` goes from `RmDir` to `Erase`;
- `fs_write_file` is `Write`, `WriteSector` and `WriteLastSector` or, for a longer file,
  `ChainSector`, `ChainScan`, `ChainSet`, `Link`, and finally `Commit` of the entry's copy;
- `fs_read_file` is `Read`, `ReadSector`, `ReadEnd`.

`get_data_region` looks at the 8 bits from each position without checking that they lie in its
512-byte buffer. The model keeps this: at the end of a bitmap sector the bits beyond the buffer
are arbitrary, so the scan may or may not take the window (`OverrunWindows`), and a bit past the
bitmap lands in the last-id sector, which then holds some other number (`BitmapSet`).

`Crash` loses the locals at the points in `CrashPoints`; `Boot` is what `fs_init` does with a
valid superblock.

### Mount

Every metadata sector is junk, zeroed, or written as a particular area. `Identify` is
`ata_identify` with the disk of this boot, `Load` the checks of `fs_load_superblock`, and
`FormatOk` / `FormatError` one attempt of one write of `fs_format`, in its order: sector 0
zeroed, the bitmap, the table, the last id, the superblock. A write reported as failed may or may
not have reached the disk. `Use` is any metadata write of any later call; it happens after a
failed `fs_init` too, because `kmain` does not stop there. `Reset` is possible everywhere.

### AtaDriver

The disk has media and a write cache that it destages when it likes; it serves a command after
any time, or never, or fails it, and may ignore one that comes while it is not ready. A caller is at
one of the places between two accesses: the loop before the command (`AwaitIdle`), the sector
registers (`Select`), the command, the two loops after it, the 256 words (`Transfer`), the loop
after those (`AwaitStored`), the cache flush and its loop. `Turn` is a turn of any of the counted
loops. Reading and writing run through the same places, as the two functions do. `doubt` records
two things the code does that make its answers unreliable from then on: giving up on a disk that is
not done, which leaves it in the middle of a command for the next call, and sending the flush with
the ERR bit set, which clears an error nobody has looked at (`ata.c:66`), so that a failed write is
reported as 0. The properties about answers hold until then, and TLC refutes them without that
condition.

`SectorStore` is the view from above: `contents` is what a reader finds, `durable` what a reset leaves, and a call that is open
does its work in one step, `Work`, before it succeeds or fails. Its variables are `Contents` (media under the cache), `media`,
`Open` and `Done` of `AtaDriver`. `FileSystem` and `Mount` rest on this: they have one step per sector, take a write that failed
for one that is done or not done, and repeat it.

### AtaIdentify, AtaChannel

What is on the channel is a disk, a packet device, nothing (the bus reads as 0) or a floating bus
(every bit set), and a device may still be starting, which ignores commands. The places are those
of `ata_identify`: select, command, the first status, the loop for BSY, the signature registers, the
loop for DRQ, the words. `AtaChannel` puts the calls after it: `fs_init` goes on only if a disk was
found, and `FoundIsDisk` says that this disk is then as `AtaDriver!Init` takes it, waiting for nothing.

### Frames

(Its `Init`, `Next`, `Spec` and `TypeOK` are called `PmmInit` and so on, so that `ServicesProofs` can extend two
components.) `PmmInit` is `pmm_init` on one of `MemoryMaps`: the size from the highest usable region, the place in
the first usable region with room, the bits from the regions and from the bitmap's own frames.
`Aligned` is what the boot protocol promises of usable regions. `held` is a history variable.

### Paths

A path is a sequence of words with or without the leading slash; `Resolve`, `PathToId`, `IdToPath`,
`PathToAbs`, `NameOf` and `ParentOf` are the functions of `fs.c` on it. The table has slots, because
the first entry of a name counts and `fs_mk_file` does not look whether a name is taken. The
commands are atomic and take any typed path; `Walk` is the reference, entry by entry with the
parents of the table.

### KeyboardRing

The handler runs behind an interrupt gate, so it is one action, `Key`. The reader's accesses to
the volatile globals are separate steps, with the increment of `tail` a load and a store.

### Scheduler

`Tick` and `Rotate` are `schedule`: entry, then one turn of its search per step. Everything a
task does with the table is one step per write that another task or the handler could see:
`NameTask`, `FrameTask`, `CountTask` for `creat_task_path`, one `DeleteScan` per turn of
`delet_task`. Before `Jump` interrupts are off and kmain's creations are single steps. The time a
sleeper has left is kept as ticks to go, so that `tick_count` needs no bound.

### Interrupts

The two controllers have request (`irr`) and service (`isr`) bits, with the second one on line 2 of
the first; `Granted` is their priority rule, and `AfterEoi` the non-specific EOI that `pic_send_eoi`
sends. `Acknowledge` is the gate and the stub up to the call of its handler: one frame goes on the
stack that `rsp` points into, and IF is cleared. `Spurious` is the same when the device has withdrawn
its request in the last moment: nothing is put in service, except the second controller on line 2,
and `irq_handler` sends its EOIs all the same. `Tick`, `Save` and `Search` are `schedule`, and `Return`
(or `Jump`, for the first task) pops whatever frame is on top of the stack it is given. What a task
has computed is a value that its steps change in `regs` and, for the property, in `owns`. An exception
(`Fault`) halts the machine. `Scheduler` abstracts all this to "the tick comes between any two steps";
here the steps of a task are opaque and the frames are what is looked at.

### Console

`screen` is `screen_buffer`, which the pixels repeat. A key is one action (`Type`, `Backspace`,
`Enter`). What commands do to the screen comes between `Enter` and the next prompt: `Script` is
`enter` called for another command, which changes `last_global_command_lenght`, `Shown` its output by
`shell_command`, `Cd`, `Clear` and `Paint` (`se`, `sw`) what their names say; `PrintRow` is `write` a row
at a time, and `Silent`, `Answer`, `Answered` the rest of Enter in `shell`. The text of prompts and
output is one character, `Ink`. `Counter` is `test_task_counter` of the boot script: a number of any length up to
`Digits` (20 in the code, what `u64_to_str` gives at most), from column 40 of row 0 on, at any time. Three history variables mark what the editor does not keep
track of: `over`, more was typed than `command` holds, which is shown all the same; `edge`, a
backspace at the left edge, which takes a character off `command` and leaves the screen; and `stale`,
a script ran a command shorter than the line, so that too few bytes are cleared. `LineShown` speaks of
lines without the first two, `LineIsTyped` of lines without the first and the last, and TLC refutes
them without these conditions.

## 3. Runs

| Run | Specification | Checks | Distinct states |
|---|---|---|---|
| `fs_regions` | no reset, one region per file, used disk | `TypeOK` `MarksAccounted` `ReadsOwnBytes` | 2,436,376 |
| `fs_names` | resets everywhere, used disk | `IdsOrdered` `NamespaceSpec` | 171,614 |
| `fs_crash` | resets anywhere but inside a removal, used disk | `RegionsDisjoint` | 156,926 |
| `fs_chain` | several regions per file, new and used disks, fairness | `NeverWild` `RegionsInsideSector` `CallsReturn` | 1,082,417 |
| `mount` | failing disk, resets, three disk sizes, fairness | `AreasMatch` `NeverHalfFormatted` `MountedIsOnDisk` `KeptUnlessUnreadable` `BootEnds` | about 590,000 |
| `ata` | any device at boot; then a slow and failing disk, one caller; fairness | `SuccessIsTrue` `FoundIsDisk` `OthersKept` `StoreSpec` `CallsEnd` `IdentifyEnds` | 111,436 |
| `frames` | four memory maps | `BitmapSafe` `FramesAccounted` | 51,457 |
| `paths` | paths of up to two words | `ResolveIsWalk` `PwdLeadsBack` `MadeIsFound` | 11,833 |
| `keyboard` | fairness | `FifoSpec` `FairFifoSpec` | 983 |
| `tasks` | fairness | `TypeOK` `SlotsWhole` `StoppedStays` `TaskTableSpec` `Turns` `SleepEnds` | 116,002 |
| `interrupts` | two tasks, five lines, fairness | `NothingLeft` `TaskStateKept` `EoiIsOwn` `Served` | 87,492 |
| `console` | a screen of two rows | `CursorOnScreen` `LineIsTyped` `LineShown` | about 4,400,000 |

What they show:

- `fs_regions`: with files that fit one region (the shell writes no longer ones) the bitmap is
  exactly the live files and what `fs_mk_file` leaks when the table is full (its result is
  ignored, and the leak is never given back). No scan runs past a bitmap sector, because
  regions stay aligned as long as all bits are set and cleared in whole regions.
- `fs_crash`: a reset in the middle of `fs_mk_file` leaves part of a region marked. Alignment is
  lost from then on: regions start anywhere, spill over the end of the bitmap sector, and their
  last bits go to the last-id sector. On a bitmap of one sector, as in this run, files still share no
  sector, and ids stay distinct, because `reload_last_id_to_disk` runs after every creation and at boot.
  With more bitmap sectors the first of the two is not true any more: the bits that the scan takes
  from behind its buffer are not those of the next bitmap sector, so a window that straddles the two
  can be accepted although its second half belongs to a live file (TLC finds it with
  `FramesPerSector = 2` and a reset between the two bits of a creation). `ScansSafe` in the
  theorem `RegionsApart` is this condition, and the hazard is recorded at `fs.c:612`.
- A reset *inside* `fs_rm_file` is left out of that run: the bits are cleared before the entry is
  erased, so a live entry keeps sectors that are handed out again. That is a property of the
  order of writes in the code, recorded as a hazard; no document of the repository promises
  otherwise. For the namespace (`fs_names`) resets are allowed there too.
- `fs_chain`: on a disk whose storage area was blank before `fs_format`, the `next` pointers that earlier
  files left are followed, but always are the beginning of a region. The condition is part of both properties.
  Nothing in the code makes a disk blank: on one that held other data, was formatted with another layout, or was
  formatted again because sector 0 could not be read once, the first write of more than 4088 bytes takes leftover
  bytes for its next region (`fs.c:813`). From there the chain may lead anywhere, and a removal clears the
  bits of any window, also in the last-id sector. TLC finds `InsideSector` and `OnDisk` violated on the
  used disks of this run. Every call returns all the same, chains in circles included, because each loop counts bytes or
  regions. The other runs start on used disks too: with files of one region, the shell's, no leftover is ever
  followed.
- `mount`: the superblock is the last thing written and its old copy the first thing destroyed,
  and that is enough against every mixture of failures and resets, provided calls stop after a
  failed `fs_init`; they do not, and `strayed` marks those histories.
- `ata`: with one caller at a time the handshake is right as far as it goes: a 0 means the data is
  on the platters (a write) or came from there (a read), until a call gives up on a busy disk or
  overwrites an error. With two callers, which preemption allows, TLC finds a write that goes
  to the other task's sector; the run has one, and the hazard is recorded at `ata.c:37`.
- `paths`: a path that can be walked means the same entry when `path_resolve` treats it as words,
  for every working directory that still hangs under the root and as long as no name is there
  twice. Both conditions matter. A working directory that is removed turns into the root for
  relative paths, and into another entry once its id is given away again.
- `ata`, before the calls: nothing but a disk that is ready is taken for a disk, and boot does not
  hang, also when the device is starting and ignores the command.
- `interrupts`: the order of two EOIs, the unconditional EOI for spurious interrupts and the one sent
  by `schedule` before it switches are right together: with interrupts let through nothing is in
  service. A spurious interrupt of the second controller needs the EOI to the first that `pic_send_eoi`
  sends; one of the first puts nothing in service and its EOI finds nothing, because handlers do not
  nest. `Served` gives every line its handler, unless the machine halted or no task is left.
- `console`: the line is where it was typed over wraps and scrolls, under a counter that writes
  on it (the cells its number may take are left out) and commands that paint and clear. `Clear` puts the
  prompt in the last row and the cursor in row 0, until the prompt that follows it.
- `frames`, `keyboard`, `tasks`: the comments at the properties say it.

Deadlock is checked in every run but two, where the system may really stop: in `interrupts` an
exception halts the machine, and in `ata` nothing follows when no disk was found.

### Bounds

- FileSystem. Two or three slots, so that the table runs full, an entry is looked for behind
  others, and three generations of ids share them. Regions of 1 or 2 sectors: 2 gives a first
  and a last sector, 1 makes the bits irrelevant where only names are asked about. Bitmap
  sectors of 1 to 6 bits, one to three of them: the end of a bitmap sector is met in the middle and
  at the end of the bitmap. `Sizes` sit at the capacity of one region (1016 bytes for two sectors),
  one byte above it, and one above two regions.
  Old disks (`MCFileSystem`): the number of the last bit in every word (`fs_regions`, `fs_crash`), text (`fs_names`), and
  in `fs_chain` zeros, ones, and words that lead from the first region to another, into a circle, over the end of the
  bitmap or out of the disk, with two regions for two files that want two or three each. `MaxId` stops creation; the code's counter is 64 bits.
  Names: two where names matter (symmetric), else one.
- Mount. `Totals` give a bitmap of one sector for a disk (64), the same for a larger one (32832 is
  the first size with two) and more: growth with and without a change of layout, and shrinking.
  Two table sectors and two attempts show the first, the middle and the last of each.
- ATA. Two sectors tell the right one from another; two values tell old data from new; two
  turns show a loop that goes on and one that gives up.
- Identification. Two turns of each loop; every kind of device, starting or ready.
- Interrupts. Lines 0 and 1 have handlers of their own; 5 and 8 stand for the other lines of each controller,
  and 8 and 14 for two lines of the second one. Two tasks switch; two values tell whose registers are whose.
- Console. Rows of 5 cells with a margin of 2 give 4 usable columns, behind prompts of 2 or 3: one or two
  characters a row, so a line of up to 2 (`MaxCommand` = 3 with its end) wraps and scrolls on the second
  of two rows; a third character is shown and not kept. Output of up to two rows scrolls as well. Two characters
  tell order and are interchangeable. The counter writes one or two digits from column 1 on, over the prompt and
  the first character of a line.
- Frames. Frames of two bytes, so that the bitmap needs more than one frame; the four maps are
  described in `MCFrames`.
- Paths. Two names (symmetric), three slots, four ids: a chain of three directories, two entries of
  one name, ids used again. All paths of up to two words, which make longer ones together with the
  names of the working directory.
- Keyboard. A ring of 4 wraps, fills and empties; two characters tell order.
- Tasks. Four slots: the two tasks of kmain, and two created ones, with the table full. One of them may be
  made by the boot script, which makes the shell number 1 and not 0. Sleeps are of one tick.
  Three names, so that names are reused, including those of the boot tasks.

### Fairness

- `FileSystem!FairSpec` and `Mount!FairSpec`: the code of a call, or of `fs_init`, keeps running
  (weak fairness of its steps). Nothing in it waits except in counted loops.
- `AtaChannel!ChannelSpec`: identification and a call keep running; the device gets no fairness, it may
  never answer.
- `Interrupts!FairSpec`: the processor runs the code it is at, and takes an interrupt it can take: it
  looks for one before every instruction. A device does not ask twice without a step of a task
  between; handlers take microseconds, and the fastest device, the PIT, asks every 10 ms.
- `KeyboardRing!FairSpec`: the reader polls for ever and gets its turns, which is what
  `Scheduler!Turns` says of an active task.
- `Scheduler!FairSpec`: the timer fires (weak fairness of `Tick` and of the turns of its search),
  and a task that has begun a command gets on with it if it gets the CPU again and again (strong
  fairness of its next step: a step is microseconds and the quantum 10 ms, so a tick does not
  come before every single one).

## 4. Mutants

Each property of each run is paired in `PROJECT.json` with a mutated form of a definition it
depends on (a dropped guard, a loop one short, a swapped order), kept in the module in front of
the definition it replaces, with a comment saying what is wrong in it. TLC finds each of them.

## 5. Theorems

All for arbitrary constants under the named assumptions (`GeometryAssumption`,
`InputAssumption`, `TotalsAssumption`, ...), which say only what the code's own constants satisfy.

| Theorem | States |
|---|---|
| `FileSystemProofs!TypeCorrect` | `Spec => []TypeOK` |
| `FileSystemProofs!IdsCorrect` | `Spec => []IdsOrdered`, for any set of reset points |
| `FileSystemProofs!Refinement` | `Spec => NamespaceSpec` |
| `FileSystemProofs!IdentityIsFixed` | `Spec => IdentityFixed` |
| `FileSystemProofs!PointersNeverWild`, `RegionsStayInside` | `NeverWild` and `RegionsInsideSector`, for any sizes of files, on a disk that was blank (the properties say so), if no reset falls between the bits of a region (`BitsAreWhole`) |
| `FileSystemProofs!RegionsApart`, `ReadsGiveWrites` | `RegionsDisjoint` and `ReadsOwnBytes`, for files of one region, any old disk, no reset inside a removal, and `ScansSafe` |
| `FileSystemProofs!OneRegionInside` | `[](InsideSector /\ OnDisk)`, for files of one region on any old disk, no reset inside a removal or between the bits of a region |
| `FileSystemProofs!MarksAreAccounted` | `MarksAccounted`, for files of one region, any old disk, and no reset between a first bit and its entry (`MarksWhole`) |
| `MountProofs!MountTypeCorrect`, `NeverHalf`, `SuperblockTrue`, `MountedFound` | `TypeOK` and the three invariants of the run `mount` |
| `MountProofs!FileSystemKept` | `Spec => KeptUnlessUnreadable` |
| `MountProofs!BitsInsideDisk` | on a disk of 5000 sectors or more, all sectors the bitmap stands for exist |
| `AtaDriverProofs!AtaTypeCorrect` | `Spec => []TypeOK`, for any number of callers |
| `AtaDriverProofs!AtaSuccessIsTrue`, `AtaOthersKept` | with one caller, `SuccessIsTrue` and `OthersKept` |
| `AtaDriverProofs!DriverIsStore` | with one caller, `Spec => StoreSpec` |
| `AtaDriverProofs!ChannelFindsDisk` | `ChannelSpec => []FoundIsDisk` |
| `AtaDriverProofs!ChannelIsDriver`, `ChannelCallsAreTrue` | the channel from boot on implements `AtaDriver!Spec`, so that its calls keep `SuccessIsTrue`, `OthersKept` and `StoreSpec` too |
| `ServicesProofs!FramesTypeCorrect`, `BitmapIsSafe`, `AllAccounted` | the three invariants of `Frames`, for any frame size and any aligned maps |
| `ServicesProofs!RingTypeCorrect`, `RingIsFifo` | with one reader, `TypeOK` and `FifoSpec` for every ring size |
| `PathsProofs!PathsTypeCorrect` | `Spec => []TypeOK`, for any table and names, and paths of any length |
| `PathsProofs!PwdIsRight`, `ResolvingIsWalking`, `MadeFilesAreFound` | `PwdLeadsBack`, `ResolveIsWalk` and `MadeIsFound`, likewise |
| `SchedulerProofs!TasksTypeCorrect`, `SlotsAreWhole`, `StoppedTasksStay`, `TaskTableRefined` | the properties of `tasks` but `Turns` and `SleepEnds` |
| `InterruptsProofs!Invariant`, `TypeCorrect` | the inductive invariant and `TypeOK`, for any number of tasks and any lines |
| `InterruptsProofs!ServiceEnds`, `TasksKeepTheirState`, `EoiEndsItsOwn` | `NothingLeft`, `TaskStateKept`, `EoiIsOwn` |
| `ConsoleProofs!CursorStays` | `Spec => []CursorOnScreen`, for any screen within the screen buffer and prompts that fit it |
| `ConsoleProofs!EnterGetsTheLine` | `Spec => []LineIsTyped`, likewise, for any length of command |
| `ConsoleProofs!LineIsShown` | `Spec => []LineShown`, likewise: up to 128 columns (`ScreenAssumption`), with room in row 0 for the counter's number, which takes 66 (`CounterAssumption`) |

The arguments:

- **Types of FileSystem.** `TypeOK` is not inductive: that `reg + k` is a sector needs `k` below the
  region size at the points that use it, that `n` stays below `size` needs the chunk to be no
  more than what is left. `LocalsOK` adds these; `TypeInv` is the conjunction.
- **Ids.** `IdsOrdered` needs, besides `TypeInv`, that what a call carries in memory agrees with the
  disk (`CopiesOK`): the entry in the making is above every live id and under a live parent, the
  copy of a write has the identity of the slot it will be put back to, and a directory about to be
  erased has no children. `IdInv` is the whole, and gives `IdentityFixed` and the refinement of
  `Namespace`: `WriteEntry` is its `Create`, `Erase` its removals, everything else a stutter.
- **Alignment.** `BlocksInv`: every block (the windows at multiples of `RegionSize`) is marked as a
  whole or not at all, but for the one a call is setting or clearing, and every region of an entry and the one a
  call works on is a block. A step keeps this if what it follows is a block (`FollowedOK`), for one of two reasons.
  For files of any size it is `PointersAligned`: every pointer word at the end of a block is the beginning of a block
  or ends a chain. Pointer words hold what was last written to them, also after their region was freed, so this has
  to be said of all words of the disk and not only of those of live files, and it is true at the start only on a
  blank disk. `NeverWild` and `RegionsInsideSector` follow. For files of one region it is that no pointer is followed
  (`OwnFollowed`), on any disk; this gives `OneRegionInside`. A reset between the bits of a region breaks `BlocksInv`
  for good (`BitsAreWhole`).
- **Regions.** `OwnInv`: regions of live files are disjoint and marked, but for the file whose bits are being
  cleared; the window for the entry in the making is free of them and marked as far as the call has come;
  a file that has bytes holds its own, and its chain ends with its one region; a call that goes by a copy
  of an entry agrees with the slot. `IdInv` is part of it, because a file is known by its id in `data`. For longer files
  none of this is true in the code: `fs_write_file` takes over whatever pointer is in a region that was used
  before, and two files then share a chain. The shell writes no more than 4088 bytes, the capacity of a region
  (`OneRegionEach`). Removals cut short are excluded for the reason given in section 3 (`RemovalsWhole`).
- **Marks.** `MarksInv`: the bitmap is exactly the regions of live files and the known leak, less the bits that
  a removal has cleared, and with those that a creation has set. It stands on `RegionInv`, without which clearing
  one file's bits could take another's.
- **Mount.** `FormatOK` says how far a format has come: sector 0 is invalid from the first write to
  the last, and every sector passed is zero. `MountedOK` ties the layout in memory to the superblock.
  `LayoutAccepted` is the arithmetic: a layout that leaves room for data passes the checks of the
  next boot. `RefusedOK` is needed for `FileSystemKept`: a format begins on a superblock that was refused or not read.
- **ATA.** `InStep` says that what the disk is doing is what the call waits for: it is ready while no
  command is out, serves the caller's command on the caller's sector after it, and what a
  reader would find in the sector is the caller's buffer from the end of the transfer on.
  It holds as long as there is no `doubt`; `Owned` adds that nobody else keeps the disk busy. For `DriverIsStore`, the work
  of a write is the step in which the disk takes the data over from the port, that of a read the transfer; by `InStep` it falls
  in the call and comes once, every other step of disk and call is nothing to the store or makes sectors durable, and a call that returns 0 finds
  its sector durable. For the channel, `IdentifyInv`: past the check
  of the signature the bus is not a floating one, a packet device and an empty channel never raise DRQ, so the words are read
  from a disk, and reading them leaves it as `AtaDriver!Init` takes it.
- **Frames.** The frames of the bitmap lie inside the region it was put in, which takes the
  alignment of regions and the rounding of both divisions; the rest is bookkeeping of `held`.
- **Paths.** `Resolve`, `PathToId`, `IdToPath`, `Walk` and `Reached` are recursive functions; to use their equations
  one has to show that a function satisfying them exists, which `Iterated` does once for all of them, by induction over sets of
  numbers (`Below`, `UpTo`; a parent has a smaller id than its child, which is why `IdToPath` ends). Then:
  the path of an entry that the names reach leads back to it, because each of its names is found under the entry before (`NamesLeadBack`);
  and after every word of a path the walk is at the entry whose path is what `Resolve` has made of
  the working directory and the words so far (`StepTogether`, `WalkResolves`), so both end at the same entry. For `MadeIsFound`, a
  new entry changes one lookup only, that of its name under its parent, which found nothing before; other
  paths that meant something keep their meaning (`IdAfter`) and older entries their paths (`NameAfter`). `MaxIdAssumption` says
  that the bound of the model is a number.
- **Ring.** `ReadersOK` says what the reader has loaded agrees with the ring: once it has seen
  `head # tail` the ring stays non-empty for it, `taken` is the oldest key and `loaded` is `tail`.
- **Tasks.** `CreationOK` bounds where a creator is and what its slot holds; `BootOK` does so for kmain.
  For `TaskTableRefined`, `ScanOK` says that `delet_task` has passed no task of its name, and
  this survives creations because a new task goes behind the scan and names never change.
- **Interrupts.** While a handler runs, what is in service is a function of where it is (the line
  of the handler, with 2 for the second controller, less the EOIs sent; nothing for a spurious one), and
  IF is clear; each stack holds one frame with what its task had computed if the task does not
  have the CPU, and `rsp` of a task that was switched away points there. `NothingLeft`,
  `EoiIsOwn` and `TaskStateKept` are read off it.
- **Console.** `CursorOnScreen` needs that a prompt leaves a column before the margin. For
  `LineIsTyped`, at Enter the length that `enter` finds is that of what was typed, because typed characters
  are not '\0' and everything behind them is; the clearing afterwards covers it unless `stale`. `LineShown` is
  not inductive: a backspace on an empty line must find the cursor at the left edge, or it would go back over the
  prompt (`col - left <= point`), and the line must be empty when a prompt is written; `ShownInv` adds both, and
  `DisplayInv` joins it to the other two invariants. A wrap or a scroll moves cells, cursor and edge by the same row,
  and the cells of the line are counted from the cursor by quotient and remainder of the width of a row.

## 6. Checked only, not proved

Liveness (`CallsReturn`, `BootEnds`, `CallsEnd`, `IdentifyEnds`, `FairFifoSpec`, `Turns`, `SleepEnds`, `Served`) is out of the prover's
reach. So are the refinements under fairness; what is proved of the ring is `FifoSpec`, without it. Every invariant
and every other action property of the runs is proved, most for more than a run can have: any constants, any number of tasks or callers.
Where the table names a condition, the code does not keep the property without it (sections 3 and 5): regions and marks need
files of one region, pointers a blank disk, and both exclude some reset points; the answers of the driver need one caller, the ring one reader.

## 7. Abstractions worth knowing

- One caller at a time in `FileSystem`: preemption inside `fs.c` is not in this model.
- Reads and writes of sectors that the disk has succeed inside the calls of `FileSystem`; failures are in `Mount` only.
  Numbers that are no bit of the bitmap are one value, `Junk`, for which the disk has no sector. In the code the sum with
  `start_storage` is cut to 32 bits, and to 28 in the driver, so a leftover number can also come out as a sector of the
  metadata; what a chain does there is outside the model, and so is a data sector past the last bit. Both take a disk
  that was not blank and a file of more than one region.
- Names are model values below 24 characters (`fs.c` truncates longer ones and never finds them).
- In `AtaDriver` one call at a time (any number for its types). A turn of a loop is one step, and so
  are the five writes that select a sector and the words of a transfer: the disk is not taken to
  give up between two words.
- In `Paths` the commands are atomic, and the lengths where buffers cut a name or a path are left out.
  During `cd` the global `current_dir_id` may be "not found" for a moment; another task could see it.
- One task creates tasks (the shell); scripts delete and sleep. With two creators TLC finds a
  count beyond the table at once; the hazard is recorded.
- One reader of the ring. With two, TLC finds a key delivered twice; also recorded.
- In `Interrupts` requests from before `pic_remap` are lost with it, as its ICW1 loses them, and the
  code of a task is one step that changes its registers. NMIs and nested exceptions are left out. So is the buffer of
  the keyboard controller: a byte that lay there before `pic_remap` is never read (its edge is lost with the request), and
  no IRQ1 comes until it is. `Served` says nothing of a boot on which a key was struck that early.
- In `Console` a screen has at most 128 columns: `screen_buffer` has its dimensions swapped, and beyond `MAX_ROWS`
  columns (1024 pixels) rows overlap; recorded as a hazard. The number of the counter ends in row 0, before the margin.
  Every prompt leaves room for a character, and no script task prints while the shell has the cursor.
- With no active task left the search in `schedule` goes on for ever; `Turns` is about tasks
  that are active.
- `Mount` leaves out disks with no room after the table, which are formatted at every boot.

## 8. Not modelled

- What `kmain` does with a channel where no disk was found: the calls go on, and meet it. A disk
  whose identification timed out is still in the middle of it when the first of them comes. `AtaChannel` has calls only
  after a disk was found; that calls follow a failed `fs_init` at all is in `Mount` (`Use`).
- The shell language: which command of a script runs (`sh`, `if`, `fi`, `else`, `for`), `math`, `rand` and the
  string helpers. The result of an `if` is one global that nested scripts and other tasks overwrite, and the
  buffers of these commands are cut by no check, so there is little they promise that the code keeps.
  `make_the_tree` and the text of `boot_commands` are such commands.
- `fs_ls_dir`, which only reads the table, and `fs_copy_file` (`write src dst f`, `main.c:505`) as a call of its own: it
  looks two paths up and calls `fs_mk_file`, `fs_read_file` and `fs_write_file` one after another, and any such sequence
  is among the behaviours of `FileSystem`. That the copy equals its source is not stated.
- Pixels, fonts and colours, the debug port, the descriptors of `gdt.c`: nothing reads them back.
- A disk that fails inside a call of `FileSystem`, and two tasks inside `fs.c`: the code goes on with the buffer
  of a read that failed, and keeps no two tasks apart, so the properties of the table do not hold there. The hazards say so
  line by line.
- `fs_mk_file_size`, `id_to_path_internal`, `task_exit`, `context_switch.asm`: no callers.
- `fs.c.new`, `fsR.c.old`, `some_claude_codes/`: not compiled.

## 9. Plan

Done: the file system, mounting, the ring, the tasks, the driver with identification, paths, the frames, the interrupts
and the console, in this order of importance, each with its abstract specification where it has one.

What could still be modelled: the boot script and `run_task` (`make_the_tree` after a reset, `sleep` with interrupts off).

Next, proofs: the refinement chain from the calls of `FileSystem` down to `SectorStore`, with the sectors of `FileSystem` as its contents.
