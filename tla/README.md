# SavaOS in TLA+

SavaOS (`src/`) is a 32-bit operating system for one processor: a kernel with drivers for a
FAT32 disk, keyboard, mouse and network card, a window manager, and ten applications linked into
it. There are no processes and no scheduler. One endless loop, `savaos_desktop_run`
(`kernel/sv_desktop.c:1527-1608`), polls the timer, the mouse and the keyboard, runs one frame of
the desktop and calls the applications' handlers; two interrupt handlers (keyboard and mouse) run
between any two of its instructions. What makes the system hard is therefore

- **the interrupts**, which share rings and the keyboard controller with the main loop;
- **the disk**, on which each operation is a sequence of writes that a failing sector or a power
  cut can end anywhere, and whose structure outlives the program;
- **stale references**: windows, menus and the clipboard remember clusters, indices and names
  across frames while other windows change what they refer to;
- **the network**, which loses, repeats and reorders what a hand-written TCP client waits for.

This project models the disk, the input side, the network stack down to its card, the window
manager, what the desktop does to files, and the applications. It model-checks them on small
instances and proves the main invariants of the disk, the input side and the network for all
instances. What is left is listed at the end.

## 1. Inventory

| Component | Source | State | Operations | Hard behaviour | What makes it correct |
|---|---|---|---|---|---|
| FAT32 driver | `kernel/fat32.c` | FAT copies, clusters, free count, mount state | mkdir, write, copy, unlink, rmdir, read, find | faults between two writes; scan bounds | no cluster in two files, nothing leads to free clusters, mirrors agree, all-or-nothing calls |
| Keyboard | `kernel/keyboard.c` | raw ring, modifiers, key ring | IRQ 1, drain, decode, poll | handler against main loop; late decoding; full rings | what is typed arrives, once, in order, with its modifiers |
| Mouse | `kernel/mouse.c` | byte ring, packet, pointer, buttons | init, IRQ 12, process bytes | init races with the handlers; framing after a loss | the pointer shows what the user did; framing recovers |
| Interrupt set-up | `kernel/irq.c`, `pic.c`, `idt.c`, `isr.S` | IDT, masks | once at boot | – | both handlers enabled before the desktop runs |
| Boot | `boot/boot.S`, `kernel/entry.S`, `kernel.c`, `multiboot.c` | – | once | – | order of initialisation |
| ATA | `kernel/ata.c` | selected drive | read, write, reset | retry on the slave drive; the drive's cache; statuses that nobody looks at | what a successful write stored outlives failures, resets and power cuts |
| VFS and RAM cache | `kernel/fs.c` | a table of files in memory, mounted or not | create, open, write, delete, list, mount | the table is never compared with the volume again | a file saved or made is found again |
| Desktop, window manager | `kernel/sv_desktop.c`, `sv_desktop_dispatch.c` | windows, z-order, icons, menus, drag, clipboard | click, drag, open, close, key, menu commands | indices kept across rebuilds; commands of several disk steps | a command acts on what the user pointed at; no content is lost |
| Disk app | `apps/app_disk.c` | windows on directories, selection | navigate, copy, cut, paste, new folder, delete, erase | windows on directories that others remove | as above |
| Trash app | `apps/app_trash.c` | INFO.TXT, list | trash, restore, empty | several files changed per command | what is trashed is kept until the Trash is emptied |
| Network stack | `kernel/net.c` | ARP table, IP fragments, DNS, one TCP connection | poll, send, resolve, http_get | loss, reordering, time-outs, old segments | the body delivered is a prefix of what the server sent |
| RTL8139, PCI | `kernel/rtl8139.c`, `pci.c` | receive ring, four transmit slots and one buffer | init, send, receive | ring wrap, old headers, a send that gives up | frames in order, none torn |
| Timer, RTC | `kernel/timer.c`, `rtc.c` | tick count | poll, sleep | wrap | time-outs end |
| Graphics, text GUI | `kernel/sv_gfx.c`, `gui.c`, `vga.c`, `gfx_demo.c` | pixels | drawing | – | output only |
| String library | `kernel/string.c` | – | pure functions | – | – |
| Notepad | `apps/app_notepad.c` | text, cursor, selection, one step of undo or redo per window; clipboard, pop-up and drag shared | edit, undo, redo, find, open, save | an undo buffer shorter than the text; two windows share the drag and the clipboard | the cursor stays in the text; undo brings back what was there; what is saved is kept |
| Calculator | `apps/app_calc.c` | operand, operator, entry, display, clipboard | digits, operators, clear, copy, paste | one flag tells a number being typed from a finished one | the operations typed, from left to right |
| Terminal | `apps/app_terminal.c` | typed line, scrollback, scroll, clipboard | commands, menus, scrollbar | a full scrollback; long lines | the scrollback holds the last lines |
| Browser | `apps/app_browser.c` | address, page of lines and links, history, scroll | go, back, reload, click | links are recorded at a line and a column; bodies in chunks | a click follows the link it hit; the page is what was sent |
| Puzzle | `apps/app_puzzle.c` | board | shuffle, click, arrows | the ends of rows | every board can be solved |
| Pong | `apps/app_pong.c` | ball, paddles, keys, score | tick, keys | speed against the width of a paddle; a port byte that stays | a point only for a miss |
| Control Panel, About | `apps/app_control_panel.c`, `app_about.c` | settings in memory | – | – | – |
| App registry | `kernel/app_registry.c`, `apps.def` | static table | – | – | – |

How they interact: interrupt handlers and main loop share `irq_raw` and `mouse_buf`, and keyboard
and mouse share the 8042 controller's output buffer; the desktop, Disk, Trash, Terminal and
Notepad call the FAT32 driver directly or through `fs.c`, with a directory's cluster and a name;
Notepad and the Terminal share the table of files in memory that `fs.c` keeps; the browser calls `http_get`, which polls the network card. Calls are synchronous,
so of two disk operations one has ended before the other begins, but a *command* of the desktop is
several of them.

## 2. Modules

| Module | Models |
|---|---|
| `Fat32` | `kernel/fat32.c`, one disk write per action, with failing sectors, power cuts and mounting |
| `Fat32Refine` | its readers, the mapping to `FatVolume`, the properties that speak of chains and contents |
| `FatVolume` | the abstract volume: every call takes effect at one instant or not at all |
| `Fat32Proofs` | theorems about `Fat32` |
| `InputRing` | the ring of one interrupt handler and the main loop, as in `keyboard.c` and `mouse.c` |
| `InputQueue` | what it promises: a bounded FIFO queue |
| `InputProofs` | the proof that it keeps the promise |
| `Keyboard` | `kernel/keyboard.c` and the keyboard's part of the main loop, over `InputRing` |
| `KeyboardProofs` | theorems about `Keyboard` |
| `Mouse` | `kernel/mouse.c` with the 8042 controller, over `InputRing` |
| `MouseProofs` | theorems about `Mouse` |
| `Http` | `net_http_get` and `net_handle_tcp` of `kernel/net.c`, against servers and a network |
| `Net` | the rest of `kernel/net.c`: `net_init` with ARP, IP reassembly, `net_dns_lookup` |
| `HttpProofs` | theorems about `Http` |
| `Desktop` | `kernel/sv_desktop.c`: windows, menus, pop-ups, dragging, animations, the main loop |
| `DesktopProofs` | theorems about `Desktop` |
| `Files` | the file commands of `kernel/sv_desktop.c`, `apps/app_disk.c`, `apps/app_trash.c`, `apps/app_terminal.c` over the calls of `fs.c` and `fat32.c` |
| `RamFiles` | the table of files in `kernel/fs.c`, beside a volume that may be mounted |
| `Notepad` | `apps/app_notepad.c` over `RamFiles` |
| `Terminal` | `apps/app_terminal.c` over `RamFiles` |
| `Calc`, `Puzzle`, `Pong` | `apps/app_calc.c`, `apps/app_puzzle.c`, `apps/app_pong.c` |
| `Rtl8139`, `Ata` | `kernel/rtl8139.c` with its card; `kernel/ata.c` with its drives |
| `Browser`, `Chunked` | `apps/app_browser.c`; its `dechunk` |
| `MCFat32`, `MCFaults`, `MCKeyboard`, `MCMouse`, `MCHttp`, `MCNet`, `MCDesktop`, `MCFiles` | small instances for TLC |
| `MCSettles` | `Mouse` and `Http`, one or the other, for what must happen in the end |
| `MCApps` | `Notepad` and `Terminal` over one `RamFiles` |
| `AppsProofs` | theorems about the table of files as `MCApps` uses it, and about Notepad's texts |
| `MCParts` | `Net`, `Calc`, `Puzzle`, `Pong`, `Rtl8139`, `Ata`, `Browser` and `Chunked`, one of them in each behaviour |
| `PartsProofs` | theorems about `Net`, `Ata`, `Pong`, `Browser` and `Rtl8139` as they stand in `MCParts` |

### Fat32

`fat` is the FAT copies, `disk` the data area, `free_clusters` the context's counter; `pc` and `o`
are the place and the local variables of the operation in progress, `wr` the
`fat32_set_fat_entry` call in progress. An operation is a walk through the steps *find* (duplicate
check or look-up), *data* / *alloc* / *payload* (the loop that allocates, links and fills
clusters), *slot* / *entry* (finding or making a free directory slot and writing the entry), and,
for removals, *empty*, *free* and *mark*. Every action does at most one disk write, so a fault can
fall between any two. A failing access (`errs`) takes the error path of the code, which mostly
returns at once, sometimes ignores it (`fat32_free_chain`'s result) and sometimes misreads it (a
failed duplicate check counts as "no such name"; a failed FAT read yields 0x0FFFFFF7, which the
walks accept as a cluster). A failing write may or may not have reached the disk. `Crash` drops
everything in memory. `Mount` reads the boot sector and FSInfo, which the driver never writes: `FsInfo` is what
it says, 0 where it is missing or invalid, and where the access to it fails the free count begins at 0 as
well. The count then follows allocations and frees, but stops at 0 (157) and at `CountMax` (0xFFFFFFFF, 176).
The ghost `base` remembers the count, the free entries and the failed accesses at the last mount.

The code has windows in which being cut short is not safe: a removal frees clusters before it
marks the entry; a growing directory is linked to a cluster that is not zeroed yet; a walk may
run into cluster 0x0FFFFFF7; a chain may be longer than the bound of the loop over it. The
ghost `mishap` records which of them an error, a power cut or a bound hit. Once it is not empty no
further operation begins, and the structural invariants claim nothing: what they show is that
these windows are the *only* ways to damage a volume. `torn` records the FAT entries whose copies
an interrupted write left apart, `lost` the orphaned clusters that failures may leave.

Abstractions: sizes in clusters, one write per cluster, one value of `Data` as a cluster's
content, names as model values (so 8.3 parsing is outside), time stamps and the debug dumps left
out. LBA arithmetic is left out but for one effect: the FAT sector of cluster 0x0FFFFFF7 does not
exist or, wrapped to 28 bits, is some other sector.

`FatVolume` has entries with a name, a directory and a content, and calls that are invoked and
answered. The mapping hides an entry as soon as its removal is decided, and shows a new one when
its directory slot is written.

### InputRing, InputQueue, Keyboard, Mouse

The handler runs with interrupts off, hence in one action (`Put`); the main loop's
`while (tail != head) { byte = ring[tail]; tail = next; ... }` is one action per access (`See`,
`Read`, `Advance`, `Handled`). `head = tail = 0` with interrupts on (`kb_set_irq_mode`) is two.
The queue of `InputQueue` is what lies between the two indices.

`Keyboard` adds the user and the keyboard, which turn strokes of `Keys` into scancodes with their
0xE0 prefixes; the handler; the decoder (`Decode`, all of `kb_handle_scancode`); and the main
loop, which switches to interrupt mode once and then takes one key per frame. A key with its
modifiers is a glyph: lower, upper, control or navigation, with letters, digits, keypad and the
rest as one code each, since the tables treat the keys of each such class alike. `kb_buf` is used by
the main loop only and is a bounded sequence. Ghosts: what was struck, with the modifiers *held at
that moment* (`struck`), and the part of it that means a key (`shown`); what was delivered; how much
was lost where.

`Mouse` adds the controller's output buffer, which holds one byte of either device and repeats its
last byte when read empty, and its configuration byte; `mouse_init` access by access, with
interrupts on, so that the answer it waits for may go to a handler and a key stroke may come
instead; and packet decoding on real byte values, since the header is told from data by bit 3,
which data may have too. Ghosts: the reports made and the pointers they mean (`made`, `course`), the
report bytes sent, and how many of them when a byte was last lost or astray (`sent`, `mark`).

### Http, Net

Nothing preempts the network code: `spin_rx` is called from the loops of `net_init`,
`net_dns_lookup` and `net_http_get`, takes frames from the card and handles each to its end. So one
action is one frame, or one decision of a loop. Frames that arrive while nobody polls wait in the
card and are seen by the next loop, which is why old segments matter.

The network loses, repeats, delays and reorders. Neither module has a bag of messages for that:
whatever somebody *has sent so far* may arrive at any moment and any number of times, or never.
In `Http` the segments under way are computed from the servers' state (`Sent`): after the GET,
every slice of the page, so that all segmentations and retransmissions are covered; in `Net` the
datagrams in all their fragmentations. Other protocols count only as `OtherFragment`.

`Http` is one call after another of `net_http_get`; `pc` is its loop ("syn", "wait", "close").
The client never sends a SYN, GET or FIN again, so they are in `up` once; it sends an ACK for every
segment. `srv[n]` is the server's side of call n, with the ghost `una`, the data whose
acknowledgement has reached it. Time-outs are choices: `NotEstablished` and `GiveUp` may happen at
any moment, since tick counts are not modelled. What the code does not do is not done here either:
it does not verify checksums, does not look at a SYN+ACK's acknowledgement number, and takes an RST
in any state. Hence two restrictions in the properties. *FreshPort*: `tcp_sport` is the tick
counter plus 137 per call, modulo 8192, so a port can be that of an earlier call, and then its
server's late SYN+ACK opens the new connection; `OnePage`, a part of `RightPage`, says what remains true. *Prefix*: after a
time-out or an RST the call returns what it has as a success, so a body is a prefix, and complete
only after a FIN. The return for a request longer than 1536 bytes is left out: the Browser's
address is shorter.

In `Net` a DNS answer is a few units that carry the query they answer and their number; positive
answers have the address in the last one, so that a truncated or mixed answer would show. `asked`
lists the queries: its last index is `dns_txid`, which the code makes from the tick counter. Two
attempts whose tick counters are 65536 apart would share it, as would a refused first attempt and a
second one whose ticks differ by the xor of 0x37, which asks for the same name; neither is modelled.
`handed` records what the last step gave to UDP or TCP.

### Desktop

One turn of the main loop is three actions: `Frame` (`frame_loop`, with whatever the mouse has done
since the last one), `Key` (at most one key) and `Draw` (only if `desktop_needs_full_blit`). Inside
a frame the calls follow each other as in the code, so operators map the program's variables before
a call (`ui`) to those after it: `FrameStart` lets the menu bar follow the active window and a
release close a pop-up; a right press opens one and ends the frame; a left press goes to
`ManagerClick` and, when no menu is or was involved, a second time to the active application
(`ClickThrough`). The early returns are kept, which is how a release can be overlooked. Windows have
the order the code gives them, from two sources: `z_seq` for a new one, `win_max_z() + 1` for one
brought to the front. Animations advance only in `Draw`, and a closing window is gone at their end.

Coordinates are abstracted to *places*: which menu title or item, which part of which window, icon
or nothing is under the pointer, with what cannot be at once excluded (the menu bar is above all).
Applications appear by what their handlers do to windows: open, close, open a file in Notepad.
Shut Down, which halts the machine, is left out. Ghosts: `grabbed`, the window whose title was
pressed, told from later ones in its slot by its opening; `landed`, whether the last frame's
input reached what it was aimed at; `undrawn`, whether something visible has changed since drawing.

### Files

`tree` has the entries of each directory in their order, with holes where one was removed, since
listings stop at `FS_MAX_FILES` entries (`Scan`) and the first match counts. A listing is the set of places it shows. A command is one action:
all its calls of the driver, most of whose results the code ignores, and then what the window, the
icons or the Trash list are refreshed from. What is *not* refreshed is the point: `disk` (each
window's directory, its parent and the entries listed), `diskClip`, `deskClip`, `icons` and `bin`
keep names and clusters that others' commands make stale. The calls are those of `FatVolume`,
without faults, on a volume that may be full (each file and directory takes one cluster).

A removed directory's cluster may hold anything later. `mishap` records that a call named one; as
nothing can be said from there on, the behaviour ends, and directories are numbered without reuse.
`remover` records who removed each. Further abstractions: the icons are rebuilt at the moment they are
marked dirty; the selected icon, or the one that was right-clicked, is one that is shown; one Trash
window; the sort orders are left out. The model keeps some behaviours that a reader of the code may not
expect. The Disk window's Cut removes the file at once, so that Paste finds nothing to copy. INFO.TXT is
written with a call that refuses existing names, so that only the first trashed file's origin is
recorded and the others are restored to the root. After entering two folders, the second "up" goes
to the root. A move by Cut and Paste on the desktop to a full volume loses the file.

### RamFiles, Notepad, Terminal

`RamFiles` has `files`, the table (each slot a name and bytes), `mounted`, and `disk`, the two
directories of the volume that the callers name: the root and one folder. The volume is there as far
as the table sees it: `fs_open` fills a slot from it and never looks again, `fs_create` refuses while
it is mounted, `fs_write` changes the slot only, and the Terminal's `fatmkdir`, `fatrm` and `fatrmdir`
change it behind the table's back. A slot's name holds 15 characters: `Cut` says which longer names are
cut to which; `Key` which names are one name on the volume (8.3, upper case). Bytes are a few
values, and what lies behind the end of a text in memory (`junk`) is a choice.

`Notepad` has its windows' arrays as functions of the window: `buf` with the bytes behind the text as
well, since saving an emptied text stores those (`fs_write` takes a length of 0 for "measure it"),
`undo` with its recorded length, which is that of the whole text although the buffer holds a quarter
of it. There is one step of undo or redo, exchanged with the text, not a ring of them. The clipboard,
the pop-up and the drag are shared by all windows, as in the code: a Paste that does not fit shortens
the clipboard for all. Ghosts: `before`, the text before the last undoable step; `kept`, what was
saved under which name. Scrolling, the striped style and the message bar are left out. Of the keys in
`README.md:302`, Ctrl+S, Home, End, PgUp and PgDn are not handled by `handle_notepad_key`.

`Terminal` has `lines`, each a sequence of words of one cell; the typed line, the scroll, and the
clipboard. `Printed` is what a command prints, `FileEffect` what it does to files; the commands that
`help` and `README.md:318` list and the table does not have (`diskinfo`, `mounttest`, ...) answer
"unknown command". `on_key` compares with the arrows' scancodes, which are the letters H and P there
and are typed before that line is reached (lines 272-281): no key scrolls. `cat` stops one line short of
a full scrollback, so once the scrollback is full it shows nothing.

`MCApps` has three scenes over one table, each with a bound of its own on the number of operations:
*editing* (two Notepad windows, all operations), *typing* (the shell, all commands and menus), and
*sharing*, where both use the same files and a volume may be mounted on the way.

### Calc, Puzzle, Pong, Browser, Chunked

`Calc` has the window's variables and keeps numbers as fractions, so that the last bit of a double
is outside but what the display shows is not: `Shown` rounds to as many decimals as the code does,
which Copy depends on. A text there is its number and its decimals, which need not be those typed: a
whole number with decimals gets a zero more (2.0 is shown as 2.00), and Paste counts what it finds.
The ghosts `terms`, `pend` and `entry` are what was typed; `odd` marks the uses of which nothing is
claimed, because the code does something else than left to right: an operator after CE takes 0 as
its left operand (366), a second point starts counting decimals again (330), and Paste puts a number
in the middle of another. The backspace of `README.md:62` does not exist. `Puzzle` is the board with
the shuffle as single passes; `Pong` a tick at a time, with the keyboard's port byte an input of the
tick, since the byte of a key released long ago may still be there.

In `Browser` the page is rendered from tokens (text, blanks, entities, the tags the code knows) chosen
at each step, so every page of that many tokens is covered. A fetch succeeds or fails in one step. The
history's index starts at -1 and `hist_push` computes the new length from it, so it stays there:
every address is written to `history[-1]`, which is in front of the array, and Back and Forward never do anything.
The fields in front of it are the scrollbar's; an address of 244 characters or more (`Long`) reaches `sb_dragging`,
which is then set or not (`HistPush`). `parse_url` clears the host before it finds that an address has
none (`NoHost`): `site` is the host and the path separately. The hover handler is
not registered. `Chunked` is `dechunk` on a body cut anywhere: characters are hexadecimal digits, line ends or
others, and the server may split the document in any way. A digit of the document that is taken for a length stands for
any length of 32 bits (`ReadAs`); one that is negative as an int, `Half` or more, ends what can be said (`Astray`).

### Rtl8139, Ata

`Rtl8139` has both directions of the card. The card writes header, data and checksum into the ring,
aligned, at any time; the driver reads a header where the last frame ended. What a cell of old data says
when read as a header is a choice (`Readings`), and `misled` records that the driver took one. In the
other direction all four slots share one buffer, and `late` records that a send has given up after 500
ticks.

`Ata` goes through an access poll by poll (`access.at`): ready, DRQ, and for a write the poll after the data and the one
after the flush. A poll ends well, or runs out, or meets an error, and what the driver does with that is
the point: it goes to the slave drive after the first two and discards the last two (139, 142). So
`WriteAnswered` reports success whatever the drive has reported. A drive is absent or has a state, a cache and a medium:
what it is sent reaches the cache when it has worked on it and the medium with a flush or whenever it likes, it may
report an error instead, and a power cut leaves the medium only. `ata_init` resets both drives. Ghosts:
`may`, per drive and sector what the writes that it answered leave there; `doubt`, the sectors whose last write was reported as a success
that the drive did not report; `abandoned`, that a drive was given up on while it worked on a command: which of two
commands it obeys is up to the drive, so no access begins until it is reset.

## 3. Runs

All runs check deadlock only where the system cannot stop; `CHECK_DEADLOCK FALSE` stands where a
bound of the model (faults, events, reports, an unsafe window) ends a behaviour.

| Run | Shows |
|---|---|
| `fat32_faults` (2.0 M states) | On a volume of 3 clusters and 2 FAT copies with one fault anywhere: no cross-links, nothing dangling, no file data in directories, mirrors equal but where torn, no leak without a failure, a free count that keeps up with the FAT from any FSInfo. Half of the behaviours have every scan bound (64, 4096 in the code) at 1, so that each early stop happens. |
| `fat32_refine` (0.16 M) | Without faults (`Undisturbed`) the driver implements `FatVolume`; between calls the readers return exactly what the tree holds; only copy makes two entries of one name. |
| `keyboard` (1.2 M) | Four strokes and releases of six keys: windows get what was typed, nothing is made up even when scancodes are lost, modifiers settle, the raw ring is a FIFO queue, and everything typed is delivered in the end. |
| `mouse_packets` (4.7 M) | Three reports and a key stroke: the pointer shows only states the user brought about; framing recovers within two reports of a loss; `mouse_init` leaves the controller as it should. |
| `settles` (0.2 M) | No byte blocks the output buffer that mouse and keyboard share for ever; with lost ACKs too, the page comes in unless the client gives up or the server aborts. |
| `http_body` (1.06 M) | Two calls, two pages and every segmentation: bodies are prefixes of the right page, whole after a FIN; no mixture of pages; acknowledged data are kept. |
| `desktop` (0.16 M) | Two window slots and both mouse buttons in any combination: what is dragged is what was grabbed, input reaches what it was aimed at, every visible change is drawn, closing ends. |
| `desktop_opens` (violation) | A file opened from the desktop may land in a window that is no Notepad: see below. |
| `files` (0.21 M) | Two Disk windows, the desktop, the Trash and the Terminal, one or two files, two commands that change the volume and any number that do not: the directories stay a tree, nobody works in a directory it has removed itself, and contents survive. |
| `apps` (1.7 M) | Notepad, the Terminal and both: cursor and undo, saved and touched files, the scrollback. |
| `notepad_disk` (violation) | What is saved in Notepad does not reach the disk: see below. |
| `parts` (0.93 M) | Eight parts that share nothing, each by itself: datagrams and look-ups, calculator, puzzle, Pong, card, drives, pages, chunks. |

The properties and what each excludes:

- **NoCrossLink, NoDangling, TreeIntact** – the three ways a FAT volume rots, at *every* write and
  not only between calls. Each relates the FAT, the directories and the operation in progress.
- **MirrorsAgree** – only a failed or interrupted write leaves the FAT copies different.
- **LeakOnlyOnFailure** – success leaks nothing, while no sector fails.
- **FreeCountKeeps** – the free count begins wrong wherever FSInfo is stale (after every restart), missing or
  unreadable. A count that began too large stays too large by the same number. One that began too small is stopped at 0 by
  allocations and counts what is freed, so it may catch up, but never gets further behind and never
  becomes too large. All this until a sector access fails after the mount, through restarts and mounts.
- **ImplementsVolume, ReadersAgree, OnlyCopyMakesTwins** – the view of the callers.
- **FaithfulTyping** – decoding is late, so Shift may be up again when the letter struck under it
  is decoded; the order of scancodes must make up for that. It holds unless a scancode or a key
  was lost or both shift keys were down (the code has one flag for both).
- **NoPhantomKeys, ModifiersSettle** – what losses may not do: a full key ring must not invent
  keys; without lost scancodes no modifier sticks.
- **PointerFaithful, ResyncsAfterLoss** – the same for the mouse. Framing on one bit recovers
  as long as data do not have that bit (movements of less than 8 per report to the right and up);
  a mouse that moves otherwise may be misread for longer, about which nothing is claimed.
- **DevicesStayOn, PointerSettles** – `mouse_init` writes back what it read as the configuration,
  so whatever it reads by mistake turns devices off. Only a key struck before the read does that.

- **RightPage** – segments come in any order, of two connections, and a FIN may overtake data: the body
  is the beginning of the right page, and all of it after a FIN (`BodyIsPrefix`, `FinMeansWhole`, `OnePage`).
- **AckedIsKept** – what the server may forget, the client has, unless its buffer was full: then
  `net_handle_tcp` acknowledges what it drops, and the loop ends.
- **PageArrives** – the client repeats its ACK for every segment out of order, and must.
- **WholeDatagrams** – the two reassembly buffers append in order and are shared by all senders.
- **AnswerIsForHost** – late answers to a first attempt or an earlier look-up are told apart.
- **DragSound** – the release that ends a drag is overlooked if the right button goes down in the
  same frame, and the window may close and its slot be taken meanwhile.
- **InputLands** – menus are those of the window active when the frame began, commands go to the
  one active when the item is chosen; windows close in between.
- **ScreenCurrent, ClosingEnds** – drawing and animations depend on each handler's asking for a redraw.
- **NoOwnStale** – several windows show one tree; each may remember directories that are gone, but
  only by another's doing.
- **FilesSurvive** – renaming, moving, trashing and restoring are a copy and a removal; the
  removal must not follow a failed copy. The property names the two commands where it does.
- **EditorSound** – the cursor, which comes back from undo, search, clicks and another file's text,
  is inside the text that every edit shifts (`TextSound`); undo and redo bring back what was there, if
  it fitted the undo buffer (`UndoRestores`).
- **SavedIsKept, TouchedIsFound** – two programs and a volume share one table by name. Excepted are
  names that are cut, and texts saved empty. `TouchedIsFound` is about the table without a volume.
- **Scrollback** – the last `TERM_MAX_LINES` lines, in order, whatever printed them.
- **LeftToRight** – the calculator's one flag against sequences of keys nobody would list.
- **Solvable** – parity of the board, an invariant of every move the code should allow.
- **PointOnlyOnMiss** – speed grows with each hit, and the tests are at the ticks only.
- **FramesInOrder** – rx: whole, once, in order, around the end of the ring, until an old header is
  read; tx: once, unmixed and in order, until a send has given up.
- **WrittenSurvives** – data, wait, flush, wait: a write reported as done is on the medium before the power can go, and
  one that was cut short leaves the old sector or the new one. Excepted are the sectors whose last write the driver reported as
  done although the drive had not: the property shows that the discarded statuses endanger these and no others. It is about one drive;
  that a sector may be written to one drive and read from the other is in the model, and in the list of hazards.
- **LinksInAnchors** – links are recorded by line, column and length when their anchor ends; no
  click may follow another anchor's link.
- **PageAsSent** – chunk lengths, line ends and the end of the body in any position.

*Violations*: `desktop_opens` checks what `notepad_open_file` relies on, that a new window is on top.
A click raises a window with `win_max_z() + 1` without touching `z_seq`, and the window opened next
gets `++z_seq`, which may be lower or equal: the file's text is then loaded into the slot of
the window that is on top. `notepad_disk` checks `README.md:59`, "`Ctrl+S` save to FAT32 disk":
`notepad_write_buffer_to_file` writes the slot of the table and nothing else, so the volume keeps the
old content (and a restart loses the new one). `PROJECT.json` quotes the lines.

Symmetry. `files` uses that of the windows and of the files' contents. `http_body` uses that of ports, `parts` that of host names. The FAT32 runs use the symmetry of names and data: nothing orders them, and those runs check
no liveness. (Clusters are not symmetric: the code takes the lowest free one.)

Bounds. *FAT32*: three clusters (root and two more) suffice for a chain of two, a directory in a
directory, growth of a directory (two slots per cluster) and a full volume; two names give
duplicates and two directory slots; an FSInfo of 2 is right for the new volume and wrong once it is used, and a failed access to it gives 0; two FATs give mirrors; one fault gives every single fault, and
since a mishap ends the run a second one could only add harmless ones. *Input*: rings of 4 (128, 256 in
the code) fill up and wrap; a key ring of 3 (64) fills up; four key events give Shift, letter,
release, letter, or two prefixed keys; three reports give a loss and two to recover. Bounds on
events, reports, strokes and faults are in the guards (`MaxEvents`, `MaxReports`, `MaxStrokes`,
`MaxFaults`). *Network*: two calls give an old connection and a new one, on the same port or not;
sequence numbers modulo 16 (2^32) with a server that begins at 14 wrap within the page; a `tcp_asm`
of 5 tokens (40 KiB) does not hold the longer page, one of 8 does; an `out_cap` of 3 cuts a body of
three; two look-ups of two attempts each give every pair of a query and a late answer to another;
buffers of 2 and 3 units (1600 and 2048 bytes) fit some datagrams and not others. Calls and look-ups
are bounded in the guards (`MaxCalls`, `MaxLookups`). *Desktop*: two slots (8 in the code) give an active
window and one below it, and a slot that is taken again; the finding needs more, and its run has
four. Animations of two frames have a first, a middle and a last one. `MaxZ` and `MaxOpens` bound
the order and the windows ever opened. *Files*: a volume of five clusters is full after one
command if there are two files, after two if there is one; listings of four entries stop short of a fifth; two changes (`MaxChanges`) give
every pair of commands that disturb each other, and between them the windows go anywhere.
*Applications*: six operations in the editor (`EditSteps`) give type, copy, paste, undo, redo and one
more in two windows, with a buffer of 5, an undo buffer of 3 and a clipboard of 3 bytes (4096, 1024,
1024), so that each overflows; four (`ShareSteps`) give open, clear, save and open again with a
command or a mount in between; three commands (`ShellSteps`) overfill a scrollback of three lines.
*Parts*: six keys (`CalcSteps`) give number, operator, number, operator, number, equals; a board of
3 x 2 has both kinds of row and column and its own parity rule; a court of 14 x 8 with speeds up to 2 and a
paddle 1 wide keeps the code's relation of top speed to the reach of a paddle's test; a ring of 16
cells wraps with the second or third frame; three accesses to two sectors (`MaxAccesses`) with one power cut (`MaxCuts`) give write,
write that is cut short, read; three lines of three cells are filled by the seven tokens of a page (`MaxTokens`), three of which
are followed by three acts of the user (`BrowserSteps`); documents of three characters are split in
every way. The bounds on steps are guards of `MCApps` and `MCParts`, which the modules do not have.

Fairness. `Fat32` has none: its properties are safety. `Keyboard` assumes weak fairness of the
interrupt and of the main loop, `Mouse` also of the devices' sending. The code justifies it:
`irq_system_init` enables both interrupts before the desktop starts and nothing disables them
again; the main loop has no exit; a device sends when the output buffer is empty. `Http`
has weak fairness of the wait loop's exit (`Stop`: the loop runs on its own), and strong fairness of
the server's retransmission arriving and of acknowledgements arriving: a server retransmits what is
not acknowledged, and a network that loses everything from some moment on delivers nothing. Nothing
makes the client give up, so `PageArrives` does not hold by way of a time-out. `Desktop` assumes weak
fairness of `Next`: the main loop has no exit. `Files` has no fairness.

## 4. Proofs

| Theorem | Says | Argument |
|---|---|---|
| `Fat32Proofs!TypeCorrect` | every FAT entry, slot and variable stays in range, for every volume and number of faults | inductive: `TypeOK` with `Control`, which says where a `fat32_set_fat_entry` call returns to and that the data loop has data left |
| `Fat32Proofs!MirrorsSafe` | `MirrorsAgree` for every number of FAT copies | `MirrorInv` adds that the copies before `wr.i` have been written |
| `Fat32Proofs!CrossLinksNever`, `DanglingNever` | `NoCrossLink` and `NoDangling` at every disk write, for every volume and number of faults | `ChainInv`, see below |
| `Fat32Proofs!CountKeeps` | `FreeCountKeeps` for every volume, every FSInfo and any number of restarts | `CountInv`, see below |
| `Fat32Proofs!LeaksOnlyOnFailure` | `LeakOnlyOnFailure` for every volume and number of FAT copies | `LeakInv`, see below |
| `Fat32Proofs!TreeStaysIntact` | `TreeIntact` at every disk write, for every volume, tree and number of faults | `TreeInv`, see below |
| `InputProofs!RingIsQueue` | `InputRing` implements `InputQueue` for every ring size | `RingInv`: between `See` and `Advance` the slot is not overwritten; lemmas on arithmetic modulo the size and on the span between two indices |
| `KeyboardProofs!KeyboardTypeCorrect`, `KeyboardIsQueue` | types and ring bounds; the whole driver refines the queue | each step is a step of `InputRing` or leaves the ring alone |
| `KeyboardProofs!TypingFaithful`, `ModifiersTrue` | `FaithfulTyping` and `ModifiersSettle` for all keys and ring sizes | `TypingInv`, see below |
| `KeyboardProofs!PhantomsNever` | `NoPhantomKeys` for all keys, ring sizes and numbers of losses | `StemInv`, see below |
| `MouseProofs!MouseTypeCorrect`, `MouseIsQueue` | the pointer stays on the screen and indices in their arrays, whatever bytes arrive | as above, with lemmas on the bits of a byte and on clamping |
| `MouseProofs!SetupSafe` | `DevicesStayOn` | `SetupInv`: until the configuration is read its answer is the only byte that can come, so reading it a second time from the latch is as good |
| `MouseProofs!PointerIsFaithful`, `ResyncIsSound` | `PointerFaithful` and `ResyncsAfterLoss` for every screen, ring size and set of reports | `StreamInv`, see below |
| `PartsProofs!NetTypeCorrect`, `ReassemblySafe` | no fragment is written beyond its buffer; `WholeDatagrams` for all datagrams and buffer sizes | `NetInv`: what a buffer holds is the beginning of the one datagram with its identification (`Reassembling`), since answers have identifications of their own (`UniqueIds`) |
| `PartsProofs!LookupSafe` | `AnswerIsForHost` for any number of hosts and look-ups | `LookupInv`: while a look-up runs its last query is for its host, and `dns_pkt` answers that query only |
| `HttpProofs!HttpTypeCorrect`, `RightPageSafe`, `AckedKept` | `TypeOK`, `RightPage` and `AckedIsKept` for any number of calls, all pages, buffer sizes and moduli of sequence numbers | `HttpInv`, see below |
| `DesktopProofs!DesktopTypeCorrect` | `TypeOK` of `Desktop` for any number of windows and length of the animations | `Steady`, see below |
| `DesktopProofs!DragIsSound`, `InputReaches`, `ScreenIsCurrent` | `DragSound`, `InputLands` and `ScreenCurrent`, likewise | `Steady` |
| `DesktopProofs!FilesTypeCorrect` | `FilesOK`: the directories form a tree, and what windows and icons remember are directories there have been | `FilesInv`, see below |
| `DesktopProofs!OwnStaleNever` | `NoOwnStale` for any number of windows, names, contents, directories and clusters | `FilesInv` |
| `DesktopProofs!FilesStay` | `FilesSurvive`, likewise: every command keeps every content or is one of those named | `FilesInv` and `Keeps`, see below |
| `PartsProofs!WrittenOutlives` | `WrittenSurvives` for all sectors and data and any number of errors, resets and power cuts | `AtaInv`, see below |
| `PartsProofs!NoJump` | `PointOnlyOnMiss` for all sizes and speeds | `PongInv`: a ball that has not been noted as missed has not reached the paddle (`LeftOpen`, `RightOpen`), and no tick takes it further than `MaxSpeed` |
| `PartsProofs!LinksSafe` | `LinksInAnchors` for every page and all table sizes | `PageOK`, see below |
| `PartsProofs!BoardsSolvable` | `Solvable` for every size of the board and any shuffle | `BoardInv`, see below |
| `PartsProofs!CalculatesLeftToRight` | `LeftToRight` for any number of keys and all digits | `CalcInv`, see below |
| `PartsProofs!DechunkSafe` | `PageAsSent` for every document, every way to cut it into chunks and wherever the body is cut off | `DechunkInv`, see below |
| `PartsProofs!FramesSafe` | `FramesInOrder` for every ring size and all frame lengths | `RecvInv` and `SendInv`, see below |
| `AppsProofs!TouchedSafe`, `SavedSafe` | `TouchedIsFound` and `SavedIsKept` for any number of slots, windows and names and all buffer sizes | `AppsInv`, see below |
| `AppsProofs!EditorIsSound` | `EditorSound` for any number of windows, all texts and all sizes of the text, undo, clipboard and pattern buffers | `EditInv`, see below |
| `AppsProofs!ScrollbackIsWhole` | `Scrollback` for all words and files, every size of the scrollback and every length of a line | `ScrollInv`, see below |

The longer arguments:

- **Chains on the disk** (`ChainInv`). Between two writes a volume is not in order, so `NoCrossLink`
  is not inductive. `Course` says what the call in progress is about: which cluster the pending
  `fat32_set_fat_entry` is for and with which value. `Chains` says, while nothing worse than a scan
  stopped at its bound has happened, that every cluster has at most one owner; that the root is never
  free; that only the victim of a removal may dangle (`OnlyVictimDangles`); that the cluster just
  allocated is nobody's target until it is linked (`NewInv`), nor is the head of a chain that has no
  entry yet (`FirstInv`); and that what a removal has still to free is the rest of the victim's chain
  (`RemoveInv`). Each step then leaves the pointers alone, adds one to an unclaimed cluster, or takes
  one away.
- **The free count** (`CountInv`). After a mount without failing accesses every walk is on clusters in use (`Places`),
  and `Balance` relates the counter to the free entries at every step: they
  differ by one between the write of a FAT entry and the update of the counter. `Level` is the property's relation between the two
  and what they were at the mount (`base`); it is kept by adding one to both, by taking one from both, and by
  taking one from the free entries when the counter is 0 already. A volume that is mounted again may have been cut off in any state, so
  that a directory has a cluster, which the walks need, has an invariant of its own that restarts do not end (`HeadsInv`).
- **Leaks** (`LeakInv`). That an operation that succeeds loses no cluster is a statement about the whole
  disk, since writing a cluster destroys the entries in it and a scan stops at the first unused slot.
  `Kept` therefore holds, while `errs = 0` and no cut has done harm, on top of `ChainInv`:
  a free cluster holds no entry (`FreeBare`); the clusters `F` of files and `G` of directories are kept
  apart, and a rank `R` numbers those of a directory along its chain (`Apart`); within the bound of
  a directory scan only the last cluster of a directory has unused slots, and they are its last
  (`InOrder`), so a slot that the driver takes hides no entry behind it; what the call in progress knows of `F`,
  `G` and `R` (`Knows`, `NewKnown`); and the chain that a removal frees ends within clusters without entries (`Walks`).
  `Held` then names, at each step, the clusters that nothing leads to but the call still has in
  its variables; between two calls it is empty. `F`, `G` and `R` are quantified in the invariant, so the model
  needs no history variable for them: each step's lemma names the new ones.
- **The tree** (`TreeInv`). What an open leads to is of its entry's kind, and its chain ends: this too is about the whole
  disk, and nothing on the disk says of a cluster which it is. There are, at every step, sets `F` of the clusters of files, `G` of
  those of directories and `P` of those that are being made, apart from each other (`Separate`), and numbers `L` that decrease
  along every chain, so that no chain is a circle (`Follows`); entries of files lead into `F` (`FilesOf`), those of directories
  into `G` (`DirsOf`), and only clusters of `G` hold entries (`EntriesOf`). Each step's lemma names the new
  sets and numbers: a cluster allocated joins `P`, one linked moves to the kind of the chain it is linked to, one freed leaves both at once,
  which is sound because by `OneOwner` of `ChainInv` nobody but the entry being removed leads there (`Leaving`).
  `TreeIntact` follows a chain by a recursive function (`Trail`). That the function exists (`TrailExists`), that a walk stays
  within one kind (`TrailStays`) and that it ends (`TrailEnds`) are inductions on numbers, taken from `WFMin` as the least
  counterexample (`FirstMissing`).
- **What is typed** (`TypingInv`). The scancodes under way form one queue `Ahead`: the byte the main loop
  has taken, the ring, and what the keyboard has still to send. `Settling` says that a run of the decoder over
  this queue leads from the driver's modifiers and delivered keys to the keyboard's modifiers and to
  `shown` (`Leads`). The run is quantified as two functions, so nothing is defined by recursion: a byte stored or moved
  leaves the queue as it is, a byte handled cuts off the run's first step (`LeadsOff`), a key struck adds its
  scancodes at the end (`LeadsOn`). That each step of the run only adds keys gives the prefix.
- **No key is made up** (`StemInv`). Every key that `kb_getchar` may still deliver and every byte of a stroke that is
  under way in `Ahead` has a stroke of its own, and these strokes come in the order of the keys and bytes (`Traced`,
  `Placed`). A loss only takes bytes out of the queue, which leaves the other places as they are (`Within`); a byte handled hands its
  place on to the key it stands for; a key struck brings a place behind all others.
- **The mouse's stream** (`StreamInv`). `Line` is the queue of report bytes between the mouse and the decoder, the
  controller's buffer included, and `Done` the decoder's place in the stream of all report bytes. `LineInv` says
  which byte of which report each byte of the line is, from the last mishap on; `StepInv` what the decoder
  holds at its place: the beginning of the current report and the pointer that the reports before it mean. After a mishap this
  is so again one whole report later: what was left of an old packet is completed by the header or by the
  first byte of data, and the bytes up to the next header begin no packet (`Plain`).
- **TCP** (`HttpInv`). `Owned`: while a connection is open there is one call on this port such that
  `tcp_asm` is a prefix of its page and `tcp_rcv_nxt` is its server's initial number plus what has been
  taken, modulo `Mod`; only a full buffer lets the two go apart. A slice of another server's page with
  the expected sequence number would break it; lemma `Clash` shows that there is none, since the
  initial numbers of servers are further apart than a page is long. `AcksSound` says that every ACK on
  its way covers only what is in the buffer, or that the buffer is full.
- **Windows** (`Steady`). A frame is several calls in a row, so the invariant is about the program's variables
  between two calls (`Sound`), and every call has a lemma that takes a sound state *onward*: no window's slot is
  freed or given to another, and what is dragged stays. Only the press of a title and a release change what is
  dragged, and only the end of a closing animation, which resets it, frees a slot. That a pressed window is on
  top (`Fronted`) needs that `win_max_z` is above every window in use, which is why `win_bring_front` may ignore
  `z_seq`; the greatest of the z numbers (`Order`) exists by an induction on the slots, taken from `WFMin`.
  Every path that changes something visible ends by asking for a redraw (`Ended`, `Returned`).
- **The file commands** (`FilesInv`). What a window remembers can only be judged by how the directories hang together, so
  the calls of the driver are reduced to the edges from directory to directory (`Edge`): writing, copying and unlinking files
  leave all of them (`Same`), `Mkdir` adds one to a new directory (`Grows`), `Rmdir` takes away the only one that leads to a directory
  that leads nowhere (`Shrinks`), and a command of several calls does one of these. `MemoOf` is what a window remembers: its entries, as far as they
  still exist, are entered from its directory, and its parent still leads to it if it exists. That is why a window's own
  removal, after which it lists its directory again, takes away neither its directory nor its parent
  (`MemoRefreshed`): neither is empty. The edge to the parent is what `NoOwnStale` itself does not have. The icons
  are built anew by everybody but the Terminal and commands that remove nothing (`IconMemo`).
- **The contents** (`Keeps`). A call that puts an entry puts it into a hole. A move is a copy and the removal of the first entry of the
  old name: that this is the original or the copy, so that the other stays, is `MoveKeeps`; it needs that the copy was made
  (`CanCopy`), which renaming, trashing and restoring look at and the desktop's Paste does not. A directory is removed when it has holes only,
  and its entry holds no content. `UnlinkAll` is a recursive function; that it exists (`ErasedOn`) and leaves the directories
  (`UnlinkAllSame`) follows from the least number for which it does not.
- **The disk's writes** (`AtaInv`). Unless a sector is in doubt, what a drive's cache and its medium hold of it are each among the contents
  that the writes it answered may leave (`Held`). A drive that is still storing a sector does so for the access under way, or the
  sector is in doubt (`Pending`). `Staged` says how far the drive is at each poll of the driver: a drive that is heard to be ready
  after the data has it in its cache, and one heard again after the flush has it on its medium, which is where the order of the two comes in.
- **Links** (`PageOK`). Not the links already made but the one that closing the anchor *now* would
  make is what carries the induction (`OpenOK`): its cells are those of the open anchor. Each token
  appends one cell (`Puts`) or none (`Keeps`), and a row that is left is never written again.
- **The card** (`RecvInv`, `SendInv`). Until `misled`, the frames not handed on yet lie in the ring one
  after another from `rxOffset` on, at distances `D` that stay below the ring's size; lemmas `RingMod`,
  `PlaceAt`, `PlaceOn` and `PlaceDistance` are the arithmetic of going round the end. Outwards, until a send gives
  up, the one frame that is not on the wire is in the buffer, and its slot is the card's next.
- **The puzzle** (`BoardInv`). A tile that slides keeps every inversion with tiles outside the cells it passes over, and with each
  tile it passes over it is out of order either before or after (`SlideCounts`); so the number of inversions changes by the parity
  of the cells between, which are none for a move along a row and one less than a row's for a move to the next row (`Beside`), where
  the parity asked for changes likewise. The cells are counted by a bijection from the inversions with one tile
  to the cells against it (`CountedAt`).
- **The calculator** (`CalcInv`). It is in one of four situations: nothing typed, a number, an operator, or a result shown. While a number is
  being typed, it is the last of the terms and the accumulator has the value of those in front of it (`After`); after an operator both registers
  hold the value of all. "=" and a second operator are then one more `Apply`, or none. Typing a digit changes the number by arithmetic on
  fractions, and must give the fraction that the digits so far stand for: for that, fractions of one value must be one fraction (`SameFrac`). `Gcd`
  and `Tens` are recursive functions; that they exist (`GcdOn`, `TensOn`), that a factor common to two numbers comes out of their greatest common
  divisor (`ScaledGcd`), and that a term more applies its operator to the value of the others (`ValueOfAppended`) follow from the least number
  for which they do not.
- **The body in chunks** (`DechunkInv`). At every stage of `dechunk` the first `i` characters of the document have been copied and what is left of the
  buffer is the beginning of some body for the rest of the document, all of it if the body came whole. `Bodies` is a recursive
  function on places in the document; that it exists (`ServedOn`) and what its bodies look like (`BodyIs`) follow from the last place for which
  that fails.
- **The table of files** (`AppsInv`). That a file is found under its name does not yet say that a reader
  and a writer get the same slot. `OneRow` does: a name that no longer one is cut to has at most one slot
  in use. It holds because `fs_open` and `fs_create` take a spare slot only for a name that has none, and
  store the name cut; `Titles` adds that Notepad saves under names that have been cut. Every operation leaves the rows
  alone, writes the data of one (`Writes`), takes a spare one (`Takes`) or gives one up (`Drops`). That the
  first slot of a name exists (`LeastIn`) is an induction on numbers, taken from `WFMin`.
- **Notepad** (`EditInv`). That the cursor is inside the text is not inductive: undo brings a cursor back with a
  length, search moves it behind a match, the mouse to where it points. `TextOK` is about every window, open or
  not, and every array is a string of bytes of its full size; `UndoOK` says that while there is a step to take back the saved
  cursor is inside the saved length, although the saved text may have been cut, and that what is saved begins with the
  text that was there, if it fitted. The pattern, the clipboard and what files and the volume hold are strings of bytes,
  since all of them become text. The lemmas on texts (`UpToText` to `WithoutText`) say how long a piece, an
  insertion and a removal are.
- **The scrollback** (`ScrollInv`). `Shows` says that the window of the scrollback is the end of what was pushed.
  Pushing one line keeps it so, whether or not the ring is full (`PushShows`). A command pushes several lines, by
  the recursive function `after` of `PushAll`; that such a function exists is what TLA+ leaves to be proved, and `PushedOn` proves it
  for every number of lines, by the least number for which it fails. The rest is that every command prints a
  sequence of lines.

`ChainInv`, `CountInv`, `LeakInv`, `TreeInv`, `HttpInv`, `AppsInv`, `EditInv` and `FilesInv` were checked by TLC on the runs' instances before they were
proved, `StreamInv` on a smaller one with two reports. The proofs changed how the models are written, not what they do. `Found` of `Fat32` and
`Glyph` of `Keyboard` were a CASE whose guards overlap, where the code has `if ... else if`. TLC takes the first guard that is true,
as the code does, but the logic leaves open which; they are IF ... ELSE now. And what the user brought about,
`shown` and `course`, was computed from the whole history by a filter and by a recursive operator, which the provers
cannot unfold; both grow with the action that strikes the key or makes the report now.
Notepad leaves out the CRs of a file, `fs_list` the slots not in use, by naming the place of everything that stays
(`InOrder` of `RamFiles`); the filter of the standard modules is recursive. `NoPhantomKeys` says that an increasing assignment of
strokes exists, where it searched for one by a fold before; `TreeIntact` follows a chain by a recursive
function, where it had an operator. A listing in `Files` is the set of places of the entries it holds
(`List`), of which the least is the first match, where it was a filtered sequence; `Chunked` builds the bodies from the end of the
document, where it flattened a sequence of chunks. `Calc` has a recursive function for the powers of ten and bounds the search for the
exponent by 99, as the code does. One change corrected the model: a text on the display has a number of decimals of its
own, which is what Paste counts; it was taken to be that of the number.

Assumptions: the ASSUMEs on constants in the modules (sizes positive, `Junk` no data, at least two
slots per cluster since a new directory gets "." and ".."; that a byte is one of 256 values; that
datagrams under way at the same time have different IP identifications, as IP asks of senders; that
the first empty line of a page is CRLF CRLF, as HTTP asks of servers; that a page with its SYN and FIN
is shorter than the space of sequence numbers, 2^32 in the code, and that the initial numbers of two
servers are further apart than that, which is what TCP's clock for them is for; that the ball's greatest
speed is at most the depth of paddle and ball and that it is served between the paddles, 6 against 8
in the code; that the calculator's buttons are digits and the four operators; that the puzzle has a board and documents a greatest length; that a row is no longer than a link's text may be, 54 against 199; that a frame is no shorter than
the least the driver accepts and fits the ring with its header, 18 against 64 and 1540 against
65536; that slots are numbered from 1, so that 0 can stand for the -1 of `fs_open`; that the names
the scenes of `MCApps` open are names, and what they type is a character; that what the volume holds are
strings of bytes; that there are finitely many names and slots; that the user's contents are finitely many, differ from that of STARTAPP.TXT
and from none, that a Disk window is not the desktop or the Terminal, and that three directories fit `MaxDirs`, which are
there at the start; that the scrollback has room for the two lines
of the banner and a line for three words, 256 lines of 160 characters in the code). Nothing else.

The types of `Fat32`, `Keyboard`, `Mouse`, `Net`, `Http`, `Desktop` and `Files` are proved, so no run repeats them; every other module
has a type invariant as documentation, checked while the module was written.

Only model-checked, because out of the prover's reach:

- the liveness properties, since fairness and ENABLED are;
- `ImplementsVolume`, `ReadersAgree` and `OnlyCopyMakesTwins`: chains are followed by RECURSIVE operators. They also
  hold only while no directory reaches the code's bounds (16 clusters listed, 32 entries searched, 64 clusters
  scanned), which the run's volume cannot, so they are no theorems for every value of the constants.

## 5. Plan

Done, in this order: the FAT32 driver, input, the network stack, the window manager, the file
commands, the table of files with Notepad and the Terminal, and the small parts (calculator, puzzle,
Pong, card, drives, browser).

Left to model: `README.md:305` calls Backspace in the Disk window "Parent dir", while the code goes to the
root from the second level up, a property of `Files`; the selection and the layout of icons; scrolling and
sort orders of the Disk and Trash windows; calls of several sectors in `Ata`.

Left to prove: what section 4 lists as only model-checked.

## 6. Not modelled

Drawing (`sv_gfx.c`, the `draw` functions, the cursor), the text-mode GUI that the build does not start,
boot code, string helpers and static tables: they keep no state that another part relies on.
`kb_getchar` has no callers, and the polling branch of `kb_process` is not taken once the desktop
runs. How the keyboard controller, the devices and the disk behave is external and is modelled from
how the code uses them. The PCI scan runs once and `ata_identify` never. The Control Panel
changes settings that drawing reads, and the calculator's mode, which is an action of `Calc`.
What is listed in the plan is not modelled yet; `PROJECT.json` has each component's status and each
known hazard with the properties that cover it.
