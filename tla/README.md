# ArcOS: a TLA+ verification project

ArcOS is a small 32-bit x86 kernel in C and assembly: a boot chain, a text
console with a line editor and a shell, a first-fit heap, interrupt and device
code, and the parts of a graphical desktop. This directory holds TLA+ models of
its components, the TLC configurations that check them, and proofs.

## 1. Inventory of the system

What the Makefile links is kernel/*.c (without menuconfig.c) and kernel/*.asm;
kernel/de, kernel/drivers, boot, arch, lib and scripts are in the tree and not
in the image. Several subsystems have no caller inside the tree
(`init_idt`, `init_pic`, `init_paging`, `wm_*`, `network_*`): they are modelled
as libraries, from the calls their interface allows. `kernel_init` is called by
boot/boot.asm only, which the Makefile does not link.

| Component | Source | State it keeps | Operations | What is hard, and what makes it correct |
|---|---|---|---|---|
| Kernel heap | kernel/memory.c | pool, block list | memory_init, kmalloc, kfree | the two loops rewrite the list they walk; blocks tile the pool, regions held are disjoint and stay put, nothing free is lost, first fit overlooks nothing |
| Text console | kernel/terminal.c | row, column, colour, VGA cells, the CRT's cursor registers | put_char, write_string, clear, move_cursor, cursor_left/right, delete_char, ... | two cursors, software and hardware, that each operation moves separately; writes stay on the screen |
| Line editor | kernel/keyboard.c | command buffer, cursor | special keys, insert, delete, backspace, enter, getline | terminator, cursor and screen must stay in step over any sequence of keys, also in a full buffer |
| Keyboard controller | kernel/keyboard.c, interrupt_handlers.c, irq.asm, pic.c | 8042 output buffer, modifiers, PIC in-service bits | process_scancode, getchar, getline, keyboard_handler, irq_handler | the same port read by the interrupt handler and by the polling loop |
| Shell | kernel/kernel.c | command string | kernel_main, handle_command | what a command leaves behind for the next one |
| Paging | kernel/kernel.c | page directory and tables, control registers | init_paging | an allocation that fails half way through |
| Boot checks | boot/*.asm, kernel/entry.asm, kernel_main | registers at hand-over | disk retries, mode switch, magic number | three loaders that must agree with one kernel entry about a calling convention |
| Window manager | kernel/de/window_manager.c | windows, count, active | init, create, set_active, mouse, main loop | the active index, the active flags and the count are updated at different moments |
| Desktop | kernel/de/desktop.c | windows, z-order by index, active window | create, close, focus, move, resize, mouse | flags of all windows against one index |
| Dock, menu bar | kernel/de/dock.c, menu_bar.c | items, active item, open menu | add, set, draw, click | hit areas against drawn areas, stale counts after re-initialising |
| Mouse | kernel/mouse.c | packet phase, position, buttons | init, handle_interrupt | a three-byte protocol over single interrupts, lost bytes |
| Disk | kernel/disk.c, bios.asm | geometry, retry registers | read, write, geometry, create_partition | retries with registers the failed call overwrote, CHS field widths |
| C heap | kernel/stdlib.c | bump pointer | malloc, calloc, realloc, free | arithmetic that wraps at 2^32 |
| Formatting | kernel/stdio.c, itoa, stdlib.c | none | vsnprintf, vsprintf, itoa, atoi | boundaries of the buffer and of the word |
| Graphics | kernel/graphics.c | mode | put_pixel, lines, rectangles, circles | loops over 16-bit coordinates |
| Network table | kernel/drivers/network.c | devices, count | register, send, receive, set_state | the table's copy of a device against the caller's |
| Interrupt tables | kernel/idt.c, pic.c, isr.asm, irq.asm | gates, masks, stack frame | init_idt, init_pic, dispatch | vectors without a gate, frame layout |
| Installer, splash, cpu, fs, io | kernel/*.c | counters, stubs | init, install | mostly constants and port I/O |
| menuconfig | kernel/menuconfig.c, scripts/menuconfig.c | .config and config.h | load, edit, save | two files written one after the other; values that are read back by their look |
| Vendored and generated | build/, isodir/, *.img, limine | none | none | not the program's own logic |

Interactions. The line editor draws through the console and shares its cursor;
the shell calls the line editor and the console; the interrupt handlers and the
polling loops share the 8042 and the PIC; paging and the window manager are the
only clients of the kernel heap; the desktop owns the dock and the menu bar and
reads the mouse state; the boot chain hands its registers to `kernel_main`.

## 2. Plan

The order in which the project was built, the most important behaviour first.
Section 3 describes the modules and runs, section 4 the proofs.

| | Modules | Code | State |
|---|---|---|---|
| 1 | Allocator, KMem, KMemProofs | kernel/memory.c | checked and proved |
| 2 | TerminalOps, TerminalOpsProofs, Terminal | kernel/terminal.c | checked and proved |
| 3 | EditLine, LineEditor, LineEditorProofs | kernel/keyboard.c | checked and proved, the refinement too |
| 4 | MenuBar, Desktop, DesktopProofs | kernel/de/desktop.c, menu_bar.c | checked and proved |
| 5 | WindowManager, Paging, HeapClients, HeapClientsProofs | kernel/de/window_manager.c, init_paging | checked and proved |
| 6 | Keyboard, Shell, ShellProofs | kernel/keyboard.c, interrupts, kernel_main | checked, safety proved |
| 7 | Boot | boot/*, kernel/entry.asm, kernel_main | checked, safety proved |
| 8 | Graphics, GraphicsProofs | kernel/graphics.c | checked, safety proved |
| 9 | Strings, Format | string.c, stdio.c, itoa, atoi | checked and proved |
| 10 | BumpHeap, Mouse | kernel/stdlib.c, mouse.c | checked and proved |
| 11 | Network, Dock | kernel/drivers/network.c, de/dock.c | checked and proved |
| 12 | MenuConfig, HeaderConfig, HostTools | kernel/menuconfig.c, scripts/menuconfig.c | checked and proved |
| 13 | Parts, PartsProofs | the parts that share no state | Parts composes 2 and 8 to 12 for one run; PartsProofs holds the proofs of 2, 7 and 9 to 12 |

What could still be added: the drawing order of the desktop's windows, and the second
reader of mouse_state, desktop_main, on the Mouse module.

Composition: LineEditor contains the operations of TerminalOps; Desktop extends
MenuBar; HeapClients puts WindowManager and Paging on one Allocator, which KMem
implements; Shell extends Keyboard; HostTools puts the two configuration programs
side by side; Parts puts the modules that share no state into one specification.
Two abstract specifications stand beside the
detailed ones: `Allocator` (regions granted and given back) and `EditLine` (a
text with a cursor).

## 3. The modules

Naming: operators carry the name of the function or the variable they model, a
step of a loop or a call in progress has a name of its own. Where the code
enters undefined behaviour the model raises a variable (`wild`, `overrun`) or
goes to a state (`lost`) and says nothing of what follows.

### Kernel heap: Allocator, KMem, KMemProofs, MCKMem

`KMem` models every statement of kernel/memory.c that changes state. `block` is
the list (the header of every block reachable from `free_list`, by offset), `pc`
says which loop runs, `current` is its cursor, `asked` kmalloc's argument while it
scans; `held` is the callers' side, the pointers they may give back. `MemoryInit`
is memory_init, `KmallocCall` and the `Scan*` actions are kmalloc, `KfreeCall` and
the `Merge*` actions kfree: one action is one iteration. Callers are legal: they
free what they hold, once. Sizes are `size_t` arithmetic modulo `WordMod` where
the code can wrap (`RoundUp`).

- `kmem`: the list tiles the pool in every state of both loops (`Tiled`), no two
  callers overlap (`HeldDisjoint`), a walk overlooks nothing (`FirstFit`), nothing held moves
  (`HeldStaysPut`), nothing free is lost (`FreeIsNeverLost`), both loops end
  (`CallReturns`), and the heap implements `Allocator` (`ImplementsAllocator`).
  That used blocks are those behind a held pointer (`HeldIsUsed`) is part of the
  invariant of the proofs.
- `kmem_merge` (finding): "Merge adjacent free blocks" (memory.c:63) does not
  hold after kfree: the pass steps past the pair it has joined. First fit may
  then refuse a request the free memory could have held in one piece.

Bounds. A word of the model is 4 bytes, so a header is 3 words and the rounding
2, as on i386. A pool of 20 words holds up to four blocks, the smallest number
with which a merge joins a pair and leaves a third free neighbour, and with which
a block is freed between two others; the requests cover zero, rounding, no
rounding, one that splits nothing and one whose rounding wraps.

Fairness. `WF_vars(Loops)`: there is one thread, and the loops wait for nothing.
Callers owe nothing.

`HeldDisjoint` speaks of requests up to `MaxRequest`: above it the rounding of
memory.c:31 wraps and kmalloc hands out less than it was asked for.

### Text console: TerminalOps, Terminal, TerminalOpsProofs (run `parts`)

`TerminalOps` has one operator per function of kernel/terminal.c, on a record of
row, column, the position last written to the CRT controller (`crtc`), and the
cells. `Terminal` drives them in any order. Colours are left out, no operation
depends on them, and so is terminal_write_dec, which only writes.

- The cursor stays on the screen whatever is asked of it (`CursorOnScreen`). A
  newline moves the software cursor and leaves the hardware one behind; it is stale only at a row start (`StaleOnlyAtRowStart`). Strings are
  laid out along the cells whatever rows they cross (`WritesAreLinear`). That the
  cursor keys follow the same line and a deletion keeps to its row is seen where
  it matters, from the line editor.

Bounds: 3 columns and 2 rows, so that strings end within a row, cross one row
end and cross two, and the last row wraps to the first. Not modelled:
terminal_draw_string with a row off the screen, which writes behind VGA memory.

### Line editor: EditLine, LineEditor, LineEditorProofs, MCLineEditor

`LineEditor` models keyboard_update_command_line: `buffer`, `pos`, the console,
and one action per key. Loops over the buffer are written as what they do to it
up to its first NUL; where there is no NUL ahead of the cursor they leave the
array (`RunsWild`). `inStep` records whether a key the console does not follow
has been pressed (a backspace, which prints a glyph, an insertion before the end,
which is not redrawn, an Enter, ...).

- `line_editor`: the cursor stays in the text (`CursorInText`), the array is left
  only when every byte holds a character (`WildOnlyWhenFull`), the screen shows
  the line while in step (`ScreenShowsLine`), the cursor keys move both cursors
  together (`CursorKeysTogether`), and the buffer is an `EditLine`
  (`ImplementsEditLine`).
- `line_editor_buffer` (finding): typing to a full buffer, stepping left and
  typing once more drops the NUL (keyboard.c:228-230), and the End key runs off.

Bounds: a buffer of 5 bytes on a screen of 4 cells in two rows: the text fills
the buffer, spans rows, and reaches the last cell. `CHECK_DEADLOCK FALSE`: a
wild editor takes no step.

### Desktop: MenuBar, Desktop, DesktopProofs, MCDesktop

The window table (`visible`, `active`, `shape`), `active_window`, the menus, and
`pc` of desktop_main. A click is given by what it hits: a menu name, the bar
beside the names, a point below, or the gap of five rows the two files disagree
about (MENU_BAR_HEIGHT is 25 in desktop.c and 20 in menu_bar.c). A window's
rectangle is the set of points it covers. Create, close, focus, move, resize and
clicks may come between any two steps of desktop_main. Drawing is left out.

- `desktop`: the active window is shown and marked and no mark survives in a slot
  not shown (`WindowsInOrder`), the menu drawn open is the
  one clicks go to (`OpenIsActive`), a window stays where it is while others come
  and go (`ShownStaysPut`).
- `desktop_focus` (finding): opening a second window leaves the first one marked,
  and a focus clears only the mark `active_window` names.

Bounds: three slots (a slot is reused between two others), two menus, overlapping
and nested rectangles over two points. The initial menu items are added one by
one, as desktop_init does.

What the model also shows and no run states: the name of an open menu closes it
and opens it again (menu_bar.c:183-188), and desktop_main reads the mouse once,
before its loop (desktop.c:145), so that one click is handled after every key.

### Window manager and paging: WindowManager, Paging, HeapClients, MCHeapClients

Both are clients of `Allocator`, whose steps they extend: a call of kmalloc is
`Request` and later `Grant` or `Refuse`. The thread is one, so init_paging and a
window's creation never interleave with the other's. `BufferWords` wraps as
width * height * 4 does in size_t. `overrun` is raised where init_paging writes
1024 entries of eight bytes to pages of 4096 (kernel.c:394-400): nothing is said
of the heap after that.

- `heap_clients`: mark and index of the active window agree (`FlagIsIndex`),
  windows in use have buffers of their own, which hold all that drawing reads
  unless a size wrapped (`BuffersAreBacked`), paging is
  enabled only with every table in place (`EnabledIsBacked`), and every region
  has an owner that can still name it (`EveryRegionHasAnOwner`). For a failed
  init_paging that owner is `page_tables`: the error path frees the directory and
  none of the tables (kernel.c:385-388), and a second call would drop them.
- `new_window_active` (finding): wm_create_window activates the window before it
  counts it, so that wm_set_active returns early.

There are two places where a window's size can wrap: the product of its sides,
and the rounding of kmalloc (memory.c:31), which the abstract heap keeps as
"at most `MaxRequest`": above it a grant may be smaller than what was asked. The
property excludes both, and the shapes of the run reach both.

Bounds: a pool of 7 words, words of 3 bits, two windows, two tables; shapes that
fit, that are empty, whose product wraps (9) and whose rounding wraps (7). The heap may refuse anything and grant any free
place, so the pool's size limits only how many regions there are at a time.

### Keyboard and shell: Keyboard, Shell, MCShell

`Keyboard` has the 8042's output buffer, the PIC's request and in-service bits of
IRQ1, the interrupt flag, and `handler`, the point irq_handler has reached.
`Shell` has keyboard_init, keyboard_getline on keyboard_getchar, and
handle_command. Status read and data read are two steps, and the handler may run
between them. Interrupts are never enabled by what is linked (init_idt and
init_pic have no caller): kernels with and without them are initial states.
irq_common passes no frame, so irq_handler reads a vector nobody chose: whether it
takes the interrupt for the keyboard's is nondeterministic. The command "install"
ends in bios_call, which clears DS and raises interrupt 0x13 in protected mode
(bios.asm:23-42); the program is `lost` there.

- `shell`: the line handled is what was typed, also when it fills the buffer and
  after longer lines, and only that line stops the machine (`LineIsKept`); without
  interrupts no byte is read twice (`PolledByteIsFresh`); the handler, which
  acknowledges first and then waits for a key, is not entered again
  (`HandlerNotReentered`); a waiting byte is read by someone (`ByteIsTaken`).

With interrupts enabled a byte may be taken by the handler between the two reads
of keyboard_getchar, which then reads the last one again: `PolledByteIsFresh` is
stated for the kernel without them. A line that fills the buffer is handled
without an Enter (keyboard.c:254) and the rest becomes the next command.

Bounds: a buffer of 4 bytes and words of one and two characters, so that a line
is shorter than, as long as, and longer than the buffer, and one command is the
beginning of another. Fairness: `WF(Main)` and `WF(Service)`, the processor runs
whichever of the two is on it; keys need not be pressed.
`CHECK_DEADLOCK FALSE`: "exit" stops the processor and "install" loses it.

### Boot chain: Boot, MCBoot

One step per call of the firmware, each of which may be refused, for the three
loaders of boot/, for a multiboot loader and for one that is none. `refused` is a
history of the calls last answered with a failure. `entry` is the file whose
`_start` is linked: kernel/entry.asm (the Makefile) or boot/boot.asm, which calls
kernel_init first. `lost` is control on bytes that are not the code meant to run
there: the jump of stage 1 lands on the GDT in front of stage 2
(bootloader_stage1.asm:89, bootloader_stage2.asm:18-35), bootloader.asm and
efi_boot.c go to the first byte of an ELF file, and cpu_enable_features may write
bits to CR4 that the processor refuses (cpu.c:75-94).

- `boot`: no loader hands over with a failure unheeded, and stage 1 jumps into a
  stage 2 that is all there, with every counter in its bounds
  (`HandoversAreSound`), the main loop is reached from a
  multiboot loader only (`ShellMeansMultiboot`), the boot ends (`BootEnds`).
- `boot_compliant` (finding): entry.asm pushes the info pointer only, kernel_main
  takes it for the magic number and returns. This is the multiboot error of the
  repository's README (lines 126-127).

The numbers are those of the source. Fairness: the processor runs and the firmware
answers. `CHECK_DEADLOCK FALSE`: the boot ends.
bootloader.asm does not count the sectors it got: what `HandoversAreSound` says of
them holds of stage 1.

### Parts that share no state: Parts, PartsProofs, MCParts (run `parts`)

The console and the modules below share no variable with each other. `Parts`
extends them all; `part`, chosen at the start, is the one a behaviour follows while
the others rest. Nothing is lost by this: a property that names one part's
variables holds under any interleaving with the rest if it holds of that part
alone. Modules whose code does interact (the line editor with the console, the two
clients of the heap, the shell with the keyboard) are composed for real, in the
runs above. `CHECK_DEADLOCK FALSE`: the C heap ends where a size has wrapped, a
format where it is read past its end, an editor where it has left an array.
Fairness: `WF_gfxVars(GfxStep)`, a drawing loop waits for nothing.

**Graphics** (kernel/graphics.c). A call becomes a sequence of shapes still to
draw; `LineStep`, `AreaStep`, `RingStep` are one iteration of their loops,
`DiscStep` one column. Coordinates have 16 bits and wrap, the arithmetic within a
loop is int. A call that has returned has drawn its shape, clipped, and nothing
else (`DrawsItsShape`): lines and circles are compared with their distance from the
ideal one, the others exactly. Every call returns (`DrawReturns`) but those whose
rectangle ends at 65536 or later: the 16-bit counter never gets there
(graphics.c:123). Bounds: coordinates of 3 bits, so that every call can wrap, and two
modes, one of less than four bytes a pixel.

**BumpHeap** (kernel/stdlib.c). Blocks are disjoint and keep what was written to
them, also through a realloc that copies past the end of the old block into the new
one behind it (`BlocksAreTheirs`), until a size wraps. Bounds: five bytes and sizes
of three bits: the sum with the pointer wraps, and so does calloc's product.

**Strings** (kernel/string.c). Each function is the loop of the code on one memory, at
any two addresses: a recursive function of the rounds for those that write (`MemSet`,
`MemCpy`, `CopyChars`), of the place the loop has reached for those that read
(`EndOfStr`, `MemCmp`, `StrCmp`, ...). A loop that leaves the memory is `Lost`, and no
caller makes such a call. `CopiesAreFaithful` compares what is written, and
`SearchesAgree` what is answered, with what the C library says of the call, for every
content (`StringFunctionsAgree`). Where arguments overlap the library says nothing and
neither do the properties; the functions are modelled there too, since such a call
leaves a memory for the next one. strrchr of the terminator answers NULL and not its
place; the property states what the code does. Bounds: six bytes over three values, so
that two strings of two characters, equal or not, fit with their terminators, and a
count can be below, at and above a length; int arguments go up to twice the range of a
byte.

**Format** (kernel/stdio.c, itoa, atoi). One action per character or directive of the
format; `fmt_pos` and `taken` are the places in the format and in the arguments. An
argument is a word that %d takes as an int and %s as a text. The loops that take a
number apart and put it together are recursive functions of their rounds (`Left`,
`Decimal`). What is printed is the expansion of the format, cut to the room with its
terminator in it, and atoi reads it back (`TextIsExpansion`). The reference of the
property goes through the whole format once (`Expanding`) and gives each digit by the
power of the base at its place (`Unsigned`), not by division round after round. Three
exceptions: the least int prints as a lone minus sign (stdio.c:12), itoa of a negative
number reads in front of its digits (kernel.c:417), and a trailing percent sign is read
past the format's end (stdio.c:63): the call is `lost`. Bounds: an int of eight bits, so
that numbers of one, two and three digits exist, at the ends of each of these ranges
and of the int's own; all formats of up to three characters, and one with two
directives and one that ends in a percent sign of four; rooms from none to more than
any text takes.

**Mouse** (kernel/mouse.c). `port` is the output buffer of the controller, which the
mouse's handler, the keyboard's and the polling of keyboard_getchar all read without
asking whose byte it is; `device` is the mouse, whose first two bytes are answers
nobody awaits. Nothing in the tree calls mouse_handle_interrupt; the model lets the
mouse's interrupt do so. `heard` records the bytes of one packet read in a row.
`PacketsAreApplied`: a packet whose first byte was taken for one is applied whole,
and one with small movements puts a handler out of step back in. The direction of
a negative movement is lost (mouse.c:72: minus a negative number), so the pointer
goes right and up only. Bounds: two packets with all signs and both values of bit 3,
one scancode, positions modulo 4.

**Network** (kernel/drivers/network.c). A registered device passes no packet before
somebody enables it (`QuietUntilEnabled`), although the copy in the table, taken
before its flags are cleared, may say it is up. No function reads the copy, and
nothing in the tree calls the table. Bounds: two devices, one without a receive
function, and a table of two.

**Dock** (kernel/de/dock.c). `canvas` is what the dock looked like when it was last
drawn. A click goes to the item shown there, as it is now (`ClickMeetsWhatIsSeen`).
desktop_draw paints over the dock, which desktop_init has filled just before: until
an item changes, items can be clicked that are not to be seen. Bounds: three items
of 3 by 3 pixels on a desk of 16 by 18.

**MenuConfig, HeaderConfig, HostTools** (kernel/menuconfig.c, scripts/menuconfig.c).
Two programs of the build host, each through any number of sessions, with a stop at
any point and files that do not open. kernel/menuconfig.c writes .config and then
config.h: once a save has ended the two agree (`HeaderIsConfig`). A session after a
save shows what was saved (`SavedIsSeenAgain`), in scripts/menuconfig.c only for
values that keep their look: of a string of several words the first one comes back
(line 54), so that `(1024 * 1024)` is `(1024` after one session and a save; an
integer 0 or 1 comes back as a flag, a string of digits as a number. The menu of
that program offers "Q to quit" (line 106) and its loop ends with 'q' only (line
136). Bounds: four options of which one may be missing from the file; headers with
every kind of value, one with more lines than the table has room for.

## 4. What is proved

Every theorem holds for all values of the constants that satisfy the named
assumptions of the modules. TLC checks the same properties on the instances above.

`KMemProofs`, for every pool, header size, alignment, word and set of requests
that satisfies `ConstantsAssumption`. The inductive invariant is `IInv`: the type
invariant, `Tiled`, `HeldIsUsed`, `GrantedEnough` (a held block is as large as was
asked, if the rounding did not wrap) and `FirstFit`. `Tiled` alone is not
inductive: that a join or a split keeps it needs the cursor to be a block of the
list, and `HeldDisjoint` needs the blocks behind the pointers to be used and large
enough. The arithmetic of the rounding and the two list updates (`SplitAt`,
`Joined`) are lemmas of their own. From `IInv` follow the invariants of the run
`kmem`, its two action properties, and the refinement: the initial state maps to
the allocator's, and each step to one of its steps or to a stutter.

`TerminalOpsProofs` is what the proofs about the console and the line editor share,
for a screen of any size with two columns at least (`SizeAssumption`) and any
characters: what each operation of kernel/terminal.c leaves of the cursor and of the
cells, the cells as a ring (`RingFacts`), and where the characters of a string go
(`WritingIsLinear`). Strings and counts of steps have any length, so this needs
induction. The induction theorems of the library take an operator and cannot be
used; here the principle is obtained once, as a statement about sets: strict
inclusion is well-founded on the finite sets of naturals, so every set of naturals
has a least element (`LeastNat`), a set with 0 that is closed under + 1 is all of
them (`Induction`), and a function given by a first value and a step exists
(`Recursion`). With these, a fold over a string is shown to visit its characters one
by one (`WritesOneByOne`).

`LineEditorProofs`, for a buffer of any size, any screen, any set of characters
without the NUL and the newline (`EditorAssumption`; the newline is Enter's,
keyboard.c:224). First what concerns the buffer alone: `CursorInText` and
`WildOnlyWhenFull`, inductive together with the type (`IInv`). Then the screen:
`ScreenShowsLine` is not inductive, because a text that reaches the last cell has
nowhere to put the cursor, and because what a cursor key does depends on the
console's own invariant; `ScreenInv` adds that the cursor is on the screen, that the
hardware follows it (`Fresh`), and that in step the text leaves the last cell free.
`CursorKeysTogether` follows from the same invariant, in step or not, from the count
of the steps of Home and End. Last the refinement, `ImplementsEditLine`: the text up
to the first NUL, which exists by `LeastNat`, changes as the line of `EditLine`
does, each shift of bytes being an insertion or a removal in a sequence.

`DesktopProofs`, for any number of windows, menus and items: `WindowsInOrder`,
`OpenIsActive` and `ShownStaysPut`. `OpenIsActive` is not inductive: a menu added
at the index of an active one would be closed and stay active. The invariant adds
that the active menu is one of those in use (`active_menu < menu_count`).

`HeapClientsProofs`, for a heap of any size of which only `Allocator` is known:
`FlagIsIndex`, `BuffersAreBacked`, `EnabledIsBacked` and `EveryRegionHasAnOwner`. The
invariant says that the regions granted are exactly the owned ones (`Owned`), that
no region has two owners (`Apart`; without it a region freed by one owner would be
taken from another), and what a pending call is for (`Calling`).

`ShellProofs`, for a buffer of any length and any table of scancodes:
`PolledByteIsFresh` and `HandlerNotReentered` from an invariant in which the gate
keeps interrupts out while the handler runs (`KeysInv`), and `LineIsKept` from
`LineInv`: what was typed is the buffer up to the index, with room for its NUL.
That the word compared is the line typed needs a NUL at its end and nowhere
before; a string of the buffer is unique (`OneString`).

`GraphicsProofs`, for coordinates of any width, any modes and any arguments
(`GraphicsAssumption`): `DrawsItsShape`. That a shape is drawn when the call returns
says nothing about the middle of its loop, so the invariant (`GInv`) splits a call into
its shapes: the first ones are whole, the next is on its way, the others wait as they
were made. What "on its way" means (`Painted`) differs from loop to loop.

- A line has walked k pixels to one side and l to the other, and its error term is
  the distance from the ideal line that k and l determine; it stays within half a
  step of it (`StaysNear`), and neither k nor l overtakes its end. These are
  inequalities of products, for any ends.
- An area has swept whole rows and part of the next (`Swept`).
- The steps of a circle are pairs (a, b) with a² + b² within r of r² (`StaysFair`); the
  eight points of each stay in the ring, and every column and row of the circle has
  been met by the time b passes a (`RingCover`).
- A disc is drawn column by column; a text is its cells, and the cells fill the block.

A loop whose end wraps never ends, so it says nothing of what is drawn when it does.
The products of a circle do not overflow where no coordinate wraps: the radius is
then below half of `CoordMod`, 32768 in the code.

`PartsProofs` holds a section for each small part.

- The boot chain, for any numbers of sectors, retries and paths: `HandoversAreSound`
  and `ShellMeansMultiboot`. The invariant ties each step to its loader (`OnItsWay`),
  says which failures may be outstanding at which step (`FailuresInHand`), and that
  the magic number comes from a multiboot loader, in the register or on the stack
  (`MagicFromLoader`).
- The C heap, for every heap, word and set of sizes: `BlocksAreTheirs`. Disjoint
  blocks are not enough: one may lie ahead of the pointer, where the next one goes.
  The invariant adds that every block ends at the pointer or before it and holds no
  more data than it has bytes (`Behind`). The copy of realloc is the step that needs
  care: its source may run into its destination.
- The mouse, for any packets, keys and positions: `PacketsAreApplied`. The
  invariant `InHand` says what the handler holds after it has read one or two bytes
  of a packet, by the cycle it read the first of them in and by which it could take
  for a first byte.
- The network table, for any devices and a table of any size: `QuietUntilEnabled`.
  The invariant adds that a quiet device is down in its caller's structure, whatever
  the copy in the table says.
- kernel/menuconfig.c, for any options and defaults: `HeaderIsConfig`. The invariant
  says what the first file holds while the second is written, and that nothing counts
  as kept from the opening of the one to the closing of the other.
- scripts/menuconfig.c, for any files, words and numbers that are read back as they
  are printed (`HeaderAssumption`): `SavedIsSeenAgain`, for both programs. The
  invariant ties the file to the table of the last save, line by line; that a
  lasting option is read from its line as it was is `LastingIsReadBack`, and that
  the loading loop drops none of them is an induction over the lines.
- The dock, for any sizes, with items no taller than the dock (`DockAssumption`:
  DOCK_ITEM_SIZE is 48 and DOCK_HEIGHT 60): `ClickMeetsWhatIsSeen`. The loop that
  looks up a click stops at the first item, what is seen is the last one painted;
  both are the one item whose square holds the point (`InRow`).
- The console, for any screen and any strings: `CursorOnScreen` and
  `StaleOnlyAtRowStart`, inductive together (`TermInv`), and `WritesAreLinear` from
  `WritingIsLinear`.
- The string functions, for a memory of any size and bytes of any width:
  `CopiesAreFaithful` and `SearchesAgree`, and with them `StringFunctionsAgree`. The
  invariant is only that memory holds bytes (`MemoryInv`); the work is in the loops. A
  function that writes is followed by induction over its rounds: after k of them k bytes
  of the result are there, and none of the source has been overwritten (`MemSetFills`,
  `CopyGrows`, `CopyCharsCopies`). A function that reads answers for the first round that does not
  go on; that there is one makes its recursion well-defined (`LoopAnswers`,
  `FirstExit`), and where it is, a difference, an end or the count, decides the answer
  (`OrderedBy` for the comparisons, `StartsWithAgrees` for strstr). A string has one
  end (`TextIs`), again by `LeastNat`.
- The formatting functions, for an int of any width, any formats, words and rooms
  (`FormatAssumption`): `TextIsExpansion`. Numbers first. What k rounds of division
  leave is the quotient by the k-th power of the base (`LeftIs`, by `DividedTwice`), and
  the rounds are as many as the number has digits (`OneDigitCount`); so number_to_string
  and itoa write the reference numeral (`NumberToStringIs`, `ItoaIs`), and atoi's loop
  puts it together again without wrapping on the way (`DecimalIs`, `AtoiReadsBack`).
  Then the invariant `FmtInv`: what is written so far is the expansion of the characters
  passed, cut to the room. A cut text stays cut (`ClipPut`, `FullStaysFull`), and no
  directive asks for an argument that was not passed, since each takes two characters
  (`TwoEach`).

Only model-checked is everything temporal beyond safety (`CallReturns`, `ByteIsTaken`,
`BootEnds`, `DrawReturns`): liveness under fairness is out of the proof system's reach.
Every safety property of the passing runs has a theorem.

## 5. Not modelled

The components PROJECT.json lists as not_modelled, with the reason of each. In
short: code that does not run (stage 2 of the boot loader, of which only the bytes
stage 1 jumps to matter; disk.c, whose first call of bios_call does not return; the
duplicates under lib/, arch/ and include/), code that only prints or returns
constants (splash, installer, early printing and memory detection), single
instructions wrapped in functions (cpu, io), the exceptions and the timer, which
print and count, and images and build scripts.

In parts of modelled files: colours and glyphs, the registers of the VBE device,
names and icons, the bytes of packets, terminal_write_dec, rand and its seed, which
nothing calls, and drawing by desktop.c.
