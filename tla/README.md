# Verification of *advanced-system-programming* (HamielecKarol)

The repository holds a student's solutions to a course in system programming:
threaded programs with POSIX locks (`cw01`), character-device drivers for Linux
(`cw03`, `cw04`), broken drivers to be debugged (`cw04/debug`, `cw05/debug`), one
driver with several kinds of locking (`cw06`), system calls (`cw07`), and two
copies of Linux' `fs/proc` (`cw04/debug/proc`, `cw05/proc`), in which most of its
lines are.  All paths below are relative to `src/HamielecKarol/`.

This directory is a TLA+ development beside that code: modules that model its
programs step by step, TLC configurations that check them on small instances,
and TLAPS proofs for any number of threads, processes and calls.

To check: `tlc -config X.cfg M` for each pair in the table of runs,
`tlapm` on each of the eight modules named `*Proofs` for the proofs.

## 1. What the system is

There is no single program.  The parts are independent, but come in families
that share code by copying it, and the models share modules accordingly.  The
drivers meet in two places: the numbers they register (`linked` and `circular`
want the same one), and the entries that they make under `/proc`, whose life is
the code in `fs/proc`.

### cw01: threads in one process

Each program creates its threads in `main` and joins them.  All state is global
variables.

| program | threads | shared state | locks | what makes it correct |
|---|---|---|---|---|
| `zad1` readers and writers | 6 readers, 3 writers | `readers_count` | semaphores `readerSem`, `writerSem` | a writer is alone; everybody finishes |
| `zad2` special writer | 6 readers, 8 writers, 1 special writer that takes 3 letters at a time | queue (ring), `libb.books` | mutex and condition for the queue, the gate of zad1 for the books | readers see whole batches, in order; no letter lost |
| `zad3` libraries | 6 readers, 8 writers; each tries two libraries in turn | `books`, `top`, `readers_count` of each | two mutexes of each, with `trylock` | a writer alone in its library; no book lost |
| `zad4` reviewer | 6 readers, 8 writers, 1 reviewer | `libb.books`, `reviewer_state` | **one** mutex, as monitor of writers and reviewer and as door of the readers | each letter reviewed before the next |
| `zad5` libraries with limits | 10 readers, 8 writers, two libraries | as zad3 | as zad3 | and at most `LIB_MAX_READERS` = 3 readers in a library |
| `zad6` batches | 6 readers, 6 writers | queue (ring), `writers_mode` | mutex, two conditions | batches of three, no letter lost; everybody finishes |

Hard here: every interleaving, spurious wakeups, woken threads that find the
turn taken, a mutex that one thread locks and another unlocks, a queue whose
`QueuePut` and `QueueGet` fail silently, threads that spin with `trylock`.

### cw03 and cw04: drivers without locks

| driver | state | operations | what makes it correct |
|---|---|---|---|
| `cw03/modules/circular` | the ring `buff`, `buff_size`, `buff_idx`; each file's position | read, write (several copies round the ring), resize through `/proc/circular`, insmod in three stages with failures, rmmod | copies stay in the buffer; the buffer ends with what was written last; nothing is left behind |
| `cw04/advanced`, and its earlier edition `cw03/modules/advanced` | `process_name`, its length; `pathname`, `pathname_buf`, its length | `/dev/prname`, `/dev/mountderef`, `/dev/jiffies`; insmod, of cw04 with rollback | length fits name; buffers are freed once and not read afterwards |

The two talk to the kernel only: calls of user processes come in concurrently,
at any time from the registration on.  Hard here: everything is interleaved,
each allocation and copy may fail, a module may go while somebody is in it.

### cw06: one device, several kinds of locking

`linked_buffer` (`/dev/linked`) keeps a list of chunks of at most
`INTERNAL_SIZE` bytes, its `total_length`, and counters of reads and writes
(shown in `/proc/linked`).  A write appends chunks one by one; the chunk `xxx&`
empties the list.  There are four copies: without a lock, with a semaphore, with
a mutex, with a rwlock (in `sync/spinlock`, beside an earlier version of it,
`111linked_buffer.c`).
`simple_sync` (`/dev/simple`) hands out an endless repetition of a message, byte
by byte, with a sleep between two bytes.  Again four copies: no lock, mutex,
semaphore, spinlock.  The shell scripts start concurrent clients.

Hard here: what is read before the lock is taken (`total_length`), what is
changed after it was given back (the counters), error paths that keep a lock or
give it back twice, failures half-way through a write.

### cw05/debug, cw04/debug: modules that come and go

Small modules for `/dev/broken` with planted bugs (`cw04/debug/oops/1-4`,
`broken_example`) and their repaired versions (`cw05/debug/1-4`).  Each makes an
entry under `/proc`, registers a number, allocates, or some of these, in an order
of its own, and undoes what it can when a step fails.  `1`, `2` and `4` count their
calls without a lock and give each reader a text made in a buffer of its own;
`3` keeps a text in `buf1` and an answer in `buf2`, which all processes share, and
`4` counts digits.

Hard here: a step that fails after others have succeeded; a read without memory
that calls the module's exit, which `rmmod` calls again; `unregister_chrdev` with
a number that belongs to another driver.

### cw07: system calls

`topuser`, `timeuser`, `kernelps` go along the kernel's list of processes while
processes come and go; `pidtoname` and `freeblocks` only pass a value on.

### fs/proc

| part | source | state | what makes it correct |
|---|---|---|---|
| entries of modules | `generic.c`, `inode.c` | the tree of `proc_dir_entry`, its counts, the files opened through each | nobody runs in a function of a module that is gone; every removal returns |
| `/proc/sys` | `proc_sysctl.c` | trees of headers, one for each namespace, links between them, uses and references; the dcache | what is used stays registered, a process sees its own namespace only, nothing remains |
| `/proc/N`, `task/M` | `base.c` | dentries and inodes that outlive their task | a number leads to the task that has it |
| `fd`, `map_files`, `fdinfo` | `fd.c`, `base.c` | dentries of links | a link has the permissions of what it leads to |
| files about a task | `base.c`, `array.c`, `namespaces.c` | references and locks that a handler holds | all are given back, and nothing is looked at without the one that keeps it |
| `oom_adj`, `oom_score_adj` | `base.c` | a value of each process, shared with its memory | processes that share memory agree |
| `maps`, `smaps`, `numa_maps`, memory in `status` | `task_mmu.c`, `task_nommu.c` | where a listing is, sums over pages and areas | each area once, each page counted once; a peak that was reached |
| `clear_refs`, `pagemap` | `task_mmu.c` | bits of the pages and the TLB | a page written after a clear is reported |
| `cmdline`, `environ`, `mem`, `kpagecount`, `kpageflags`, `kpagecgroup` | `base.c`, `page.c` | where a read in pieces is | the pieces are the whole; the flags tell what a page is part of |
| listings | `base.c`, `fd.c`, `array.c`, `generic.c`, `consoles.c`, `proc_tty.c`, `nommu.c`, `devices.c`, `interrupts.c` | the position between two calls | what is there all the time is shown once |
| `vmcore` | `vmcore.c` | merged headers, list of pieces of memory | the headers tell where what is |
| `kcore` | `kcore.c` | list of areas, made anew after hotplug; the size of the file, in entry and inode | the list is that of the memory there is, the size that of the list |
| mounts, `self`, `net` | `root.c`, `self.c`, `thread_self.c`, `proc_net.c`, `generic.c` | references of mounts and namespaces, counts of links | nothing is left, nothing is put twice |

`cw04/debug/proc` is the same code but for three lines (of `base.c`, `fd.c` and
`loadavg.c`) that no model depends on; the models are of `cw05/proc`.

Hard here: everything a file shows changes while it is read, in several calls,
by readers that hold no lock from one to the next; numbers of processes are used
again; entries go while processes are in them; registrations fail half-way;
reference counts over three kinds of object; offsets at the limit of their width.

## 2. Modules

One module for a component, one for what it promises (the abstract
specification) where that is more than an invariant, and an `MC` module where the
constants need definitions or several components share a run.

```
Pthreads ── ReaderGate ─┬─ ReadersWriters (zad1) ──implements── RWLock
   │                    ├─ SpecialWriter  (zad2) ──implements── LetterArchive
   │     LetterQueue ───┘        │
   │          │         └─ Reviewer       (zad4) ──implements── RWLock
   ├──────────┴─────────── BatchLibrary   (zad6) ──implements── BatchBuffer
   └────────────────────── Libraries      (zad3, zad5)

LinkedBuffer (semaphore, mutex) ──implements── LinkedDevice
SimpleSync (four kinds of locking) ──implements── MessageStream

ProcEntries (fs/proc) ─ DriverModules (insmod, rmmod of all drivers)
Sysctl (registering tables; looking up and using them)

MCFiles ─┬─ Programs ─┬─ drivers:      LooseBuffer  Circular  Advanced  BrokenDevices
         │            ├─ system calls: MySyscalls
         │            ├─ a process:    OomAdj  SoftDirty
         │            └─ the system:   Kcore  Vmcore
         ├─ a process:  PidEntries  LinkEntries  TaskFiles  MapsListing  Smaps
         └─ the system: Listings  ProcReads  ProcTree  SysctlPaths

ReadersWritersProofs ─┬─ ReviewerProofs                LibrariesProofs
                      └─ SpecialWriterProofs           LinkedBufferProofs
BatchLibraryProofs ───┘
ProgramsProofs:    Programs
ProcEntriesProofs: ProcEntries  DriverModules  Sysctl  SimpleSync
```

The last two hold the proofs of several programs, each in a section of its own.
Sysctl and SimpleSync call some things otherwise than the other modules do (`place` and
`work` for `pc` and `todo`, `Processes`, `NIL`; `phase`, `NOMEM`, `SimpleInv`), so that
DriverModules, Sysctl and SimpleSync may be extended together.

### The threads of cw01

* **Pthreads**: `sem_wait`, `sem_post`, mutexes and conditions as operators on
  the variable that stands for the object.  A sleeping thread is in the set of
  its condition; a woken one locks the mutex again in a step of its own.
  `Spurious` takes one out of the set without a broadcast.
* **ReaderGate**: what a reader does around reading, the same code in zad1, zad2
  and zad4.  `readers_count` is only touched between the wait and the post of
  `readerSem`, so wait, update and test are one step; waiting for `writerSem`
  (while holding `readerSem`) is a step of its own.  In zad4 the door is the
  mutex: `Reviewer` instantiates the module with `writerSem <- mutex`.
* **LetterQueue**: `QueuePut`, `QueueGet` and the ring with its two indices,
  including the silent refusals.  `QueueItems` is the sequence it stands for.
* **ReadersWriters**, **SpecialWriter**, **Reviewer**, **BatchLibrary**,
  **Libraries**: the programs.  `pc` (or `rpc`, `wpc`) says at which of its
  blocking calls a thread is.  What a thread does under a lock that guards all it
  touches is one step; what is not so guarded (copying into the books in zad2,
  `top` in zad3 and zad5, whose lock can be lost) is split into the reads and
  writes of the code.

### The drivers

* **LinkedBuffer** (the rigid variable `inserted` says whether it is the driver with
  the semaphore or the one with the mutex): one action for the
  unlocked test that opens a read, for each wait, for the traversal under the
  lock, for each chunk appended, for each error path, and for the read and the
  write of each unlocked increment.
* **LooseBuffer**: the other drivers of `/dev/linked`, `locking` saying which: with the
  rwlock, without a lock, and the earlier version ("whole").  As the list is not
  protected from end to end there, each step along the list, both halves of
  `list_add_tail`, of each turn of `clean_list`'s loop (the neighbours are loaded, then
  joined), and the read and the write of `total_length` are actions.
  Chunks have identity, so that use after free shows.
* **SimpleSync**: the four copies of `simple_read`, chosen by the rigid variable
  `locking`; the read and the write of `msg_pos++` are two steps.
* **Circular**, **Advanced**: insmod (with its failures), rmmod, and the file
  operations, each split where another process may come in between.  `edition` says
  which of the two versions Advanced is: the earlier one registers its devices
  without looking at the results, and nothing keeps it in while it is used.
* **BrokenDevices**: the reads and writes of `cw04/debug/oops/1-4` and `cw05/debug/1-4`,
  `version` saying which; a process of the former dies ("dead") where they go wrong.
* **DriverModules**: insmod and rmmod of linked, circular, simple and the three
  kinds of broken module.  What a driver has left to do is a sequence of steps
  (`Insert`, `Exit`) in the order of its source, so that a step of one driver, of
  another one and of `fs/proc` may interleave, and each may fail.
* **MySyscalls**: one step for each process that a call comes to.

### fs/proc

* **ProcEntries**: creating, looking up, opening, calling, releasing and removing
  entries, with `in_use` and its bias, the reference count, and the list of files
  that a removal closes in place of their owners.  `DriverModules` EXTENDS it, so
  that a driver's `proc_create` and `proc_remove` are these and not a stand-in.
* **Sysctl**: registering and unregistering, one sequence of steps for each client
  (`work`), which gives `sysctl_lock` up only where the code does; and the processes
  with their dentries.  The model stops when the code has followed a
  null or error pointer or a header that was erased (`oops`).  **SysctlPaths**:
  tables with tables in them, taken apart and registered one by one, and the
  undoing.
* **PidEntries**, **LinkEntries**: what the dcache holds of processes and files
  that may be gone.  A client and a lister of `fd` each read a file's mode
  (`fd.c:106`) and store it in the inode (128) in two steps, so that a slow one may
  store over a newer mode.
* **TaskFiles**: every handler of a file in `/proc/N` as a sequence of steps that
  take, look, set and give back, in the order of the code; each step that may fail
  names where the handler goes on then (the label of the code's `goto`).  The process
  exits and execs between any two steps.
* **OomAdj**, **MapsListing**, **Smaps**, **SoftDirty**, **Listings**, **ProcReads**,
  **Vmcore**, **Kcore**, **ProcTree**: the other rows of the table above.  The comment
  at the head of each says what a step is, and what is not `fs/proc`'s own (page
  faults, forks, the flush of a TLB).  Three of them contain calculations without a
  state of their own, as operators that their invariants check for every small
  input: the sums over areas without an MMU (`task_mem` in MapsListing), the areas of
  struct pages (`Vmemmaps` in Kcore), the flags of a page (`stable_page_flags` in
  ProcReads).

**Programs** and **MCFiles** put eighteen programs into one run.  They have nothing to do
with each other: `program` says which one runs in this behaviour and never changes, `x1`
to `x14` are that program's variables (an INSTANCE maps its own names to them), and
the slots it does not need stay 0 (`Idle`, `Rest`).  Programs has the nine that are
proved, with their constants left open (`ProgramBounds` says what is assumed of them) and
a specification of their own, `ProgramsSpec`; MCFiles extends it by nine more, whose
constants are small sets, and `Files.cfg` gives values to the rest.  A behaviour of
MCFiles' `Spec` is one of `ProgramsSpec` or one of the other nine.  Each invariant is a
conjunction of the programs' own, the first three and the last three in Programs:

| invariant | programs and properties |
|---|---|
| `MemorySafe` | Loose (`IInv`, `NoUseAfterFree`), Circular (`InBounds`), Advanced (`ReadsLiveBuffer`) |
| `WritesKept` | Loose (`NoChunkLost`), Circular (`LastWriteKept`) |
| `RightAtRest` | Loose (`LengthAtRest`), Advanced (`NameMeasured`, `BuffersOwned`), Broken (`AnswersRight`, `CallsCounted`), Calls (`CallsRight`), Oom (`AdjShared`) |
| `ListingsComplete` | Listings (`ListedOnce`), Maps (`MapsShown`, `SumsRight`, `PeakRight`), Smaps (`PagesCounted`) |
| `ReadsWhole` | Reads (`ReadsWhole`) |
| `EntriesTrue` | Pids (`NamesRight`, `DeadFlushed`), Links (`LinksRight`), Tasks (`TaskFilesRight`), Tree (`TreeRight`), Paths (`PathsRight`) |
| `WritesReported` | Dirty (`WritesReported`) |
| `AreasKnown` | Core (`AreasKnown`, `AreasRead`, `VmemmapsRight`) |
| `CoreRight` | Vmcore (`CoreRight`) |

Where a model is coarser than the code, nobody else can see the difference, or
the module says what was merged (the clearing of the new buffer in Circular, `copy_to_user` everywhere).

### How state maps to the code

Variables and actions keep the names of the code where there is one
(`readers_count`, `writers_mode`, `buff_idx`, `linked_read`, `kclist`,
`vmcore_list`, ...).  `local[p]` is the stack frame of process `p`, `fpos` /
`f_pos` its file's position, `todo[c]` the rest of the function that client `c` is
in.  Variables marked *history* are not in the code: properties use them to say
"unless two writes have overlapped".  Variables and constants marked *bound* limit
the calls of a process.  `PROJECT.json` gives the lines each definition stands for.

## 3. Runs

| run | module, cfg | instance | distinct states | what it shows |
|---|---|---|---|---|
| readers_writers | ReadersWriters | the program's 6 readers and 3 writers | 37,609 | `writerSem` is taken exactly when a party is inside and the count is right (`IInv`); refinement of RWLock; `Termination` |
| batch_library | BatchLibrary | batch 2, 4 readers, 4 writers | 10,096 | no letter lost or read twice, sleepers only while it is not their turn, indices and turn consistent (`IInv`); refinement of BatchBuffer; `Termination` |
| special_writer | SpecialWriter | batch 2, 5 writers, 2 readers | 155,572 | books, hand and queue are one log, published batch by batch (`IInv`, `ImplementsArchive`); the rest stays in the queue for ever (`Settles`) |
| reviewer | Reviewer | 4 readers, 4 writers | 139,002 | letters and reviews alternate, the mutex is never freed under its holder (`IInv`, `ImplementsRWLock`); `Settles` |
| libraries | Libraries | 2 libraries with 1 reader each, 3 readers, 2 writers | 49,763 | limit and count hold (`IInv`); a writer is alone, and no book is lost, **in a library that no reader has left** (`WritersExcluded`, `BooksKept`); every writer finishes, and every reader and `main` unless a reader is kept from `r_mutex` for ever by those that it keeps out (`EndsUnlessStarved`) |
| linked_buffer | LinkedBuffer | 2 processes, 2 calls, 3 requests, 2 read sizes, both drivers | 99,865 | reads and writes act at one instant (`ImplementsDevice`); list, `total_length` and counters agree, and a leaked mutex freezes the device (`IInv`); every call returns unless the mutex was leaked (`EveryCallReturns`) |
| linked_buffer_entry | LinkedBuffer, LinkedBufferEntry | 2 processes, 2 calls | (violated) | the comment "We are in the correct entry" is not true of every read |
| simple_sync | SimpleSync | 2 processes, 2 reads, message of 2 bytes, all four locks | 41,675 | a locked read is atomic (`ImplementsStream`), an unlocked one may repeat bytes but skips none (`SimpleInv`), `EveryReadReturns` unless an allocation failed |
| files | MCFiles, Files | eighteen programs, one in each behaviour | 4,780,933 | the table in section 2 |
| proc_entries | DriverModules, ProcEntries | 2 processes; a directory and two entries of one name; or one or two drivers | 157,844 | references, openers and callers agree (`Consistent`); nobody is in a function of an entry that is gone (`NoCallIntoGone`); what a driver that is out has left behind (`CleanExit`); `RmmodReturns` |
| sysctl | Sysctl | a process, and two of eight clients at a time: kernel tables, tables of two namespaces, an empty directory | 1,255,291 | references and uses agree (`UsesCounted`), what is used stays (`StaysRegistered`), names are those of the namespace (`OwnNamespace`), nothing remains (`Settled`); what goes wrong has one of seven causes (`CausesKnown`) |
| sysctl_dying | Sysctl, SysctlDying | two clients, one directory | (violated) | a directory goes although a reference to it was taken |

Several of these properties hold only with an exception ("unless ..."), because
the code keeps no more than that: the exception is the weakest under which the
property holds that could be found, and its being needed is seen by dropping it.
The exceptions describe defects a maintainer should know of:

* zad3 line 73 / zad5 line 79 test the *global* `readers_count`, which is never
  changed, so readers never lock `w_mutex` but the last one unlocks it;
* the mutex variant of `/dev/linked` returns with the mutex locked from a fault
  of `copy_to_user` (128) and a failed `kzalloc` (163);
* `simple_read` jumps over the unlock when `kmalloc` fails, in all three locked
  variants;
* the rwlock variant of `/dev/linked` unlocks once too often in `err_contents`,
  and changes `total_length` outside the lock;
* the variant without a lock: two clearings that overlap may put a chunk that is freed back
  into the list (`linked_buffer.c:72-79`), since each has loaded its next one before;
* `/dev/circular`: the size is changed after the buffer was, and division by
  `buff_size = 0` is possible;
* `/dev/mountderef`: overlapping writes leak one buffer and free another twice;
* `linked` and `circular` share the number 199, and the error path of
  `linked_init` gives up a number it was refused, which is then circular's;
* `cw04/debug/oops/3` (54-58) returns an error with its number registered and its
  entry made when `kmalloc` fails, and `broken_example` (25-27) gives up a number
  that it has not got;
* `kernelps` reports one name more than it wrote when the array just holds them;
* `/proc` entries of modules are listed by how many were passed, so one that stays
  can be shown twice or not at all when another one comes or goes (`generic.c:278`);
  the same holds for consoles, drivers of terminals and regions;
* a mount point made by `proc_create_mount_point` is a directory but is not
  counted in its parent's `nlink`, from which its removal (`generic.c:571`), and a
  registration that fails (478), takes one;
* a mount of `/proc` that fails after `proc_setup_self` leaves `ns->proc_self` to be
  put again by the next one that fails (`root.c:105`);
* threads that call `exec` keep a directory of their old number (`base.c`,
  PidEntries), links in `map_files` keep permissions of a range that was mapped
  anew, and one in `fd` may have those of the file that had the number before
  (`fd.c:106-128`; LinkEntries), a fork during a write to `oom_adj` is not told (OomAdj);
* `kcore_need_update` is cleared for a list that was old already when memory came
  during the walk (`kcore.c:125`); a reader's offsets are shifted when the headers
  grow by a page; two openings around two hotplugs may leave an old size in the inode
  (`kcore.c:557-560`), since the entry's size changes under another lock;
* two registrations in a namespace that both make its first directory of a name spoil
  its tree: `get_subdir` asks whether one was "added while we dropped the lock"
  (`proc_sysctl.c:942`) before `insert_links` drops it again (1153);
* `p_offset` of a 32-bit core file is cut off (`vmcore.c:972`);
* huge pages are counted in `numa_maps` without the test of their node
  (`gather_hugetlb_stats`, `task_mmu.c:1595`);
* the overlap check of `get_sparsemem_vmemmap_info` (`kcore.c:180`) leaves out the
  struct pages of a range of memory altogether if the first of them share a page
  with the last ones of the range before;
* `VmPeak` may be less than a peak that was reached before the report began, if
  `hiwater_vm` is read before `total_vm` ("Barriers? not worth the effort",
  `task_mmu.c:37`);
* without an MMU, the slack that is reported is that of the last area that has any
  (`task_nommu.c:45`);
* the earlier `/dev/linked` (`111linked_buffer.c:179`) takes the result of `memcpy` for an
  error, so that nothing ever gets into its list.

Two disagreements with what the source says of itself are *findings*, each with
a run that TLC finds violated:

* `cw06/sync/semaphore/linked_buffer/linked_buffer.c:132` says "We are in the
  correct entry" of the element that a read starts with; when `f_pos` lies inside
  an element (126) the read starts with the next one.
* `cw05/proc/proc_sysctl.c:915` says of `get_subdir` that the directory "will not
  go away" once it has taken a reference.  It takes one (942) of a directory
  whose last table has just been dropped and whose `start_unregistering` waits,
  without the lock, for a process that uses it; when that is over the directory is
  erased and freed whatever references there are, and the new table is inserted
  into it.  The other properties of `/proc/sys` are stated for behaviours in which
  this has not happened (`revived`).

### Bounds, and why they are enough

* *Threads.* zad1 runs with its own numbers.  Elsewhere there are as many as it
  takes for: two threads waiting on a condition while a third is inside, a
  second batch that begins while threads of the first are still leaving, a letter
  that stays over, a reader turned away while another leaves.  zad1 is also
  proved for any number.
* *Queue and batch.* The ring has one element more than the batch (as the code
  has in zad6), so that it wraps within the runs; five letters with a ring of six
  in zad2.
* *Calls.* Two per process: a call that overlaps with one, and one that finds what
  the first has left behind (list, position, leaked lock, stale pointer).
* *Lengths.* `/dev/linked`: requests of one chunk, two chunks, one that clears in
  the middle; reads of 3 (inside a chunk) and 9 bytes (over several writes).
  `/dev/circular`: writes of 2 and 5 bytes with a ring of 3 go round it once or
  twice; resizes to nothing (0), less (2) and more (5).  `/dev/simple`: reads of 1 and 3 from
  a message of 2.
* *Entries and drivers.* Two entries of one name, so that one is created while the
  other's removal waits; behaviours with the drivers have the two that share a
  number together and each of the others alone.
* *Listings and maps.* Four members or pages and three (two) changes: one before,
  one at and one behind the place where the listing stands.
* *Processes.* Two numbers for three tasks, so that each number is used again; two
  threads, one of them the leader; two slots for files and two files, of which one
  is writable.
* *Memory.* Pages of two bytes or two pages, so that every read and every walk
  begins, ends or crosses at a boundary; a `WORD` of 10, which the offsets of
  vmcore reach; three nodes, of which one has no memory; three physical pages, so that
  a compound page has a page beside it, or three of its own; three struct pages in a
  page, so that two ranges can share one.
* *Sysctl.* One directory name; clients whose tables have different names, the same
  name, or none, in the core tree and in two namespaces.
* *Symmetry* is used in `Files` only: a run without liveness, whose programs treat
  the processes `p1` and `p2` alike.

Deadlock is checked where the program goes on until it ends; programs that end
have a step `Exited` or `Stopped`, enabled in the final state only.  It is not
checked in six runs.  In zad2 the special writer and in zad4 the reviewer wait
for ever when all others are done, and `main` with them; `Settles` says that this
is the only way these two stop.  `Files`, `ProcEntries`, `Sysctl` and `SysctlDying`
have programs that stop when their bounded calls are used up, and one that stops
in an `oops`; that nobody waits for ever there is what `RmmodReturns` and, for
states, `Settled` say.

### Fairness

* Threads and processes in a driver are scheduled: weak fairness of each one's
  own actions, never of a process's decision to make a call, of a signal or of a
  failure.
* cw01: nothing is assumed of the order in which a semaphore or mutex serves its
  waiters.  The programs end all the same, because a thread that was served does
  not come back for ever.  Spurious wakeups are assumed to die out; without
  that a thread could be woken for ever.
* zad5 does not always end: a reader that leaves competes for `r_mutex` with those that
  lock it, find the library full and retry at once, and a default mutex does not say
  that it ever gets it.  No more than weak fairness of each thread is assumed
  (`FairSpec`), and `EndsUnlessStarved` says that this is the only thing that keeps
  anybody from the end: every writer finishes, and if not all readers do, one of them
  stays in its library for ever (`Starved`) while others lock its mutex and are turned
  away infinitely often.  In zad3, where there always is room, nobody is turned away.
* cw06: the kernel's semaphores and mutexes queue their waiters, hence strong
  fairness of taking them.  A spinlock is left out of the liveness property: the
  holder sleeps (`msleep`), and those who spin are promised nothing.
* `fs/proc` (`ModulesFairness`): a removal goes on, insmod and rmmod go on, and a
  process that is in a handler of the module returns.  Nobody has to close a file:
  the removal does that in its place.

## 4. Proofs

TLC checks the instances above; TLAPS proves for every value of the constants: the six
programs of `cw01`; the drivers of `/dev/linked`, `/dev/simple`, `/dev/circular`,
`/dev/prname`, `/dev/mountderef` and `/dev/broken`; three system calls; the entries of
`/proc` with insmod and rmmod of the drivers, `clear_refs`, `kcore`, `vmcore`, `oom_adj`,
and what a process sees of `/proc/sys`.  The inductive invariants are those that the runs check, and
what only a proof needs beyond them (`TopBounded`, `ShelfKept`, `DriversConsistent`,
`RingInv`, `SpacesInv` and others) stands beside it.

Nine of the programs of the run `files` are proved, over the module Programs, with every
constant open: `RingKept`, `LooseSafe`, `AdvancedSafe`, `BrokenRight`, `CallsCountRight`,
`DirtyReported`, `OomShared`, `KcoreRead` and `DumpShown` are about one program each, from its
own initial states and steps.  `ProgramsSafe` joins their invariants: that of the program that runs holds
(`ProgramsInv`).  The run's properties follow, for `ProgramsSpec`: `MemoryIsSafe`
(`MemorySafe`), `WritesAreKept` (`WritesKept`), `RestIsRight` (`RightAtRest`),
`WritesAreReported` (`WritesReported`), `AreasAreKnown` (`AreasKnown`) and `CoreIsRight`
(`CoreRight`).  They assume `ProgramBounds`, the conjunction of what each program needs of
its constants (`RingBounds` and the like, below), which TLC evaluates for the values of the
run.  In the other nine programs of MCFiles these six properties say nothing.

### zad1, any finite set of readers and any set of writers

`ReadersWritersProofs`, from the assumptions
`ReadersFinite` and `RolesDisjoint` (nobody is both):

* `Invariance`: `Spec => []IInv`;
* `Safety`: `Spec => []Exclusion`, a writer never writes beside another one or
  beside a reader;
* `Refinement`: `Spec => ImplementsRWLock`.

`Exclusion` alone is not inductive: nothing in it says that a writer finds
`writerSem` taken while readers read.  `IInv` adds, in three parts: the types;
`GateConsistent`, that `readerSem` is a mutex, that the count is the number of
counted readers, that a reader waiting for the door is the only one counted and
one about to open it leaves none behind; and `DoorConsistent`, that `writerSem` is
0 exactly when the readers hold the door or one writer writes.

The argument about the gate is made once, without the writers: `GateStep` says
that any step of a reader keeps `GateConsistent` (cardinalities of finite sets
under adding and removing one reader are the work there), `GateDoor` that such a
step changes the door only by taking it free or giving it back when the readers
have it.  The second part of the module combines these with the two actions of a
writer.
The refinement maps entering and leaving to the actions of `RWLock` and
everything else to stuttering, using `IInv`.

### zad6, any batch size, any sets of readers and writers

`BatchLibraryProofs` (whose first part is about the ring alone), from
`QueueElements` (at least one), `NULNotALetter` and `Roles` (no thread is both, and
each writer has one letter of its own):

* `PutAppends`, `GetTakes`: on a ring that is not full (empty) `QueuePut`
  (`QueueGet`) does to `QueueItems` what `Append` (`Tail`) does to a sequence.  The
  arithmetic is in `AfterIs` and `PlaceIs`, which replace `%` by the two cases of
  going round or not; `FullIs` shows that the index tests of the two functions
  agree with `QueueLen`, which the callers test instead;
* `Invariance`: `Spec => []IInv`.  `TurnConsistent` (room when it is the writers'
  turn, letters when it is the readers') is what makes the unchecked calls safe;
  it needs the mutex (`MonitorConsistent`) and the ring (`QueueConsistent`);
* `NoWakeupLost`: `Spec => []NoLostWakeup`, by `TurnPasses`: the step that passes the
  turn empties the set of those that sleep on it;
* `NothingLost`: `Spec => []Delivery`.  It says that letters in the queue are
  distinct, and so are those the readers hold: without these two it would not be
  inductive;
* `Refinement`: `Spec => ImplementsBatchBuffer`.

### zad3 and zad5, any threads, libraries and limit

`LibrariesProofs`, from `Sizes` (at least one library and one place in each, a book for
each writer) and `Roles` (finite sets, nobody both reader and writer):

* `Invariance`: `Spec => []IInv`, where `IInv` has the counts and who holds
  `r_mutex`.  That no index leaves the books needs `TopBounded`: `top` and what a
  writer has read of it never exceed the number of writers that are done with the
  library.  It holds although two writers can be in one library, since a writer
  that stores an older `top` only lowers it;
* `WritersAlone`: `Spec => []WritersExcluded`.  As long as no reader has left a
  library, `w_mutex` is locked while somebody is inside (`WritersLock`).  The proof ends
  where the program goes wrong: with the first reader that unlocks it.

* `LettersKept`: `Spec => []BooksKept`.  `ShelfKept` adds to it what a writer on its way
  has read: with `WritersLock` nobody else is in the library, so that what it has read
  of `top` is still `top`, and what it stores comes right above the letters kept.

### zad2, any threads, any batch

`SpecialWriterProofs`, from `Capacity` (the ring and the books hold a letter of each
writer, as the program's do, and the special writer takes at most a ring full).  The
gate is an instance of `ReadersWritersProofs`, the ring one of
`BatchLibraryProofs`, so what was proved of them is used and not proved again.

* `Invariance`: `Spec => []IInv`.  Books, hand and queue, put behind each other, are
  each letter once (`Delivered`); the readers see whole batches (`Whole`) because
  the special writer copies while it has the door.  What it has copied so far is
  the first part of its hand (`HandConsistent`), which is what the steps between
  two copies need;
* `Refinement`: `Spec => ImplementsArchive`: the books that readers see grow by a
  batch at a time.

### zad4, any readers and writers

`ReviewerProofs`, from `Roles` (nobody has two roles; the books hold a letter and a
review for each writer).

* `Invariance`: `Spec => []IInv`.  The one mutex is door and monitor: it is locked exactly
  while readers hold it or one thread is in the monitor (again by the lemmas about
  the gate).  `Alternation` ties `reviewer_state` to the length of the books, so that
  letters and reviews alternate; each writer that is done has its letter there once;
* `Refinement`: `Spec => ImplementsRWLock`, the reviewer being one of its writers.

### /dev/simple, any processes, any message, all four kinds of locking

`ProcEntriesProofs`, from `Lengths` (the message is not empty; finitely many processes).

* `SimpleSafe`: `SimpleSpec => []SimpleInv`, for all four drivers at once (`locking` is a rigid
  variable).  `NoByteSkipped` is the claim: whatever is before `msg_pos` has been handed
  out, even if the unlocked `msg_pos++` sends it back.  `PositionBounded` says that
  `msg_pos`, and what a read has loaded of it, never pass the number of bytes that
  reads have stored (`Stored`, a set that only grows), so that it stays below
  `LastByte`; `LockConsistent` and `ReadConsistent` that a read under a lock has just the
  bytes before `msg_pos`, and a length that is right for the first of them;
* `SimpleRefines`: `SimpleSpec => ImplementsStream`: with a lock, a read is one step of the stream.

### /dev/linked with the semaphore or the mutex, any processes, chunks, writes

`LinkedBufferProofs`, from `Chunking` (a write is cut into chunks of `INTERNAL_SIZE`,
the last one shorter, and `xxx&` is full: how `linked_write` cuts it).

* `Invariance`: `AnySpec => []IInv`.  `LockConsistent` says who is in the list and that
  the mutex is locked for nobody only after an error path leaked it;
  `CallsConsistent` that what a writer has appended are the last chunks of the list;
  `LengthConsistent` that `total_length` is the sum over it;
* `Refinement`: `AnySpec => ImplementsDevice`.  The abstract read says with sets what
  the loop computes: the first chunk at or behind the position, the chunks up to the
  one that fills the buffer, the last one cut.  `TraverseIs` shows that the loop
  computes that, for a list of any length.

The loop and the sums are recursive functions, and the second needs induction.  The
library's induction theorems take an operator, which the provers cannot instantiate;
`Induction` and `InductionUpTo` state it for a *set* instead, from `WFMin` and
`NatLessThanWellFounded`, and `Recursion` proves from them that a function defined by
recursion along `0 .. n` exists and is what its equation says.  `SumsAre` and
`BytesBetween` are the facts about sums that remain; one lemma for each phase of the
loop (before the position, copying, over) gives the state of the loop after `k`
elements.

### Entries of /proc and the drivers, any entries, processes, drivers

`ProcEntriesProofs`, from `Tree` (an entry is in the root or in a directory that is
there), `Few` (fewer processes than `BIAS`, which the kernel's `-(1 << 31)` is far
beyond), `Null`, and for the drivers `Own` (each has its entry in the root).

* `Invariance`: `Spec => []Consistent`.  `in_use` counts those that are in a handler,
  less `BIAS` when a removal has begun; the references are the openers', the
  tree's and the removers'; every file is on the list of its entry until it is
  released, and released once (`ReleasedOnce`): by its owner, or by the removal
  in its place, and each of them waits when the other has begun;
* `NoCallLeft`: `Spec => []NoCallIntoGone`, which follows from the counts: the removal
  ends when `in_use` is `BIAS`, and from then on `use_pde` refuses;
* `ModulesRefine`: `ModulesSpec => Spec`: a step of insmod or rmmod is one of
  `ProcEntries` or leaves it alone, so `ModulesSafe` carries both over to the drivers;
* `DriversInvariance`: `ModulesSpec => []DriversConsistent`, with the numbers and
  entries that each driver has by what it has left to do (`todo`): a number belongs
  to its driver from its registration to its unregistering unless another driver's
  error path gave it up; what a driver that is going still has is what the rest of
  its function undoes;
* `ModulesClean`: `ModulesSpec => []CleanExit`: with an empty `todo`, nothing is left.

### `clear_refs` and `pagemap`, any pages, any number of events

`DirtyReported` (in ProgramsProofs) needs no assumption.  A page that may be written without a fault is
marked already, and so is one that the processor still takes for writable (`tlb`), but
between the unmarking and the flush of the TLB; only then a write is not reported, and
nothing is promised of it before the clear has returned (`fresh`).

### `kcore`, any blocks of memory, any number of hotplugs

`KcoreRead` (in ProgramsProofs), from `KcoreBounds` (finitely many blocks; a page holds some program
headers).  One part is about the list: who walks has noted what changed meanwhile
(`missed`), so that a list that is not marked to be made anew is that of the memory.  The
other is about a read: what it has of the headers (`HeadersKnown`) places an area where
`read_kcore` looks for it (`ReadPlaced`), as long as the headers have their size.  A third,
`SizesKnown`, is about the size in the inode: an opening that has met no other one (`alone`)
has loaded what is still so, since only openings change the size of the entry; no more is
true, as two of them may store their sizes in either order.

`AreasAreKnown` adds what `get_sparsemem_vmemmap_info` computes.  The run tries up to three
ranges of RAM; `VmemmapsFit` is about any number of them.  `VmemmapsInOrder` says that the
library's fold goes from range to range: there is a table of its values for all sets of
places (`ListsExist`, by induction), of which the fold chooses one.  `OneMoreRange` is the
step: a range begins behind the struct pages of those before it, or in the last page of
them; there the overlap check leaves nothing of it.

### `vmcore`, any sizes of a page, of a read and of a word

`DumpShown` (in ProgramsProofs), from `DumpBounds` (a page and a word hold something), and
`CoreIsRight`.  The invariant (`DumpInv`) asks more of the headers than the initial states
do: any number of processors with any notes, and any number of pieces of memory of any
length (`DumpTyped`).  Its heart is what the file has at an offset (`FileByte`): `FilePart`
says that what a read has copied so far, and what was shown last, are that.  The parts of
the file are apart (`HeadersPlaced`, `OffsetsOrdered`, `OneLoad`); a read that ends at the
end of a page stays within one (`OldInPage`); a mapping goes from page to page, and what it
has shown is an image of the pages up to the last that is no RAM (`RemapGoesOn`).  That the
library's folds and its flattening go from element to element is `FoldExists`, `SumTable`
and `FlatLength`, by least counterexamples.

### `oom_adj` and `oom_score_adj`, any processes, any values

`OomShared` (in ProgramsProofs), from `OomBounds` (values in the range of the file).  Who shares a memory has
one value, also half-way through a write, but for those that the writer has not come to
(`left`): that makes it inductive.

### `/proc/sys`, any namespaces, tables and processes

`SpacesApart`, from `SysctlBounds` (each client has a set, a directory and finitely many
files; an assumption of Sysctl): `SysctlSpec => []OwnNamespace`.  The claim is about what a process has got to; its
proof is about the trees.  `SpacesInv` says that a header's parent, and what stands in the
tree of a directory, are of its own set, links being of the core set; that a registration
is in a directory of its client's set; and that a process uses headers of the core set or
of its namespace only, since following a link leads it to the latter.  The types are a
third of it: which steps a client may have left to do, with what arguments.  That the
dentries in the cache are of all namespaces is no harm, as `proc_sys_compare` looks at the
set of each.

### /dev/circular, any processes, sizes and lengths

`RingKept`, from `RingBounds` (sizes and lengths are natural numbers).

* `SizesAgree`: `buff_size` is the length of `buff` unless somebody is between the two
  assignments of a resize, or two have been there at once (`raced`);
* `Undisturbed`: a call that nobody has disturbed (`calm`, `alone`) runs alone where it
  matters, so that what it has read of the state is still so;
* `Writes`: of a calm write, what it has sent (`Sent`) is in the buffer before `buff_idx`,
  the last `buff_size` bytes of it.  A piece ends at the end of the buffer, so the
  places before `buff_idx` go back round that end (`Back`); arithmetic modulo the size is
  the work here;
* `Unsized`: with a size of 0 nothing is written.

`Undisturbed` was not inductive when it was first tried.  `circular_init` allocates after it
has registered the device, so a write may be under way, whose buffer is changed under it: the
model now counts this as a change of the size too.

### /dev/linked with the rwlock or none, any processes and writes

`LooseSafe`, from `LooseBounds` (a write is chunks; `NONE` is neither a process nor a
chunk).  With the rwlock the writer is alone (`OneWriter`), the chunk that it has found
as the last one is, and in a clearing its chunk is the first one and the neighbours that it
has loaded are those of the list (`Placed`), and `total_length` and what a writer has read of it are
the number of chunks less those that are not counted yet (`Counted`).  Without a lock this
is true until two writes meet (`twoWrites`).  That the list has no freed chunk, and none
twice, is claimed only that far (`Apart`): of two clearings without a lock one may join
the list to a chunk that the other has freed.  `ChunksNew` says that no chunk is
allocated twice, `WholeIdle` what the earlier version can do, which is not much.

### /dev/prname and /dev/mountderef, both editions, any processes, names and paths

`AdvancedSafe`, from `AdvancedBounds` (`NULL` is no buffer).  `DevicesOrdered` has which
devices are registered at which stage of insmod; `BuffersApart` that no two processes and
no variable own the same buffer; `Swaps` how far the write that is swapping has got, if
there is one only; `ReadsUnmet` that a read which no write has overtaken began when
`pathname` was not being swapped; `PathOwned` that the buffer is then the one that is kept.

### /dev/broken, all eight modules, any processes and texts

`BrokenRight`, from `BrokenBounds`.  The loads and stores of a counter overlap, so what is
true is an inequality: what a call has read, and the number of calls that are about to
store, never exceed the calls that are done (`Kept`).  `QuietAnswers` relates `buf2` to the text in
`buf1` as long as nobody wrote meanwhile, `DigitsCounted` the counter of digits to the text
(`CountIsRight` is about the loop of `count_numbers`), `NamesAtRest` the name in `buf1` to the
number that was written last, and `MemoryKept` says who has a buffer, or has died with one.

### topuser, timeuser, kernelps, any processes, users and times

`CallsCountRight`, from `CallsBounds` (finitely many processes, with numbers from 1 on).
`CallBegun` and `PassedCounted` say that `tab` has the count (the sum of the times) of
each user over the processes that the call has passed, if none came or went; `Greatest` that
`max_cnt` and `max_uid` are its maximum; `CallEnded` that the end of the list is all
of them.  The reference sums up over all processes of a user with `MapThenSumSet`, which
is a fold over a set: `SumsExist` and `SumsAgree` show that it is a sum which does not
depend on the order, `SumOfOneMore` that one more process adds its time.

### Induction

The library's induction theorems take an operator as parameter, which the installed
provers cannot instantiate.  Where an induction is needed it is made through the least
counterexample: `LeastPlace` in ProgramsProofs (a set of numbers that is not empty has a
least one) and `Induction` in LinkedBufferProofs (a set that has 0, and with each number
the next, has all) come from `WFMin` and `NatLessThanWellFounded`.

### What is only model-checked

* Liveness (`Termination`, `EndsUnlessStarved`, `Settles`, `EveryCallReturns`, `EveryReadReturns`,
  `RmmodReturns`): fairness and `ENABLED` are out of the prover's reach.
* `/proc/sys`: `UsesCounted`, `StaysRegistered`, `Settled` and `CausesKnown` of Sysctl.  They rest
  on the references being right at every step, with those that each client's steps to come
  will give back; that invariant is not written yet.
* Of MCFiles: `ListingsComplete`, `ReadsWhole` and `EntriesTrue`.
  SysctlPaths, a part of `EntriesTrue`, uses recursive operators on trees, which the prover
  does not take.
* The two findings, which are violated.

## 5. Hazards

`PROJECT.json` lists what in this code is hard to test, with line and property;
each has a property that some run checks.

## 6. Not modelled, and why

* Bytes, texts, formats and printing: no property depends on them.  A byte of
  `/dev/simple` is its place in the stream, one of `/dev/circular` its writer and
  index, one of a core file its address, a path or a name its length or number.
* Files of `fs/proc` that only format what other parts of the kernel keep (`stat`,
  `meminfo`, `uptime`, `loadavg` and others), attributes and the inode cache, the
  tables of names in `base.c`, mount options, the flags of `kpageflags` that are
  copied one by one.
* A huge page is one page, with sums of its own (Smaps) or like others (SoftDirty).
  Areas of 32-bit machines in `kcore`, and s390's faults in `vmcore`.
* What the kernel does after a wild access or a division by zero: the process
  ends ("dead", "wild", "oops").  The one read of `broken_example` does so at once, on
  purpose, and is left out.
* Weak memory: a shared variable is read and written in program order, but for
  `hiwater_vm` and `total_vm`, of which the code says that it relies on no order.
* A spinlock held over `msleep` on one processor (`spinlock/simple_sync`, line 71):
  a property of the scheduler rather than of the code; the liveness property leaves
  the spinlock out for it.
* A call under way in a `/dev` file during rmmod of its driver (the drivers have no
  owner): the model has the handlers of `/proc` entries, for which the kernel waits.
* `/dev/jiffies` formats the clock; it is only registered in the model.
* `cw03/modules/backdoor`, `cw04/hello`, `cw02`: no state.
* `linked_buffer-old`, `*.mod.c`, `.tmp_versions`: build products.
* Numbers of the processes' calls do not overflow; sizes of `/dev/circular` are
  natural numbers (the code parses a signed 64-bit one into an `int`).

## 7. Plan

Done, in this order: the readers' gate and zad1 with its proof; the monitors of
zad6, zad2 and zad4; the libraries; `/dev/linked` and `/dev/simple`;
`/dev/circular` and `cw04/advanced`; zad6, then the libraries, with their proofs;
the entries of `/proc` with the drivers' insmod and rmmod; `/proc/sys`; the
repaired modules and the system calls; the other parts of `fs/proc`.

Proved since: SpecialWriter, Reviewer, SimpleSync and LinkedBuffer with their
refinements; `BooksKept` of Libraries; the entries of `/proc` and the drivers.

Then `clear_refs`, `kcore`, `vmcore`, `oom_adj`, what a process sees of `/proc/sys`,
`/dev/circular`, `/dev/linked` with the rwlock or none, `/dev/prname` and
`/dev/mountderef`, `/dev/broken`, and the system calls; and the properties of the run
`files` that are about these, for all their constants.

Next, proofs: the references of Sysctl; the listings and reads of `/proc`, first
Listings and MapsListing; PidEntries and LinkEntries.

Next, models: counters and positions in LooseBuffer; calls of `/dev` files during
rmmod; the flags of a pagemap entry; the areas of 32-bit machines in `kcore`.
