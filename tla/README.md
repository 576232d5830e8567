# Verification of csapp2e

This directory holds a TLA+ development for the lab solutions in `src/`: models
of the programs, TLC configurations that check them on small instances, and
theorems that TLAPS proves for every instance. The source is the reference; the
comments of the programs are used only as statements to check it against.

## 1. The system

The repository is a collection of independent programs. They share no state; what
follows lists for each the state it keeps, what happens to it, what makes it hard,
and what it means for it to be correct.

| component | source | state | operations | hard because | correct when |
|---|---|---|---|---|---|
| tiny shell: job list | `shlab/tsh.c` 400-535 | `jobs[]`, `nextjid` | `addjob`, `deletejob`, the searches | numbers wrap, the table fills | no process twice; a number finds its job |
| tiny shell: loop and handlers | `shlab/tsh.c` 91-389, 587-608 | the list, pending signals, the mask, the children | `eval`, `do_bgfg`, `waitfg`, four handlers | handlers interrupt the loop and each other; SIGCHLD does not queue; a child runs before its parent is ready | the list follows the children; one job in the foreground; `waitfg` ends |
| tiny shell: parser | `shlab/tsh.c` 214-262 | none | `parseline` | quotes, blanks, `&` | the words come back as written |
| caching proxy | `proxylab/proxy.c` | the object cache and its semaphore; one buffer per connection | `dispatcher`, `cache_get`, `cache_put`, `forward`, `transfer_response`, `tunnel` | a thread per connection; the lock is dropped between miss and put; peers stall or end early | a hit sends what the server sent; nobody waits for ever |
| robust I/O | `proxylab/csapp.c` | a read buffer per descriptor | `rio_readn`, `rio_writen`, `rio_readnb`, `rio_readlineb` | short counts, interrupts, errors, mixed calls | no byte lost, repeated or out of order |
| Tiny web server | `proxylab/tiny/tiny.c` | one connection, the files | `doit`, `serve_static`, `serve_dynamic` | one process for all clients; `stat` and the use of a file are apart | one exact response for each request |
| malloc package | `malloclab/mm.c`, `red_black_tree.c` | the heap: headers, footers, payload, a tree of free blocks | `mm_malloc`, `mm_free`, `mm_realloc` | tree nodes live inside free blocks; several splits and merges; payloads that move down over tags | blocks tile the heap; the tree holds exactly the free blocks; payload survives |
| malloc driver | `malloclab/mdriver.c`, `memlib.c` | the simulated heap, a list of payload ranges | `eval_mm_valid`, `add_range`, `mem_sbrk` | the heap ends | overlap is detected |
| cache simulator | `cachelab/csim.c` | for each set a ring of lines, three counters | `cache_access` | pointer surgery; an unsigned `(i-1)%E` | counts those of an LRU cache |
| Y86 simulators | `archlab/sim/misc/isa.c`, `seq/ssim.c`, `pipe/psim.c`, `*.hcl` | registers, condition codes, memory; pipeline registers | one instruction, one cycle | forwarding, stalls, cancelled instructions, exceptions | the pipeline does what the instruction set says |
| Y86 assembler | `archlab/sim/misc/yas.c` | symbol table, position | two passes, line by line | forward references, byte order, directives | the bytes decode to the program |
| HCL compiler | `archlab/sim/misc/node.c` | expression trees | `make_*`, `check_arg`, `gen_expr` | precedence in C, types, nodes chained by one field | the C code has the value of the expression |
| data lab | `datalab/bits.c`, `tests.c`, `btest.c` | none | bit puzzles | rounding, shifts at the width | equal to the test functions |
| performance lab | `perflab/kernels.c`, `driver.c` | images | `rotate`, `smooth` | edges, unrolled loops | equal to what the driver computes |
| transpose | `cachelab/trans.c` and its drivers | two matrices, a cache | blocked loops | partial blocks | transposes, with fewer misses |
| timing | `perflab/clock.c`, `fcyc.c` and those of `malloclab` | a reading of a counter; the best samples | `get_counter`, `add_sample` | wrapped words; a sorted array with a limit | exact differences; the least samples |

The bomb and buffer labs hold answers to binaries that are not here as source.
Score tables, Perl and Tcl drivers are measurement and input. `PROJECT.json` lists
all of these with their status, and the main hazards of each component at the line
where they bite.

The parts of the tiny shell interact as follows. `main` reads a line and calls
`eval`. `eval` masks SIGCHLD, forks, calls `addjob`, unmasks, and for a foreground
job polls the job's state in `waitfg`. The handlers run on the same thread at any
instruction: `sigchld_handler` calls `waitpid` once and then `deletejob` or sets
the state ST; `sigint_handler` and `sigtstp_handler` look up the foreground job
and `kill` its process group. Each handler masks only its own signal, so the
three can be active on top of one another. A child calls `setpgid`, then
`execve`. The keyboard's signals go to the process group of the shell.

The threads of the proxy meet in the cache and its semaphore only. `dispatcher` reads
a request; a GET takes the lock, looks the URL up, and on a hit answers while it holds
the lock; on a miss it gives the lock up, fetches the response, and takes the lock
again to put it. A CONNECT makes the thread a relay between two sockets.

In the malloc lab the driver calls the package, the package keeps its free blocks in
the tree, whose nodes are words of the same heap, and both use `mem_sbrk`.

The Y86 programs form a chain: HCL definitions are compiled to C functions, which the
simulators call in every cycle; `yas` writes the object file that they load; in TTY
mode each then lets `step_state` of `isa.c` run the same program and compares.

## 2. Modules

| module | models | extends / instantiates |
|---|---|---|
| `JobList` | the helper routines of the job list as functions of the array | |
| `JobTable` | `jid` and `nextjid`: additions and deletions | `JobList` |
| `JobControl` | abstract: the job states and enabling actions of the comment in `tsh.c` 28-36 | |
| `TinyShell` | loop, handlers, kernel, children | `JobList`; `JobControl` by a refinement mapping |
| `CommandLine` | `parseline` | |
| `LRU` | abstract: hits, misses and evictions of an LRU cache | |
| `CacheSim` | `csim.c` | `LRU` by a refinement mapping |
| `ProxyCache` | the object cache of `proxy.c` as functions of its state | |
| `Tunnel` | the steps of the relay loop as functions of one thread's state | |
| `Proxy` | connection threads, the cache lock, the transfer of responses, tunnels | `ProxyCache`, `Tunnel` |
| `Rio` | robust I/O | |
| `Tiny` | the Tiny web server and its clients | |
| `Allocator` | abstract: disjoint areas that keep their contents | |
| `RedBlackTree` | `red_black_tree.c` as functions of the memory | |
| `Heap` | `mm.c` and `memlib.c` as functions of the memory | `RedBlackTree` |
| `MDriver` | `eval_mm_valid`: any trace, and its checks | `Heap`; `Allocator` by a refinement mapping |
| `ISA` | `isa.c`: memory, ALU, `step_state` | |
| `Control` | the HCL rules that the simulators share | `ISA` |
| `Sequential`, `Pipeline` | one cycle of `ssim.c` and of `psim.c` | `Control` |
| `Y86` | a run of either in TTY mode, and its check | `Pipeline`, `Sequential` |
| `Yas` | the assembler and the loader | `ISA` |
| `Hcl` | trees, types and code of HCL expressions, and how C reads the code | |
| `DataLab`, `PerfLab`, `Transpose`, `Timing` | the labs of these names | |
| `Labs` | the parts that work alone, each a process of its own | `JobTable`, `Tiny`; instances of `Rio`, `CommandLine`, `DataLab`, `PerfLab`, `Transpose`, `Timing`, `RedBlackTree`, `Yas`, `Hcl` |
| `JobList_proofs`, `TinyShell_proofs`, `CacheSim_proofs`, `Proxy_proofs`, `Y86_proofs`, `RedBlackTree_proofs`, `MDriver_proofs` | theorems | each extends its module; the last `RedBlackTree_proofs` |
| `Labs_proofs` | theorems about three of the parts in `Labs`, one after the other | `JobTable`, `Tiny`, `Timing`, `JobList_proofs` |
| `MCTinyShell`, `MCCacheSim`, `MCProxy`, `MCMDriver`, `MCY86`, `MCLabs` | symmetry, addresses, responses, programs and other inputs for TLC | |

### JobList, JobTable

A slot is a record of `pid` and `state`; a free slot has `NoPid`, which stands for
every pid below 1. The searches of the code are linear, so each is "the first
slot such that". Job ids are in `JobTable` and not in `TinyShell`: nothing in the
handlers depends on a number, and the counter would multiply the states. `MaxJid`
bounds the numbers, which can exceed MAXJOBS: `deletejob` sets `nextjid` to the
largest number in use plus one, without the wrap that `addjob` applies.

### TinyShell

| variable | in the code |
|---|---|
| `pc` | where the loop is: reading a line; before `fork`; before `addjob`; before unmasking; entering `waitfg`; polling; before `do_bgfg`'s assignment; before its `kill`. `crashed` is a null pointer dereference, `exited` an `exit`. |
| `want`, `cur`, `slot` | the locals `bg` or `state`, `pid`, and the pointer `job` |
| `jobs` | the job list |
| `hnd` | for each signal the handler's activation: not active, before its first call (`waitpid`, `fgpid`), or before its second (`deletejob`, `kill`), with the pid it remembers |
| `stack` | which handlers are active, the running one first |
| `pending` | the kernel's set of pending signals: a set, because signals do not queue |
| `proc`, `unseen`, `sigs` | external: the children, the stops that `waitpid` has not reported, the keyboard signals pending for a child |

Decisions a reader should know of:

- The loop takes a step only when no handler is active, and when no signal is
  deliverable, except just before a system call or on return from one
  (`InSyscall`), where a signal may come later than the call. A handler is
  interrupted between any two of its steps.
- SIGCHLD is masked from before `fork` to after `addjob`, `BlockedAt`. The child
  inherits the handlers of the shell until `execve`, and a copy of a list with no
  foreground job; a keyboard signal that reaches it in that time is lost
  (`Swallow`).
- A child is in the shell's process group until `Setpgid`. `kill` to its group
  before that finds nothing.
- `fork` may fail; `eval` does not look at the result, `addjob` refuses it, and
  `waitfg` then dereferences null.
- A pid may be used again once the child has been reaped.
- Left out: SIGCONT from other processes, stops between `fork` and `execve`, what
  is printed, the parser, and job numbers (`fg` and `bg` may name any listed job).

### CacheSim

Nodes are the lines `0 .. E-1` and the head `E`. A line that is not valid has
`NoTag`: its tag is never read. `list_add` and `list_remove` do the assignments
of the code in their order. `set_init` computes the predecessor of line 0 as
`SizeMax % E` (64-bit unsigned in the code); `SizeMax = 15` gives the same
remainder as 2^64 - 1 for E = 3. An `M` record is two steps, `Modify` and
`ModifyAgain`. `MaxAccess` bounds the length of the trace.

`LRU` knows nothing of lines: for each set, the sequence of its blocks. The
refinement mapping follows `next` from the head and keeps the valid lines.

### ProxyCache, Proxy

| variable | in the code |
|---|---|
| `pc` | where a thread of `dispatcher` is: `idle` before `accept`, `first` and `next` before the first and a later request line, `spin` in the loop of `read_header` that nothing ends |
| `met`, `url`, `keep`, `slot` | the locals `met`, `url`, `keep` and the pointer `p` |
| `resp` | `length`, `left_length`, `cache_size`, `cache_temp`; `rest`, what the server still sends; `out`, what the client was sent |
| `sem`, `cache` | `cache_lock`, `cache` |
| `up` | the process has not exited |
| `origin` | history, read by no action: what the client whose request filled a slot was sent, and its URL |

Decisions a reader should know of:

- The two copies of the request switch (lines 149-188 and 200-235) are one set of
  actions; they differ in CONNECT, which is refused in the second.
- Peers are nondeterministic. A response is chosen from `Response`: how its end is
  found, the length it announces, the bytes that follow the header until the server
  closes, which may be too few. `Rio_readn`'s result is ignored by the code, so what
  is missing is what the buffer held. The buffer itself is not kept: the missing
  bytes are any of `StaleByte`, which is more than the code can send.
- A header is one byte, and so is a line of a chunked response. `SizeLine(n)` is
  the line that announces n bytes.
- `cache_get`, `cache_put` and a piece sent to a client are one step each. The
  lock is a semaphore, and the state between `P` and `V` is stepped through, so
  that threads without the lock could interfere if the code let them.
- `HeaderCut`: at the end of the input `Read_line` returns an empty line for ever.
  `ClientsLeave = FALSE` keeps clients from doing that, not servers.
- `Exit`: the wrappers of `csapp.c` exit on an error, a write to a closed
  connection raises SIGPIPE, and some requests lead to a null pointer. Which of
  these it is does not matter; it may happen at every step on a socket.
- Header lines, URLs and the request
  to the server are input; the payload of a POST is not followed.
- The number of requests is not bounded; the state space is finite all the same.

### Tunnel

The loop of `tunnel` is followed call by call: what `select` reports, which side is
looked at, a read of at most `MAXBUF` bytes, and the write of what was read. Bytes are
numbered, so that order and completeness can be stated. A socket takes `SocketBuffer`
bytes that its peer has not read; since descriptors do not block, a write beyond that
is an error that ends the process (`Exit`). `open` holds the sides that have not ended.

### Rio

What the kernel will do is given beforehand as a plan: how many bytes each of the next
calls moves, or that a signal interrupts it. The functions of `csapp.c` are then
functions of the buffer and the descriptor. `Rio_*` wrappers end the process on an
error; this is part of the modules that use them.

### Tiny

One process, so `pc` is where it is in `main` and `doit`; `todo` holds the writes that
it still has to do, in order, together with the calls that can end it (`open`, `run`).
`conn` is for each client what it has sent, what of it has not been read, and what it
has got. Clients send a request and the blank line behind it, or leave at any point,
also in the middle of a line, or by an error of the connection in place of what has not
been read; a file may be removed between `stat` and its use. A request that is cut off
leaves method and URI with whatever the stack held: any.

What a step of the server can come to, besides the next one:

- `dead`: a read of a connection with an error (`Rio_readlineb` ends the process), a
  write to a client that has left (SIGPIPE or `Rio_writen`), or `Open` or `Mmap` of a
  file that is gone, or of one of the kind `refused`: `stat` calls it readable, which is
  a bit of its mode, but it belongs to another user or has no bytes.
- `failed`: the system refuses a call, which is nobody's fault among the clients:
  `Accept`, `Getnameinfo`, `Fork`, `Open`, `Mmap`.
- `blocked`: a write to a client that stays and reads nothing, which lasts until it
  leaves (`EndWait`), or `Wait` for a program that does not end.
- spinning: at the end of the input the loop over the headers goes on.

### RedBlackTree, Heap, MDriver, Allocator

The heap is the memory: a function from addresses, which count words of four bytes, to
words. Headers, footers, tree nodes and payload are words of it, as in the code, so
that writing one over another has the effect it has there. The two static nodes are
below the heap. Left and right versions of a rotation or of a fix-up are one operator
with a direction. A loop of the code is `While` with its test, its round and a bound on the
rounds that no run of it reaches: for the loops of the tree `Rounds`, the number of nodes
for which the memory has words. Where the links of a tree are wrong, as under a mutant, the
bound ends a loop that would not end. `MDriver` makes any legal sequence of requests; words that nothing
reads before it writes them are forgotten after each (`Forget`), which keeps the state
space finite and changes no behaviour. Sizes are in words and alignment is two words.

`Allocator` knows addresses and contents only. The mapping takes the driver's arrays
for the areas and the words of the payload for the contents.

### ISA, Control, Sequential, Pipeline, Y86

A word has `WordBytes` bytes, and the literal 4 of the code is that constant. The
operators of `Pipeline` are the stages of `psim.c` in the order in which
`sim_step_pipe` runs them, with the HCL control logic compiled in; a pipe register has
a current value, a next value, and an operation (load, stall, bubble, error). `v` says
which instructions a version of the HCL adds (`iaddl`, `leave`).

`Visible` is the state as the instruction set would show it: for the pipeline, the
program counter of the oldest instruction that has not completed, with the registers
and the memory as written so far and the condition codes as they were before
instructions that have not completed. `ImplementsISA` compares it in every cycle with
`step_state`. It speaks of plain instructions only (`Plain`), see the divergences below.
`touched` is history: where the memory has ever differed from the program. An instruction
there is not plain, even if a later store has put the old bytes back, since PIPE may have
fetched it in between. The operators of `ssim.c` that have the name of one of `psim.c` begin
with `seq_`.

### Yas, Hcl

The lexer is generated and left out: a line is a sequence of tokens. `Labs` writes an
instruction as tokens, has it assembled and loaded, and decodes it with `Decode` of
`ISA`, which is independent of the assembler.

An HCL expression is built by the `make_` functions in the order in which the parser
calls them; the code is a sequence of C tokens, which `C_value` reads with the
precedences of C. Its value is compared with the value of the expression.

### DataLab, PerfLab, Transpose, Timing

Words, floats, the unrolling of `rotate` and the words of the counter have their width as
a constant, and the masks of the code are written in terms of it. `Copy` is a parameter
of the transpose loops, so the same loops give the matrix and, with a cache for the
accumulator, the misses.

### Labs

These parts share nothing, so a behaviour of `LabsSpec` is the work of one part,
chosen at the beginning with its input. Parts that compute a result of an input are one
step (`Work`); the job table, the Tiny server, a buffered descriptor, the sampler and the free tree
take as many as they need.

## 3. Runs

| run | bounds | shows |
|---|---|---|
| `labs` | see below | see below |
| `shell` | 2 children, 2 slots, ctrl-c | `ChildrenListed`, `ForegroundIsWaitedFor`, `NoInternalError`: the list follows the children, one foreground job; `SignalsOnlyForeground`: keys reach no other job; `JobControlSpec`: the list changes as the comment in `tsh.c` promises |
| `shell_full` | 2 children, 1 slot, ctrl-c and ctrl-z | the inductive invariant `ShellInv` when `addjob` fails and with three handlers nested in any order |
| `shell_returns` | 2 children, no keyboard, fair | `ForegroundReturns`: `waitfg` ends |
| `shell_fast_child` | as `shell` | violation, see below |
| `cache_sim` | E = 3, two sets, eight addresses, 7 accesses | `RingIntact`, `CountersAgree`, `ModifyHits`, and `LRUSpec`: the counts are those of an LRU cache |
| `proxy` | 2 threads, 2 slots of 4 bytes, 2 URLs with one hash code, one response, fair | `HitRepeatsMiss`: an answer from the cache repeats what an earlier client was sent for the same URL; `CopiesBounded`: threads that miss together fill several slots with one URL, never more than there are threads; `WaitersServed`: a thread that waits for the cache gets it while servers stall |
| `proxy_transfer` | 1 thread, slots of 7 bytes, pieces of 2, 4 responses; tunnels of 2 bytes each way, sockets of 1 byte | `PutIsComplete`: what is put is all that was sent; `TunnelIntact`: bytes arrive in order and none is lost; `TunnelRelays`, `TunnelEnds`: what one side sends arrives although the other has stopped, and the tunnel ends |
| `proxy_exact` | 1 thread | violation: a hit is not byte for byte what was sent |
| `heap` | heap of 76 words, extended by 20; 4 blocks, 2 sizes | `HeapIntact`, `TreeIntact`, `FailureChangesNothing`, `OnlyReallocFragments`, and `AllocatorSpec`: the package is an allocator |
| `y86` | words of 1 byte, memory of 32, three instructions of 19 and one that sets `%esp`, 12 cycles; PIPE with and without `iaddl`, SEQ with `iaddl` and `leave` | `ImplementsISA`; `HazardControl`: stall and bubble never meet in one register, and an instruction completes in every fourth cycle once the pipeline is full; `CheckSucceeds`: the check of a run that ends by itself fails only at an instruction of the stack with a wrong address, and then for nothing but `%esp` |
| `data_lab` | words of 8 bits, floats with 3 bits of fraction | violation, see below |

The parts of `labs`:

| part | bounds | properties |
|---|---|---|
| job numbers | 3 slots, 4 pids, ids to 6 | `NumberingInv`: searches by pid, by id and for a free slot agree, and the next id is above all others unless one has reached MAXJOBS; `OnlyRestartRepeats`: only then two jobs come to share an id |
| Tiny | 2 clients; a file, one that cannot be opened or mapped, one that may not be read, a program; the first and the last may be removed; GET of each and another method for the first | `ResponsesExact`, `StopsOnlyFor`, and `ClientsServed` under fairness |
| command line | up to 3 of 9 words, quoted or not, one or two blanks | `WordsKept` |
| robust I/O | data of up to 3 bytes, a buffer of 2, up to 3 planned calls of 0 to 2 bytes, 3 calls of the user; unbuffered calls of 0 to 4 bytes | `RioExact` |
| puzzles | words of 8 bits, the values `btest` takes | `BitsMatchTests` |
| kernels | images of 1x1 to 5x5, every image of three colors up to 2x2, loops unrolled twice | `KernelsRight` |
| transpose | 1..18 by {1, 2, 15, 16, 17, 33} and the graded sizes | `TransposeRight` |
| timing | words of 4 values, every pair of readings less than 16 apart; 2 best of up to 4 samples | `TimesExact` |
| free tree | ten nodes of different keys, and six of three keys, each put in and taken out in any order | `FreeTreeRight` |
| assembler | programs of up to 3 of 32 lines, words of 2 bytes, memory of 40 | `CodeDecodes` |
| HCL | expressions of two levels over two types of signals | `CompiledAgrees` |

Why these bounds: the hazards of the shell involve one child and the loop, or two
children (one reaped or reported for the other, a foreground and a background
job); a third child adds no new pair. One slot fewer than children is the full
table. In `cache_sim` five blocks compete for three lines, so a trace of seven
fills the set, hits, evicts and evicts again; the second set shows that sets do
not disturb each other. In the proxy the hazards are between a thread that answers or
fetches and one that fills; with two slots a URL can be there twice, and the filling
comes back to the slot that is being sent. The responses of `proxy_transfer` have a last
piece that just does not fit, a NUL, an early end, two chunks, and none. Two clients of
Tiny are one that is served and one that waits behind it. A heap of 76 words holds the
four blocks of the small size and not those of the large one, so that requests fail,
blocks are split and merged on both sides, and the tree has up to three nodes of equal
and of different keys. The tree alone has up to ten nodes in `labs`: every tree that
insertions and removals can make of ten keys, three black levels deep, so that a fix-up
rises twice and meets each case on both sides. Three
instructions behind one that sets `%esp` fill the stages between decode and write back,
where all the conditions of the stall logic are; the fourth stage, fetch, then holds a
`halt` or the target of a branch. Blocks of transpose are 16 wide, so 15, 16, 17 and 33
are the sizes around one and two blocks. The reduced widths of the puzzles and of the
counter keep every boundary: the sign, the fields of a float, and each word's wrap.

**Fairness.** `FairSpec` (shell): the scheduler runs the process, so the loop takes a
step when it can (`Progress` without reading a command), an active handler goes on,
and a pending signal that is not blocked is delivered. Nothing is assumed of the
user or of the children: a job that never ends may be waited for for ever.
`ForegroundReturns` has a premise, that reports of children never pile up: without it
the property fails, because one SIGCHLD may stand for two children and `waitpid` is
called once. The run leaves the keyboard out, since a user who types without pause
keeps the loop from running.

`LockSpec` (proxy): a thread that holds the lock goes on (`UnderLock`), and `P` is
strongly fair: the semaphore is free again and again, and each thread that waits gets
it in the end. Nothing is assumed of servers, nor of clients that are fetched for. A
client that is answered from the cache does send its header and take the answer,
because the code reads from and writes to it while it holds the lock: with
`ClientsLeave = TRUE` the property fails, since such a client that ends its header
early keeps the lock for ever. `TunnelSpec`: a thread in the loop of a tunnel takes its
steps.

`Fairness` of module `Tiny`: the server runs, and a client that has connected sends its
whole request or leaves before it has. Nothing is assumed of clients that should read, of
CGI programs, or of the system. `ClientsServed` then says that who has sent a request is
answered, unless the server has ended, spins, or is held in a write or in `Wait` by
another; `StopsOnlyFor` says what its end and the spinning can come from as long as the
system refuses no call.

Deadlock is checked in the runs of the shell, the proxy and the heap. The simulators, the
trace of the cache and the parts of `labs` end.

### Where the code and its comments disagree

The first three are runs:

- `shell_fast_child`: a foreground child that ends between the unmasking of
  SIGCHLD and the search in `waitfg` is not on the list any more; `waitfg` uses
  a null pointer (`tsh.c` 333-334).
- `proxy_exact`: `cache_put` copies a response as a string but keeps its length
  (`proxy.c:68`); after a zero byte a hit sends what the slot held before.
  `driver.sh:387` compares a cached copy with the file, a text file.
- `data_lab`: `float_i2f` (`bits.c:343`) misses the carry of a rounded fraction into the
  exponent, and `float_twice` (`bits.c:405`) the step from the denormal to the normal
  numbers. At the real width `float_i2f(0x01FFFFFF)` is 0x4b800000 and should be
  0x4c000000, and `float_twice(0x00400000)` is 0 and should be 0x00800000; the
  values that `btest` tries at 32 bits miss both. Near TMax `float_i2f` gives the wrong sign
  as well (line 364: 0xcf000000 for 0x7FFFFFFF), and these values `btest` does try.

The others were met while modelling, and are excepted or modelled as the code has them:

- The comment at `tsh.c:345` says that the SIGCHLD handler reaps all available zombies;
  it reaps one (line 353).
- Ctrl-c between `fork` and `setpgid` is forwarded to a process group that does not
  exist yet, and lost (`tsh.c:188`; only the child calls `setpgid`). In the same window
  the terminal signals a background child.
- `step_state` has moved `%esp` when the address of a `pushl`, `call`, `popl` or `leave`
  proves wrong (`isa.c:832`); SEQ and PIPE change nothing, so the check of such a run
  fails. `CheckSucceeds` says that this is the only reason, and `%esp` the only difference.
- PIPE cannot fetch an instruction that has fewer than six bytes of memory
  from its address on (`psim.c:1404`), however short it is.
- PIPE forwards to register NONE: a `mrmovl` or `rmmovl` without a base register takes
  the value of an instruction ahead that writes no register (`pipe-std.hcl` 211-228).
- `sim_run_pipe` stops after `max_instr` instructions, says its comment; it counts
  cycles, those without a completed instruction included, except while the status is
  that of a bubble (`psim.c` 758-766), and does not do the writes of the last ones.
- `rotate` is right for sizes that its unrolled loop divides.
- `make_ele` checks the chain of its first argument instead of the elements
  (`node.c:307`), so elements may be of either type, and a case expression as an element
  of a set is chained into the set.
- `yas` prints addresses with three digits (`yas.c:160`), so code beyond 0xFFF is loaded
  at its address modulo 4096; `add_token` tests `tpos` where `tcount` is meant (line 449).
- Tiny builds its header by `sprintf` from a buffer into itself (`tiny.c:157`), and maps a
  file of no bytes, which fails and ends it (line 167). Whether a file can be read it asks
  by the owner's bit of the mode (line 77), so `Open` of another user's file ends it too.
- The handlers of the shell call `printf` (`tsh.c:355`), which is not safe in a handler.
- The proxy ends as a whole when a server cannot be reached (`proxy.c:311`), or when a
  header line it would pass on meets a null `nheader` (line 401); it keeps the connection
  of a client whose response has no end but the server's (line 290); a cached object is
  never refreshed (line 208).
- `add_range` of the malloc driver asks only whether an end of the new range is inside an
  old one (`mdriver.c:409`): a range that encloses an old one passes. `Allocator` asks for
  disjoint areas.
- `parseline` takes a quoted last word that begins with `&` for the background mark.

## 4. Proofs

All theorems hold for every value of the constants under the named assumptions
(`MAXJOBSAssumption`, `NoPidAssumption`, `PidsAssumption`: process ids are finitely many,
`KeyboardAssumption`;
`GeometryAssumption`, `SizeAssumption`, `AddressAssumption`; for the proxy
`UrlAssumption`, `HashAssumption`, `SizeAssumption`, `ResponseAssumption`,
`ThreadAssumption`, `BufferAssumption`, `SocketAssumption`; for the simulators
`WordAssumption`, `ProgramAssumption`, `SimulatorAssumption`, `LimitAssumption`; for the heap
`HeapAssumption`: it has room for the four words of the prologue, and is extended by at least
a block; and `TraceAssumption`: nobody asks for a block of no words). The theorems of
`RedBlackTree_proofs` have their hypotheses in their statements.

**Job table.** `JobTableInvariant` proves `NumberingInv` inductive; `JobsOnce` and
`NextNumberFree` are parts of it. A slot has a number exactly if it has a pid; without
that a deletion might leave the largest number behind. By
`JidFindsDistinct` a number leads back to its job exactly when all numbers in use differ;
`NumbersRepeatOnlyAfterRestart` then follows, since below MAXJOBS the next number is
above all others.

**Shell.** `ShellInvariant` proves `ShellInv` inductive. Its parts, and why each is
needed:

- `StackInv`: the active handlers are those on the stack, once each. A handler
  that returns is then the one on top.
- `MaskInv`: while `eval` masks SIGCHLD its handler is not active, so the child
  that is about to be added is a child and is not on the list.
- `HandlerInv`: what a handler remembers across an interruption: the pid to
  delete has been reaped, the pid to signal is the one waited for or is gone.
- `ForegroundInv`: which slot may be marked FG at each point of the loop. `do_bgfg`
  writes through a pointer to a slot that a handler may have freed; the slot
  cannot have been reused, since only the loop adds jobs.
- `Distinct` and `JobsAreChildren`: no process twice, and every job a child that
  has not been reaped, or is just being deleted.

From it follow `NoStaleJobs`, `OneForeground`, `KeysReachForegroundOnly`,
`ListedStates`, and `ImplementsJobControl`: each step of `TinyShell` maps to a
step of `JobControl` or to a stutter. The proof takes the actions that write the
list (`AddJob`, `SetState`, `ChldDelete`, `ChldStop`) one by one, and uses that at
the prompt no job is in the foreground.

`EveryChildListed` is about whichever handlers run between `addjob` and `waitfg`. A child
that is listed stays so until it is reaped, as long as the list only gets larger
(`StillListed`). The one hard step is `AddJob`: it puts the child on the list because a
free slot exists. If all slots were taken, `Distinct` would make the pids in them as
many as there are slots, which is at least as many as there are pids, and the one to be added
is not among them.

**Cache simulator.** `RingsStayIntact`: whatever `set_init` computes for the link
back from line 0, the lines and the head stay one ring. The invariant allows that
single link to be wrong while line 0 has not been used and is not the first; it is
put right before line 0 can be unlinked, when the line before it is used. "One
ring" is stated without recursion: `next` is injective, and a set that holds the
head and is closed under `next` holds all nodes. `BlocksInOneLine`,
`SecondAccessHits` and `CountersMatchContents` rest on it.

`CountsAsLRU` proves the refinement of `LRU`. `Order` walks the ring from the head
(`OrderWalks`), and on one ring the walk meets each line once and comes back
(`OrderOnce`); otherwise it would repeat itself and miss a line. `MovedOrder` says what
`MoveToTail` does to it: the places before the line stay, those behind move up by one, and the
line is last. The invariant of the refinement, `FreeFirst`, says that lines that
are not valid come before the others, so that the line `csim` takes is a free one while
there is one, and else the one used least recently. That two addresses have one set and one tag
exactly if they are in one block needs 2^(s+b) = 2^s 2^b, which is proved by
counting subsets (`PowerSum`), since exponentiation is not known to the solvers.

**Proxy.** `ProxyInv` is inductive. Its parts, and why each is needed:

- `TypeInv`: types; a response that is going to be put has a size below that of a
  slot, so that the NUL of `Finish` falls inside `cache_temp`; a thread in a request has
  a URL of `URL`, one that answers a hit a slot.
- `LockInv`: while a thread is between `P` and `V`, `sem` is 0 and no other is there.
  (`sem` may be 0 without: a client that ends its header early leaves the lock taken.)
  `OneHolder` is this.
- `BodyInv`: `cache_size` counts what was sent, and while it is below the limit
  `cache_temp` holds just that. Once over the limit it stays there, because
  the size only grows; this is why no part of a response is put.
- `CacheInv`: a slot that was filled repeats, up to the first NUL, what `origin` says
  was sent, and the slot a thread is answering from has its URL. The latter is kept
  because only the holder of the lock writes slots.

`TypeCorrect`, `HitsRepeatMisses` and `PutsAreComplete` follow. A type says nothing of
what is written where, since an update of a function keeps its domain whatever the
index. `StringsEndInside` does, for the calls that take no size: each slot, and what
`cache_put` copies, has a NUL inside the buffer (`EndInv`). `Finish` puts one behind the
size, which is below that of the buffer (`TempKept`), and what `strcpy` leaves ends at the
first NUL of its source, which is a least element of a set of numbers (`CopyEnds`). `FewCopies` has an
argument of its own: a thread counts as fetching from the moment its lookup
failed, when no slot held the URL; a put turns one fetching thread into at most one
more slot.

**Tunnel.** `TunnelsAreIntact`: the bytes that were sent are those received, those in the
socket, those in the buffer and those not read yet, in this order (`Carries`). The
invariant adds that the buffer is empty except between a read and its write, and that
a thread outside a tunnel has nothing unread.

**Tiny.** `ServerInvariant` proves `ServerInv` inductive, `ResponsesAreExact` and
`ServerStopsOnlyFor` follow. Nothing is said of a client that has left: what it would
still have got is lost. For the others, `ConnInv` says where its lines and its response
are: a client that waits has sent at most its request and got nothing; while it is served
the server has read its own request, and `Progress` says that the pieces it has got and
those still to be written are together a response by what `stat` found. `open` and `run`
stand between two pieces; where a file may go, `FilesInv` says that it is as at first or
missing, and `Endless` is the one response that a missing program leaves short.
`QueueInv`, that clients wait once and not while they are served, is needed for `Accept`.
The kinds of files are an assumption of these theorems. `ServerStopsOnlyFor` needs that an
error of a connection is read only from a client that has left (`NoReset`). It does not
count `failed`, where the system refuses a call, and does not exclude `blocked`.

**Timing.** `DifferenceExact`: `get_counter` with its borrow is the subtraction of numbers
of two digits in base `UWord`, so it is exact for fewer than `UWord` squared cycles.

`SamplerKeepsLeast`: after any number of calls of `add_sample` the samples are the `kbest` least
times. There is an injection of places in the array to times taken (`Picked`), the array is
sorted, and no time outside the image is less than one inside. A time that comes sinks to
its place by exchanges with a neighbour, which keep a sorted array sorted except at that place
(`SinkIs`, `SunkSorted`); the time that is dropped is the greatest, because the array is
sorted. The place it sinks to is found by counting the values that are not above it
(`PlaceExists`).

**Y86: the control logic.** `ControlWithoutHazard` proves `HazardControl`. No register is told
to stall and to bubble at once, since a load in execute is not a branch (`OrdersAgree`).
For progress, `Distance` counts the registers between write back and the oldest
instruction, and a cycle without a completed instruction makes it smaller by one, because a stall
or a bubble is always due to an instruction that is further on (`CycleAdvances`). This
needs `Regular`: an empty register holds a nop, so that it causes no stall. `idle` and
the distance are together at most three, or four while the pipeline fills.

**Y86: SEQ implements the instruction set.** `SeqImplementsISA` is `ImplementsISA` for the
sequential simulator with any added instructions, any program, word and memory size.
`sim_step` first writes what the cycle before has computed (`SeqDue`), and then computes; the
invariant says that what is due leads to a state. `Datapath` is the heart: `step_state`, which decodes and executes by cases of
the instruction, and the HCL, which says for every signal which instructions drive it how,
give one state and one status. Both sides go through the same named values (`ValA`, `ValB`,
`ValE`, `ValM`, `Cond`, ...): `ExecuteIs` says that `step_state` is `Completed` and
`StatusOf` of them, and `UpdateIs` and `SeqStep` that the simulator is. The bits of
`&` and `^` are sums, `Total`, of which the proof uses that they are integers only.
Nothing shows that a sum exists for all widths except induction, which is done by a least
counterexample (`Induction`, from the library's `WFMin`), since theorems with an operator as
parameter cannot be instantiated.

**Y86: PIPE implements the instruction set.** `SimulatorsImplementISA` is `ImplementsISA` as it
stands. `CycleOf` is what a cycle of `psim.c` makes of registers, memory, condition codes and
pipe registers, `Shifted` what its stalls and bubbles then move. The invariant, `PipeSim`, says
of the instruction in each pipe register what it is in the state that those ahead of it will
leave (`StateW`, `StateM`, `StateE`): one in decode has been fetched rightly, one in execute has
the operands it has in that state, one in memory has its result, one in write back its status
(`HoldsD` to `HoldsW`), and the address of each is where the one before it leads. The parts that
make this inductive:

- `Gaps`: behind a `ret`, and behind a jump that turned out not to be made, the registers
  are empty, so that an instruction that was fetched wrongly never gets as far as memory.
- `OrderKept`: a cycle moves the oldest instruction on or leaves all waiting, and no order of
  the hazard control makes an instruction overtake, be lost or be executed twice.
- `ExecuteKept`: what `forward` finds is the value of the register in the state that the two
  instructions ahead will leave. A value that is still to be loaded is not needed, because the
  load-use stall has kept its reader in decode.
- `SoundCode`: the plain instructions of the program whose bytes have not been changed. What
  the pipeline has fetched of these is still what the memory holds when they complete, and a
  store only makes them fewer (`LessCode`).
- Behind a failed instruction nothing is claimed, and the failed one prepares no change.
- It ends two instructions before the limit, as `NearLimit` does.

**Y86: the check.** `ChecksSucceed` is `CheckSucceeds`, for every status with which a run
ends. `FailedStep` says what an instruction that fails leaves behind in `step_state`: nothing,
or a moved `%esp` (`Moves`), which is the one exception. Each cycle of a simulator does what one
instruction of `step_state` does, or nothing, so `step_state` passes through every state that
the simulator shows (`Unfinished`), within as many instructions as there were cycles, and stays
in the one in which an instruction has failed (`IsaRunEnds`). What the simulator holds when it
stops is what it shows (`Finished`): for PIPE this says that nothing behind the failed
instruction has changed the condition codes or the memory, which is part of `HoldsW`.

**The free tree.** `IsTree(m, N)` says that the memory `m` holds a red-black tree with the nodes
`N`. Links alone do not say which nodes are below which, so it names them: there are a function
`sub` that gives the nodes below each node, a function `h` that gives its black height, and the
keys. `InsertKeeps` and `RemoveKeeps` say that `rbt_insert` and `rbt_remove` lead from a tree to
a tree with one node more or less, for a memory of any size, and write nothing but links
and colours of nodes. `QueryFinds` is about `rbt_query_ge`, `InitMakes` about `rbt_init`. `TreeShows`
says that what the runs check with `TreeOf`, `Linked` and `RedBlack` follows from `IsTree`. The argument:

- The memory is read as a map of nodes (`View`, `Now`): nodes do not overlap (`Room`), so a write
  to a field changes that field (`Poked`).
- A rotation keeps shape and order (`TurnShape`, `TurnOrder`); it changes `sub` in two
  nodes. Every round of a loop is made of rotations and colours. `Crown`, the end of the loop of
  `rbt_insert`, occurs in `rbt_remove_fix_up` as well, so `Crowned` allows for a black node that is
  missing below one place.
- The loop of `rbt_insert` keeps `InsInv`: a tree except that the node it is at may have a red parent.
  The loop of `rbt_remove_fix_up` keeps `Uneven`: the ways through the node it is at
  are one black node short.
- A loop ends because something grows in each round: the number of nodes below the one it
  is at, or not below it. `LoopsTo` is the one lemma about `While`. It is
  proved for loops over sets, and `Alike` carries it over to the loops of the model.
- `rbt_remove` uses nil as a node: its parent is written and read. So `nil`'s parent may be
  anything between two calls (`TreeKept`).

**The heap.** `Invariant` is the inductive invariant of `MDriver`, and `HeapStaysIntact`,
`TreeStaysIntact`, `FailuresChangeNothing`, `OnlyReallocsFragment` and `PackageAllocates` state all
that the run `heap` checks. As with the tree, the invariant names what words stand for:
there are addresses `B` of blocks and their sizes `sz` such that

- `Tiled`: they lie end to end from the prologue to the break, are aligned, and have room for
  a node. It is not enough that sizes lead from one block to the next, since
  `coalesce` goes backward as well: each block but the first has one before it.
- `Tags`: headers and footers say what `sz` does and whether the block is in use.
- `IsTree` of the blocks that are free, whose keys are their sizes.
- `Owned`: those in use are the prologue and the blocks the driver knows, no two the same. A block is
  as large as was asked for and less than a smallest block larger (`Fitting`), since `Carve` splits
  off the rest otherwise; a realloc that keeps the size then keeps the block, which is
  what `OnlyReallocFragments` is about. And it is filled with its number.
- Words without a meaning have been forgotten.
- The verdict is `valid` or that memory has run out. If the heap is too small for the first extension
  (`Tight`), it is never `valid`.

Within a call this does not hold: while tags are written or a block is on its way, one block is
out of the tree and its tags are any words (`Open`; `Heaped` has the set of the blocks whose
tags are right). `TakesOut`, `PutsIn`, `TagsOn`, `AbsorbNext`, `AbsorbPrev`, `Frees` and `Carves`
are the steps that lead from one such state to another, and mm.c is put together from them: `Coalesces`, `Extends`,
`Mallocs`, `Releases`, `Inits`, and, for the ways of `mm_realloc`, `InPlace`, `IntoNext`, `IntoPrev`,
`IntoBoth`, `IntoOther` and `Reallocs`. `Turns` says what a step leaves alone: the payload of all other blocks.
That the payload moves down whole although tags and nodes are written around it, and is not
read where it has been overwritten, is in `Copies` and `Resized`. `Coalesced` counts the free blocks
that lie before a free block (`Neigh`). `ChainNow` says that the walk along the sizes, by which
the properties find the blocks, finds `B`; `Drops`, `HandedFits` and `HandedLaid` are about the
driver's lists and checks.

**Model-checked only.** `ForegroundReturns`, `WaitersServed`, `TunnelRelays`, `TunnelEnds` and
`ClientsServed`, because liveness is out of the prover's reach; and of the parts
of `Labs` those other than the job table, Tiny, the counter and the sampler: `WordsKept`, `RioExact`,
`BitsMatchTests`, `KernelsRight`, `TransposeRight`, `CodeDecodes`, `CompiledAgrees`, and `FreeTreeRight`
and `TimesExact` as formulas, though what they say of the tree, the counter and the sampler is proved.
`Hcl` and `Labs` declare recursive operators, and `DataLab` and `Labs` use `Bitwise`, so nothing
is proved in them; the others compute a result of an input by recursion over it.

## 5. Not modelled

- The bomb and buffer labs: there is no source.
- Timers of the operating system, the compensation for timer interrupts, points and
  score tables: no state that other code depends on.
- Graphical modes of the simulators, drivers in Perl and Tcl, generated scanners and
  parsers.
- Text: what programs print, the headers of requests and responses, options.
- The children of the shell, CGI programs, clients and servers of the proxy are external:
  they do whatever the kernel allows them.
