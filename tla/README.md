# Verification of riscv-sbt

riscv-sbt translates a RISC-V relocatable object (RV32IMFD) to LLVM IR,
ahead of time: `riscv-sbt` reads the object file, walks each text section
instruction by instruction, and emits one LLVM function for each guest
function, with a global copy of the guest's registers and an image of the
guest's data sections (the *shadow image*). The result is compiled for the host
and linked with a small runtime.

The translator is a sequential program. What is hard in it is not concurrency
but long sequences of legal steps over several maps that must stay consistent
(blocks created ahead of the walk, blocks split behind it, functions found on
the way), and, in the program that it produces, copies of one register file that
are stored and loaded at calls. These two are the core of the project; around them are
the relocation of instructions and data, the translation of a whole object, calls of
library functions, and the host code of single instructions.

All paths are relative to the repository's root; line numbers refer to the
sources beside this directory.

## 1. Inventory

| Component | State it keeps | Operations | What makes it correct |
|---|---|---|---|
| **Function translation** (`Function.*`, `BasicBlock.*`) | `_bbMap` (start address to block), `_nextBB`, `_indBBs`, the blocks' `_instrMap` and terminators, `_funcByAddr` | `translate`, `start`, `translateInstrs`, `finish`, `getByAddr`, `transferBBs`, `newBB`, `newUBB`, `split`, `addIndBB` | each instruction is in the block of the nearest start; the blocks are the guest's basic blocks; the host's control-flow graph is the guest's; every found function is translated; the walk ends |
| **Control flow of instructions** (`Instruction.cpp` 916-1409) | insert point and first instruction (`Builder`) | `translateBranch`, `handleJump`, `handleCall`, `handleICall`, `handleIJump`, `leaveFunction`, `enterFunction` | its assertions ("target basic block not found!", "instruction not found!") fail for nothing but ill-formed code |
| **Section walk** (`Section.*`) | `_nextFuncAddr` | `translate`, `updateNextFuncAddr` | no range of code is skipped or translated twice, no found function forgotten |
| **Shadow image** (`ShadowImage.*`) | `_pendingRelocs`, the bytes | `build`, `addPending`, `processPending` | a word that refers to code gets the address of a block that starts at exactly that instruction, and keeps it |
| **Relocation** (`Relocation.*`) | position in the relocations of a section, proxies, last symbol value | `nextReloc`, `getReloc`, `skipRelocation`, `addProxyReloc`, `handleRelocation`, `processSectionReloc` | each instruction gets its own relocation; a high and a low part make up the symbol's address modulo 2^32; a PCREL_LO finds the high part of its own auipc |
| **Registers** (`Register.*`, `XRegister.*`, `FRegister.*`, `Function.cpp` 182-223, 436-621) | a global copy of each register, a local one per function | `loadRegisters`, `storeRegisters`, `syncReg`, `cleanRegs`, `getReg` | the copies amount to the one register file of the guest |
| **External calls** (`Caller.*`) | | `callExternal`, `handleReturn` | arguments and results are where the convention puts them |
| **Module, imports, indirect calls** (`Translator.*`, `Module.*`) | imported functions | `import`, `genICaller`, `genIsExternal` | an indirect call reaches what a direct one would |
| **Object file and symbols** (`Object.*`, `Symbol.h`) | sections, symbols | `readSymbols` and lookups | symbols are sorted and attached to their section |
| **Sorted map** (`Map.h`) | a sorted vector | `lower_bound`, `upsert`, `erase` | it is a map |
| **Instruction semantics** (`Instruction.cpp`) | | ALU, M, F, D, CSR translation | the emitted code computes what RISC-V defines, with division by zero, overflow and conversions out of range |
| **System calls** (`Syscall.*`) | | `genHandler` | number and argument mapping |
| **Spill slots** (`Stack.*`, `Function.cpp` 656-831) | offsets from the frame address | `setCFAOffs`, `getSpilledAddress` | a spilled slot is either always a local of the host or never |
| **Builder, context, constants, types, options, disassembler, debug, runtime, scripts** | | | wrappers and records |

How they interact. `SBTSection::translate` walks the symbols of a section and
calls `Function::translate` for each range; the walk calls
`Instruction::translate` for each instruction, which asks `SBTRelocation` for
the target of an operand, `Function::getByAddr` for a called function (that call
creates the function and moves `_nextFuncAddr`, which the walk reads at its next
iteration) and creates or splits blocks of the function. After each instruction
the walk gives `ShadowImage::processPending` the opportunity to patch data with
the instruction's block, which may split that block again. All of them share the
insert point of one `Builder`. The emitted code interacts through the global
registers, which each translated function loads and stores.

What is hard to test, each at its line, is the list `hazards` of PROJECT.json,
with the properties that watch it. The behaviours are: orders of splits and
forward branches that no test program has; state that is read before a split and
used after it; a function that starts where blocks are already open; a register
copy that is stale after two levels of calls; a relocation that is consumed by the
wrong instruction; an argument that the two calling conventions put in different
places. Neither the translator nor the program it produces has threads, messages or
persistent state, so there is no crash or retry to model.

## 2. The modules

### The walk: BBMap, GuestCode, FuncTranslate

`BBMap` has the lookups that `Function` makes in `_bbMap`: `LowerBound`,
`GetBackBB`, `NextBBAddr`. A map is represented by the set of its keys.

`GuestCode` is the reference: code of `Size` instructions, of which only what
they do to control flow is kept, with `SuccOf` (where the guest goes from an
instruction) and `LeadersOf` (the textbook definition of basic-block starts).

| `op` | instructions |
|---|---|
| `plain` | ALU, loads and stores, calls of known functions, anything that stays in its block |
| `region` | an indirect call or a validated `fcvt`: the instruction ends its tracked block and leaves the insert point in the last of several *untracked* blocks (`newUBB`); the region is one block here |
| `ret` | a return or a tail call |
| `ijump` | an indirect jump, whose destinations are filled in by `finish` |
| `jump`, `branch` | JAL and the conditional branches, forward or backward, to an address of the range |
| `call` | JAL to a label that no symbol declares to be a function: `getByAddr` creates one |

`FuncTranslate` is `Function::translate` with everything it calls that changes
the control-flow graph. One iteration of `translateInstrs` is three steps:

| Step | Actions | Code |
|---|---|---|
| choose the block | `StayInBlock`, `EnterBlock`, `EnterErasedBlock` | `Function.cpp` 226-276 |
| translate | `TranslatePlain`, `TranslateRegion`, `TranslateLeave`, `TranslateCall`, `JumpForward`, `JumpBack`, `JumpBackSplit`, `JumpAsserts`, `JumpToErased` | `Instruction::translate`, `translateBranch`, `handleJump`, `getByAddr`, `updateNextFuncAddr`, `split` |
| record | `RecordInstr`, `RecordLabel`, `RecordLabelSplit` | `addInstr`, `processPending`, `Function.cpp` 296-313 |
| end | `Finish`, `StartNextFunction` | `finish`, `processIndirectBranches`, `transferBBs`, `start` |

`bbMap` is the union of the functions' `_bbMap`s (a function owns the keys from
its start on); `home` is the LLVM function in which a block was created, which
`transferBBs` does not change; `term` has the kind and the successors of the
block's terminator; `instrMap` says which block's `_instrMap` holds an
instruction; `first` is the block of `Builder::first()`; `erased` are the blocks
whose LLVM block `finish` has erased while the map keeps the entry. Two values of
`pc` stop the model: `abort` (an `xassert` fails) and `undefined` (an erased
block is used). Nothing is said about what follows them.

### The run: GuestRun, HostRun

`GuestRun` is an abstract specification: a run of the guest's code, one
instruction per step. `HostRun` extends the walk with the execution of its
result: when the walk is done, the host is called at the entry block, executes
the instructions of a block and takes its terminator.
`ImplementsGuest` says that this is a run of the guest, with `hostAt` as the guest's
program counter. It is stronger than the static comparison of edges: it relates
the instructions that are executed, in their order, to the guest's.

### The registers: GuestRegs, RegSync

`GuestRegs` is the abstract specification: one register file; what a callee
finds (`Passed`), what its caller finds on return (`Returned`) and what the
callee must preserve (`Preserved`). In ABI mode the guest's code is assumed to
follow the RISC-V calling convention and no more than the convention is promised;
in the other modes there is one file and calls leave it alone.

`RegSync` is the code that riscv-sbt emits, while it runs.
`x` are the global registers; `frames` the active functions with their local
copies. A frame has copies of the registers that its code accesses (`acc`),
because `cleanRegs` deletes the others together with the loads and stores at
sync points. The actions are a register write, a call of a translated function
(`handleCall`, direct or through `handleICall`, with `Function::start` in the
callee), a return (`freturn` and the load in the caller), a direct call of an
external function (`handleCall`, `Caller`), and an indirect one (`leaveFunction`,
`callICaller`, `enterFunction`). A return from a tail call is `freturn` in the
frame whose `tail` is set. Local copies start with any value: they are
uninitialized allocas. `ImplementsGuestRegs` is the refinement: the file is what
the function on top reads.

The emitted synchronisation code moves no value from one register to another.
So a behaviour of all registers, seen at any few of them, is a behaviour of the
model, and the model takes the set of registers to follow as part of its state.

### Relocation of instructions: RelocLookup, RelocStream

`RelocLookup` is the abstract specification: an instruction that asks for its
immediate gets the value of the relocation at its own address, and a high and a low
part, the low one signed, make up the address modulo the word.

`RelocStream` is `SBTRelocation`: the relocations of the section are a stream with a
position `ri`, read in step with the instructions, though not every instruction asks
(`pos` is the instruction), and the walk starts at the first function symbol, past
what relocations there are before it. A relocation of a call becomes two entries of the queue
`proxies`. `last` is what `handleRelocation` leaves for `isCall`.

| Action | Code |
|---|---|
| `Plain` | an instruction without an immediate: no call of `handleRelocation` |
| `SkipRelocation` | an invalid encoding, after which `skipRelocation` catches up |
| `NoRelocation`, `HandleRelocation` | `handleRelocation` with `nextReloc`, `getReloc`, `addProxyReloc`, and the value of each type (`RelFn`, `SymVal`) |
| `Fail` | the relocations that it rejects: unknown types, symbols that are missing, functions behind |

`ImplementsLookup` is the refinement. A failed translation stops; that it gives no
wrong value before is part of the refinement.

### The module: ModuleTranslate

`Module::translate` for a code section and a data section. `CopyWord` and
`RelocateWord` are `ShadowImage::build` and `processSectionReloc`, where a word that
refers to a function creates it, and one that refers to a label is `pending`.
`SkipSymbol`, `FunctionStart`, `FunctionEnd` and `SymbolsDone` are the loop over the
symbols in `SBTSection::translate`; `TranslateInstr`, `SwitchFunction` and
`FunctionDone` are `Function::translateInstrs`, as far as it concerns functions:
`SwitchFunction` is the test for `nextFuncAddr`, and `Emit` and `ProcessPending` are the calls of
`getByAddr` and `processPending`. `fns` holds the maps that functions are looked up
in, by name and by address, and `_nextFuncAddr`; `owner` is the LLVM function an
instruction ends up in. The blocks inside a function are `FuncTranslate`'s.

### Calls of library functions: SourceCall, ExternalCalls

`SourceCall` is the abstract specification: the library hears the arguments of the
call in the source, in order, and the caller gets the result. A printing function
may hear its arguments in several parts.

`ExternalCalls` follows one call through the parts of the system that handle
it: `SplitGroup`, `BreakGroup` and `IssueNewCalls` are the pass `PrintfBreak`, which
runs over the source's LLVM code and replaces a long `printf` by several; `Import` is
`Translator::import`, with its substitutions and fake addresses; `GuestCalls` is the
guest's compiler placing arguments by its ABI (external to the code, modelled from how
`Caller` uses it); `CallExternal` and `CallICaller` are `Caller` and the
indirect caller, `HostReturns` the call itself with `handleReturn`,
and `GuestGetsResult` the sum of the results of the parts. Values
are sequences of 32-bit words, each with the argument it is a part of, so that a
word in a wrong place is a difference. `Place` puts one more argument into the guest's
registers, and `Take` says which of them `nextArg` takes one more value from: the two count
words in ways of their own, and that they agree is what the model is about.

`LibraryAssumption` and `CallsAssumption` say which libraries and calls it is about. The
functions of `sbt/libc.c` have parameters that fit `a0`-`a7`; the variadic ones (`printf`, `fprintf`,
`sprintf`, `fscanf`, `sscanf`) take their format last, behind ints. A `printf` that is called by its name may have
any arguments (`GoodPrintf`); every other call must be one that the translator can pass as it is
(`GoodCall`), which is what the pass is for.

### Instructions: Isa, Instructions

`Isa` is the architecture: what an instruction leaves in registers, memory and
`fcsr`, written with integers; comparisons of NaNs raise the flag NV, `feq.s` for signaling
ones only. `Instructions` is what `Instruction` emits for
it, written with LLVM's operations on values of a fixed width (two's complement,
truncation, extension, shifts that must stay below the width). One step fetches any
instruction, with any operands, and the next executes it; `ImplementsIsa` says that both
leave the same registers and the same memory.

`fcsr` is different. The code emulates `fflags` only with `-enable-fcsr`, which is off by
default (`sbt.cpp` 214, `Options.h` 182): otherwise `getCSRValue` gives zero and `setCSRValue` emits nothing. Both modes are
modelled, `enableFCSR` is chosen in `Init`. And no floating-point
instruction that the code emits raises a flag. So the host's `fcsr` is not the architecture's, which is the history
variable `archFcsr`, updated by `Isa`'s `FCSRAfter`; the two are compared where a program reads `fflags`. What
`ImplementsIsa` claims of such a read is this:

| Mode | Programs | Claim |
|---|---|---|
| `-enable-fcsr` | without comparisons | the read gives what the architecture says |
| default | without comparisons | it gives zero and a write has no effect, which is not RISC-V: `Isa` with `hasFFlags` FALSE |
| either | that compare and read `fflags` | none. `ProgramAssumption` excludes them, because the architecture's flags are not raised: `fmv.s.x`, `feq.s` of a signaling NaN, `csrrs` is a counterexample |

### MC modules and proof modules

`MCGuestCode`, `MCFuncTranslate`, `MCHostRun`, `MCRegSync`, `MCRelocStream`,
`MCModuleTranslate`, `MCExternalCalls` and `MCInstructions` define the inputs of the
runs. `DataFacts`, `BBMapProofs`, `FuncTranslateProofs`, `HostRunProofs`,
`RegSyncProofs`, `RelocStreamProofs`, `ModuleTranslateProofs` and `ExternalCallsProofs` hold
the theorems (section 4).

## 3. The runs

| Run | Question | Size |
|---|---|---|
| `any_code` | Does the walk keep blocks and instructions consistent, whatever the code? Every code over all operations and targets, jumps to themselves included, with every set of data labels when the last instruction is a plain one. `WalkInv` (the invariant that is proved), `BlocksPartitionCode`, `InsertBlockOpen`, `BackTargetsFound`, `LabelsStayBlockStarts`; every function discovered ahead gets a body (`DiscoveredFunctionsTranslated`); each step brings the walk nearer to its end (`StepsApproachTheEnd`), and it ends. | 4 instructions |
| `functions` | Is the result right? Every function, with jumps, branches, indirect jumps, indirect calls and sets of data labels (`OneFunction`), and codes in which calls discover functions ahead (`Discovery`): the host's edges are the guest's, its blocks are the basic blocks, no branch leaves its LLVM function, no erased block is used, the host is never stuck, and its run is a run of the guest. | 5 instructions |
| `registers` | Do the copies amount to one register file? `a0` with each of `ra`, `sp`, `a1`, `a2`, `s1`, `fa0`, the three register modes, with calls, tail calls and both kinds of external calls. | 3 frames, 2 values |
| `relocations` | Does each instruction get its own relocation? Every order of instructions that ask, do not ask or are skipped, with every mix of relocations, with and without RELAX marks (`Structures`), and every kind of target, every section base and both modes of calls for each type of relocation (`Values`). | 4 instructions, words of 16 with a low part of 4 |
| `module` | Is every instruction translated into the function that owns it, and does a call or a data word reach the code it means? Every choice of function symbols, labels and aliases, with two calls or references between any of the addresses; or with two data words and one call. | 4 instructions |
| `external_calls` | Does the host's library hear what the source says? `printf` of up to seven integers and doubles in every order, and functions of `sbt/libc.c` with each kind of parameter and result, by name and through a pointer, with both ABIs; does each round of the loop that breaks a `printf` get further (`RoundsAdvance`), and does each call come to its end (`CallEnds`)? | 7 conversions |
| `instructions` | Does the emitted code compute what RISC-V defines? Every integer instruction, load, store, and the sign injections, comparisons and moves of floats, for all operands; accesses to `fflags` with and without `-enable-fcsr`, in programs without comparisons (see `Instructions` in section 2). | 4-bit words, 1-bit cells; signaling and quiet NaNs |
| `label_on_region`, `unfinished_blocks`, `external_results`, `unused_registers`, `stale_address` | What a comment or an option's description says and the code does not do (section 6). | |

Why the bounds are enough. The walk looks at the block of the instruction, the
nearest start ahead, and one target. Three instructions suffice to split a block
in the middle, from behind and from its own end, to open a block ahead and to
enter it; a split of a block that is the result of a split while `_nextBB` lies
ahead needs four, a function found between two others five. For
what section 4 proves, which is most of it, the bound does not matter: it is proved for
every size. For registers, two frames show a call and a return, and three a value
that passes through a function that does not use it; two values are enough
because values are only copied; again the theorems hold for any depth. A
relocation is out of step because of what precedes it: a call (two
instructions), one that does not ask and one that does make four. In `module`, a function
that is found, one that it is found from, and one that the walk must return to need
three addresses, and the fourth is between them. A `printf` is broken if it has
five variadic arguments or more, into groups of four: seven have two groups, the second
of every size, and a double across their border. With words of four bits
every operation has its carry, its sign and its overflow,
and a high part of a product that differs between the signednesses.

The inputs of the passing runs that are excluded, and why:

- a conditional branch as a function's last instruction (`functions`): `finish`
  erases the block that it falls through to; what follows
  a function is not part of the model. `any_code` does not exclude it;
- a jump to itself: `handleJump` asserts (`any_code` has it);
- an instruction that calls its own address as a bare label: `updateNextFuncAddr` takes
  it for the next function;
- a data label at an instruction with a region, a branch over or up to the start
  of a function that is found (`functions`): these go wrong, see section 6. Again
  `any_code` does not exclude them, so `WalkInv` holds in spite of them;
- calls of bare labels behind the call or in another function (`module`): a label
  behind is inside a body that exists already, one in another function is the subject
  of `stale_address`. Compilers emit neither;
- `syncOnExternalCalls` with local registers in `registers` (section 6);
- in ABI mode, a function that makes a call and does not access `sp`
  (`UsedByCallers`): compiled code that calls has a frame in which it saves `ra`.
  Without it `unused_registers` fails (section 6);
- references from before to an address with two function symbols (`module`): they would create
  an entry for the first one, which an unstable sort chooses;
- words of data with an addend (`module`). They go wrong: `processSectionReloc` files the word under the
  address of its symbol, whose block is what it is filled in with, and the addend is lost;
  `DataRelocated` and, for a function at the sum, `NeverFails` are false. Compilers give each label that data refers to a symbol;
- two labels at one address, which make `addPending` assert if data refers to both (`module`);
- programs that read `fflags` after a comparison of floats (`instructions`): the code raises no flags
  (`Instruction.cpp` 2001-2022, `Builder.h` 726-745);
- `PCREL_LO12` relocations (`relocations`): the code that is translated is compiled
  for fixed addresses;
- more than four words behind the fixed arguments of a variadic function that is not
  broken, and doubles that the host finds at other words than the guest puts them in
  (`external_calls`): these are what `PrintfBreak` exists to avoid, and it knows `printf`
  only. Conversions that take two arguments are excluded as well: the pass counts percent
  signs;
- divisions by zero and of the smallest integer by -1 (`instructions`): C
  leaves them undefined, and compilers guard them.

Deadlock is not checked (`CHECK_DEADLOCK FALSE`) where the system stops: a translation is
finished at some point, a call has returned, and a guest program at its bound of frames
may only return. `instructions` has no end, and checks it.

Fairness. `FairSpec` of `FuncTranslate` has `WF_vars(Next)`: the translator is sequential, waits
for nothing and is run until it ends. `TranslationEnds` says that no sequence of splits
and switches of functions keeps the loop of `translateInstrs` from advancing. `ExternalCalls`
has `WF_vars(Next)` for the same reason, the library functions being ones that return
(`abort` aside, which is modelled as one that returns nothing): its `FairSpec` adds it for `CallEnds`, that each call
comes to its end. `SourceCall` has no fairness: `ImplementsSource` is about what is heard and returned, and
a theorem. No fairness is assumed of the guest program.

## 4. The proofs

All theorems are checked by TLAPS for every value of the constants. Where a theorem needs
more of them than the modules assume, it says so in its `ASSUME`, under a name, and the inputs of
the runs satisfy it. TLC checked each inductive invariant on the instance of a run before it
was proved. Most of what the runs of section 3 check is a theorem.

| Module | Theorems (property) | Hypotheses |
|---|---|---|
| `FuncTranslateProofs` | `WalkCorrect` (`WalkInv`), `TypeCorrect`, `PartitionCorrect` (`BlocksPartitionCode`), `InsertBlockCorrect` (`InsertBlockOpen`), `BackTargetsCorrect` (`BackTargetsFound`), `LabelsCorrect` (`LabelsStayBlockStarts`), `EndIsApproached` (`StepsApproachTheEnd`) | none |
| | `DiscoveredCorrect` (`DiscoveredFunctionsTranslated`) | `NoSelfCalls` |
| | `HomeCorrect` (`BranchesStayHome`) | and `FunctionsApart` |
| `HostRunProofs` | `EdgesCorrect` (`EdgesFollowGuest`), `LeadersCorrect` (`BlocksAreLeaders`), `ErasedCorrect` (`NoUseOfErased`), `RunCorrect` (`ImplementsGuest`), `NotStuckCorrect` (`HostNotStuck`) | and `WholeFunctions` |
| `RegSyncProofs` | `RegistersKept` (`RegInv`) | `"sp" \in UsedByCallers` |
| | `RegistersImplementGuest` (`ImplementsGuestRegs`) | `GoodPrograms` |
| `RelocStreamProofs` | `HalvesRecombine`, `CallsFoundCorrect` (`CallsFound`), `NewFunctionsAheadCorrect` (`NewFunctionsAhead`), `StreamImplementsLookup` (`ImplementsLookup`) | `GoodRelocs`: no `PCREL_LO12` |
| `ModuleTranslateProofs` | `FunctionsFound` (`FunctionsByAddress`) | `NamedObjects` |
| | `NeverFailsCorrect` (`NeverFails`), `InOwnFunctionCorrect` (`InOwnFunction`), `FunctionsHaveCodeCorrect`, `CallsReachTheirCodeCorrect` (`CallsReachTheirCode`), `DataRelocatedCorrect` (`DataRelocated`) | `GoodObjects` |
| `ExternalCallsProofs` | `BreakNeverFailsCorrect` (`BreakNeverFails`), `RoundsAdvanceCorrect` (`RoundsAdvance`), `PiecesPassableCorrect` (`PiecesPassable`), `CalleeMeantCorrect` (`CalleeMeant`), `SourceImplemented` (`ImplementsSource`) | none: `LibraryAssumption` and `CallsAssumption` of `ExternalCalls` |

**DataFacts** has what the others need about least elements (`MinExists`, `MinIsLeast`), the front of a
sequence (`FrontFacts`), parts of sequences (`PartOf`, `PartsMeet`), and where the elements of sequences are that are joined (`ConcatAt`,
`FlattenAt`). `CountUp` is
induction over an interval of numbers, stated for a set: a recursive function has the value that
is claimed of it on `0 .. n` if the set of the arguments where it has contains 0 and,
with each of its members, the next. `RecursionTo` uses it to show that a function that is defined step by step exists, and so has
its equation at each step. **BBMapProofs** has what the lookups of `_bbMap` return: the extremum of
a finite set of addresses, `LowerBound`, `GetBackBB` and `NextBBAddr`.

**FuncTranslateProofs.** `WalkCorrect` holds for every `Size > 0`, every code and
every set of labels, from `SizeAssumption` and `CodeAssumption` alone.
`BlocksPartitionCode` is not inductive: an instruction goes into `first`, and
nothing in it says that `first` is the nearest start. `WalkInv` adds what each of
the three steps of an iteration hands to the next: `NextBBNotPast` (`_nextBB` is
not past any start ahead, so none is walked over), `OpenFrom` (nothing has been
emitted into a block ahead), that the insert block is the nearest start while an
instruction is being translated and open, that `first` still is when the instruction is
recorded, and that all labels already patched are starts. The case that takes work is
`JumpBackSplit`: the block that is split may be the one being filled, and
then the insert point, `first` and the terminator move to the bottom part. One
lemma per action shows that it keeps `WalkInv`; `StepWalk` collects them.
A by-product is `UpdateNextBBAssigns`: the condition in `Function::updateNextBB`
is always true, so it is an assignment. `WalkInv` holds nevertheless because
whatever is assigned last is the address after the instruction.

`EndIsApproached` is as much of termination as this prover can say: `Remaining`, which counts the instructions
ahead and the phases of an iteration, falls at each step and is never negative. What TLC adds
(`TranslationEnds`) is that the walk is never blocked before its end.

`DiscoveredCorrect` is about `updateNextFuncAddr`, which keeps one address of all the functions found
ahead. `FoundInv` says that this one is the nearest of them, and that every function that a call
has named is behind the walk with a body, or still ahead. A call of the instruction's own address breaks it
(`NoSelfCalls` excludes that): the function at hand then passes for the next one.

`HomeCorrect` needs two invariants. `RangeInv`: the function at hand is the one that contains
the walk. `GraphInv`: every block lies in the LLVM function that made it, and every
terminator leads to blocks of the same function; blocks are made by branches before their function is
known to end, and a split takes over the LLVM function of the block that it splits. The
hypothesis `FunctionsApart`, that no branch leads over the start of a function that
a call finds, or ends right before one, is what `transferBBs` relies on (section 6,
`unfinished_blocks`).

**HostRunProofs** proves that the result of the walk is right, for every range of any size, with all the
functions that calls find in it. Besides the hypotheses above it takes `WholeFunctions`: no conditional branch at the end of the
range, no data label at an instruction with a region. `FlowInv` strengthens `WalkInv` with a relation between terminators and the
instructions already walked, which must hold although most terminators are made, moved or
replaced long before the walk ends. It is stated for each pair of
consecutive instructions (`GoesTo`): either both are in one block, and then the first
is plain, or the first ends its block with the terminator that the guest's
instruction stands for. A split separates one pair and leaves all others alone, which is what
makes the statement inductive (`PairsInv`). `finish` replaces the terminators of indirect jumps and
closes the last block, in its own function only: the terminator that an instruction stands for therefore
depends on whether its function is finished (`Finished`, `TermOf`). `BehindInv` and `AtHandInv` say what is
handed from one instruction to the next within an iteration; `StartsInv` and `TargetsInv` that
each block starts at a leader and each target of the code walked so far has its block; `LabelsDone`
that the labels patched in the function at hand are those an indirect jump of it may go to;
and `BodyInv` that no block of the function at hand lies past the start of another, so that `finish`
erases none that is used. After the last `finish` the pairs add up to the edges (`DoneFacts`), and
`BodyIsTogether` relates the bodies that the guest's control flow is defined by to the functions the walk has
found. `HostInv` adds where the host is; each of
its steps is one of the guest's or a stutter, and there is always one to take, which
`HostNotStuck` states without `ENABLED`: the terminator exists and its targets hold instructions.

**RegSyncProofs** proves `RegistersKept` for every set of registers and values,
every set of options and any depth of calls, from `RegAssumption` and
`"sp" \in UsedByCallers`. `RegInv` has the types, `CallersKeepRegisters` (a waiting
function finds the registers that a callee must preserve, in its own copies or in the global
ones) and `CallersUseTheirOwn`. The argument: a register that a callee must preserve is
stored to a global copy by no sync point, except `sp` (`PreservedFacts`), and `sp` is
in the local copies of every function that waits for a call. `KeepSuspended` is that argument
for a step that leaves the suspended frames alone; `CallRegs` is the one
action that adds a suspended frame.
From `RegInv` it proves that the copies implement the one register file
(`RegistersImplementGuest`), under `GoodPrograms`: functions that call access `sp`, and
`syncOnExternalCalls` is used with global registers only. One lemma per action shows which
step of `GuestRegs` it is. In a return in ABI mode, that the caller finds its preserved registers
is `CallersKeepRegisters`.

**RelocStreamProofs** proves for every section, every sequence of relocations without
`PCREL_LO12` and every width of the two parts of an address that they add up to it
(`HalvesRecombine`), that `isCall` recognizes exactly the second halves of calls
(`CallsFoundCorrect`), that `handleRelocation` creates no function behind the instruction
(`NewFunctionsAheadCorrect`), and that the stream implements the lookup
(`StreamImplementsLookup`). The invariant says that the stream is ready for the instruction at
hand (every relocation of an address from there on is still in it, and an older one is skipped
before it is used), and that the queue holds a proxy exactly when the instruction is the second
of a call.

**ModuleTranslateProofs** proves first that the maps of functions stay consistent through data, calls of labels and the walk,
from `NamedObjects` (function symbols of one name are at one address). The other five theorems take
`GoodObjects`: in addition calls refer to a function symbol, or to a label that is ahead in the same function, and
words of data, without an addend, to an address that has one symbol. They rest on `ModuleInv`, which relates the walk to
the maps: where the walk is among the symbols (`PlaceInv`), what is found already and what can still be
found (`KnownInv`), that `_nextFuncAddr` is the nearest function ahead in the range being
translated (`NextInv`), that each instruction translated is in the function of the nearest
address (`OwnerInv`), that a function's entry is the block at its address (`EntryInv`), and for the words of
the image that each is raw, relocated, or waits for its label (`DataInv`). `InOwnFunction` is not
inductive because a call may still turn an address into a function; `KnownInv` says that it can
only be one ahead. `FunctionsHaveCodeCorrect` is the statement that the run `stale_address` shows to be
false of other objects.

**ExternalCallsProofs** proves of a `printf` of any length, with doubles anywhere, that the pass neither fails (`BreakNeverFails`) nor makes a
call that the translator cannot pass (`PiecesPassable`). The invariant `Broken` says that the pieces are a
partition of the arguments by an increasing sequence of bounds, that each piece has the conversions of its
arguments, and that all but the last, which is the rest, can be passed; one lemma (`SplitGood`) shows that
`split` refines the partition, and `GroupGood` composes up to two splits to a round of the loop, which leaves the loop's index where `_i` is, and further than before (`RoundsAdvance`). `ArgItStarts` then shows that the
iterator over the arguments stops at those bounds. `CalleeMeant` follows from `ImportInv`: addresses
of imported functions are distinct, below the next one, and the two maps are inverse to each other.

`SourceImplemented` is the refinement. Its first half is about one call that can be passed (`GoodCall`). Where the guest
puts the words (`PlacedAt`) and where a Caller takes them from (`TakingIs`) are both counted from argument to argument, by
`tx` words and `tf` floats; for the parameters that a function names the counts agree, whichever registers the ABI passes
floats in (`FixedPassed`). Behind them a Caller takes single words, which is right as long as the guest has left no
gap for the alignment of a double: each double begins at an even word (`VariadicPassed`). `HearsMeant` puts the words
together again as the library reads them, by the types of the format. `CallHeard` is the result: whichever way the
call goes, the library hears what it means, and `HostResult` says the same of the way back. The second half is about the calls that are
issued. `PieceGood` shows that those for the pieces can be passed, `SourceGood` that the pass leaves alone only calls that can
be; `PieceMeant`, that each means its part of the arguments and counts them. `PassingInv` relates the
progress to the source's call: there are bounds at which the parts begin, what was heard is all up to a bound, and
what was added up so far is that bound. Each `HostReturns` is then a `Hear` of the abstract specification, or a stutter
if the call has no arguments to be heard, and the last `GuestGetsResult` is its `Return`.

Only model-checked:
- liveness: `TranslationEnds` and `CallEnds`;
- `ImplementsIsa`, which uses bitwise operators;
- the violations of section 6, each a trace.

## 5. What is not modelled

- In the walk: the spill stack, `copyArgv`, and that a conditional branch may end a function.
- In the module: `startMain` (`Function.cpp` 76-106), the start of `main`, which always creates its LLVM function and
  sets the stack up (nothing refers to `main` in the inputs); several code sections, which the build merges before the translation;
  the offsets of data sections in the image, common symbols and `.bss`.
- In relocation: pairs of `PCREL_LO12`; the log of relocated instructions. The code ignores
  the addend of a symbol in the text, and the inputs have none.
- In the registers: main's own return to the host, callbacks from external
  functions into translated ones, `icallIntOnly`, and `-dont-sync-fregs`.
  In ABI mode the set of preserved registers omits `gp` and `tp`, which compiled
  code does not write.
- In external calls: escaped percent signs, which `split` passes over (a format is the sequence of
  its conversions, and text between them is left out); 64-bit integers and `long double` by value, the results of a `printf`
  that fails (`PrintfBreak.cpp` 342 has a FIXME for it), indirect calls of external functions with
  the hard-float ABI, which abort, and data imported from libc.
- Instructions: floating-point arithmetic, minimum and maximum, conversions with their range checks
  (only their control flow is, as a region), which are out of TLC's reach; the exception flags that floating-point instructions raise in the
  architecture and never in the emitted code, with or without `-enable-fcsr`; `fence` and
  `ebreak`; the counters, which read a clock; `frm` and `fcsr`, which the code rejects. Double precision is as
  single precision.
- `SortedMap`: its lookups are those of a map, in the modules that use it; that
  `std::inplace_merge` keeps the vector sorted is taken for granted.
- System calls (`Syscall.*`, a table of two entries), the spill slots (`Stack.*`), and comments in the output
  (`AddrToSource.*`).
- Reading of object files, disassembly, command line, debug output, runtime assembly and
  scripts are input/output or wrappers. `src/mibench` and the other benchmarks are programs to
  translate, not part of the translator; they are most of the repository's lines.

## 6. Findings

| Run | What it shows |
|---|---|
| `label_on_region` | `processPending` sets the insert point to the bottom part of a split whichever block it was in. When a data label is at an indirect call in the middle of a block, the last untracked block of the call keeps no terminator, although `Function.cpp` 266-267 intends that every block left behind branches to the next. |
| `unfinished_blocks` | `finish` erases an empty last LLVM block and leaves its wrapper in `_bbMap`. When the function ended because a new one was found, `transferBBs` hands the wrapper to the new function, which goes on to use it. |
| `stale_address` | `updateNextFuncAddr` compares with `_ctx->addr`, which for the next function is still the last address of the previous one. If the previous function called this one, its own start passes for the next function ahead and hides a label inside it that has become a function, which then stays empty. |
| `external_results` | With `-sync-on-external-calls` and local registers, `loadRegisters` after a direct external call overwrites the result in the local `a0` with the global `a0`, which holds the argument that was stored before the call. |
| `unused_registers` | In ABI mode, a function that makes calls without accessing `sp` passes to its second callee the `sp` that the first one stored for a call of its own. The comment in `cleanRegs` says that a register without accesses can lose its loads and stores because it is not used. |

## 7. Plan

What is left, in this order:

1. `SortedMap` against a function from keys to values, `inplace_merge` included.
2. `Syscall` and the spill slots, with a guest that runs on both sides.

## 8. Running the checks

```
tlc -config Functions.cfg MCHostRun         # one run; the others alike
tlapm FuncTranslateProofs.tla               # one module's proofs
```

`PROJECT.json` lists the components, the runs with their properties, for each
property a mutation of a definition that violates it, the source lines
that each definition stands for, the hazards and the theorems.
