# A model of SMIPS

SMIPS (`src/`) is a set of tools for a MIPS-like processor in C++: an
assembler `assem`, a disassembler `disassem`, and an emulated CPU. This
directory holds TLA+ modules that follow its code, configurations with which TLC
checks them on small instances, and proofs checked by TLAPS.
`PROJECT.json` is the index: it maps every definition to the lines it
models, lists the runs, the seeded faults, the findings, the hazards and the
theorems.

## The system

    assembly text --Scanner--> tokens --Lexer--> SourceInfo (TextInfo, DataInfo)
                                                     |  Assembler
                              file  <--save/load--  Program (Instr, DataSeg)
                                                     |  Disassembler / host
                            listing (TextInfo)  <----+---->  State (CPU) + DataCache

Everything is single-threaded. The components call each other only through
the command line tools and the tests: `assem` runs Lexer, Assembler and
`Program::save`; `disassem` runs `Program::load` and `dis_instr`; tests give
words to the CPU. What makes the code hard is therefore not concurrency but
state that outlives a call, counters and records that have to agree, tables
that are written down twice, and errors that nobody looks at.

| Component | State | Operations | What makes it correct | Module |
|---|---|---|---|---|
| Scanner (`Lexer.cpp` 113-478) | cursor, line counter, token buffer | `scanToken`, `nextToken` | every character delivered once, lines counted, ends at the end | `Scanner` |
| Lexer (`Lexer.cpp`) | segment mode, two address counters, current records | `lex`, `loadSource` | addresses gapless; references reach their labels; returns | `Lexer` |
| Symbol table, records (`Source.cpp`) | three vectors | `add`, `getAddr`, `update`, `init` | first definition stays; records stay in place | `Lexer` |
| Tables (`Codes`, `Opcode`, `Register`) | constant | lookup | mnemonics agree between components | `Codes`, `Codec` |
| Assembler | a source, a program | `loadSource`, `assemble`, `getProgram` | program is that of the source; fields do not overlap | `Codec`, `Program` |
| Disassembler | none | `dis_instr`, `dis_program` | inverse of the assembler where both know the instruction | `Codec`, `RoundTrip` |
| Program | instructions, data segments | `add`, `save`, `load` | a file gives back what was saved | `Program` |
| State (CPU) | PC, latches, registers, memory | `tick` (five stages), `reset` | a tick is one instruction, whatever ran before | `State`, `ISA`, `Datapath` |
| DataCache | a byte buffer | index, `clear`, copy | no access outside, one owner per buffer | `DataCache` |
| ELF headers | three byte arrays | 46 getters and setters | fields are independent | `ElfHeader`, `ElfFields` |
| `assem`, `disassem`, and the way to the CPU | the objects above | the order they are called in | a program does what its source says | `Toolchain` |
| Object, Segment, Data, Log | fields | containers under construction | not used by any tool | not modelled |

## Modules

`Codes` holds the mnemonic and directive tables as sets, grouped by the
operands they are parsed with.

`Lexer` models `Lexer::lex` from the token on. Its variables are those of the C++ class
(`pos` for `cur_pos`, `mode` for `cur_mode`, `text` and `data` for the records
of `source_info`, `syms` for `sym_table`). A source is a sequence of tokens; a
token carries what `nextToken` delivers and whether the newline follows it,
because the list directives watch the line counter. One iteration of the loop in
`lex()` is one action: `ParseInstr` (with operands and pseudo expansion),
`ParseSegment`, `ParseData`, `ParseOther` or `SkipComment`; each includes the
label that may precede the statement. `Throw` is a statement on which an exception
leaves `lex()`, with the label entered and the segment switched: a mnemonic in capitals (`CapsThrow`), or a character
constant that is no digit (`ByteThrow`). `ResolveLabels` is the second pass and
`Lex` loads another source into the same object, which clears all but the
symbol table and the mode. Two fields of a symbol, `run` and `at`, are not in the program: they
remember the call and the record a label was entered for.

`Codec` has `assembleText` and `dis_instr` as operators. A word is a record of
four parts that do not overlap, so that the 32-bit value is never built.
`RoundTrip` is the system of one instruction that is assembled and disassembled
in turn.

`Program` composes an Assembler, a `Program` and a file. A save may reach the
disk only up to any byte, since `save` checks nothing (`Left`; the constant `Cuts` bounds
the places). What `load` cannot read keeps the value its variable had, and a number or word of which only
some bytes are there has those bytes and the old ones above them (`NumberRead`, `Overwritten`).
Uninitialized variables take any value of the constant `Garbage`. `origin` is not in the
program and remembers what was saved.

`Datapath` has the arithmetic and the instruction fields without state: 32-bit
two's complement on TLA+ integers, each result computed in pieces that fit into
32 bits. `State` has one action per pipeline stage (`Fetch`, `Decode`, `Execute`
split by format, `Memory`, `WriteBack`), the latches between them, and the
host's `Reset` and `Poke` between ticks. `Trap` is the division on which the
process dies. `ISA` is the abstract specification: one step per instruction on PC, registers, HI,
LO and memory only. Where the emulator writes a register without having a
result, ISA lets that one register take any value. Its fields and results are
parameters (`OpBits`, `RAlu`, ...), which `State` fills in with those of
`Datapath`: the refinement compares the order of the stages and the state they pass on, and
an error of the arithmetic would be in both. `State` implements it under
the refinement mapping `last`, the values at the last boundary of two ticks.

`Scanner` is below `Lexer`: the cursor over characters, the loop of `lex()` that
eats blanks and comments, and `nextToken`, which cuts a token out of the text and
says what it is. The parser is left open: after any token it may ask for another
or go back to `lex()`. `tokens` records what was delivered and from where. A
comment without a newline sends `skipComment` out of the text (`mode = "lost"`);
a `)` too many pops an empty stack (`"undefined"`).

`DataCache` models memories as C++ objects: names that stand for a `DataCache` or
a `State`, and the blocks of the heap they point to. The assignment the compiler
gives `DataCache` copies the pointer, and so does the copy constructor of
`State`. The first undefined behaviour is recorded in `fault` and ends the
behaviour. `aliased` remembers whether such an assignment has happened.

`ElfHeader` has the three headers as arrays of bytes and the table of offsets
and widths that is spread over their setters and getters. `ElfFields` is the
abstract specification: records of independent fields. The refinement mapping
is what the getters return.

`Toolchain` composes `Lexer`, `Codec` and `State` (by INSTANCE, on shared
variables) with `main()` of `assem` and `disassem`, `Program::toVec` and
`State::writeMem`. A source is a sequence of statements; their meaning (`Effect`,
`Holds`) is written down from the statements alone, so that the properties
compare what a programmer wrote with what the processor did after lexing, pseudo
expansion, label resolution, encoding, byte order, and decoding.

`MC*` modules define the instances. `StateClaims` and the end of `Toolchain` state
what comments, examples and the README of the repository say and the code does
not do. `LexerProofs`, `ScannerProofs`, `StateProofs`, `ElfProofs`,
`DataCacheProofs`, `RoundTripProofs`, `ProgramProofs` and `ToolchainProofs` have the proofs.

Definitions marked *Seeded fault* are broken versions of the definition below
them. Each property is checked against one: with the fault in place
TLC reports the property violated (`mutants` in PROJECT.json).

## Runs

| Run | Shows | Instance |
|---|---|---|
| `lexer` | types; both segments gapless (`TextLayout`, `DataLayout`); labels have the address of the next record (`LabelMarksNext`); references lead to the labelled instruction (`ReferencesReachLabels`), exactly undefined names stay unresolved (`UnresolvedAreUndefined`); expanded pairs stay together (`PairsTogether`), records are touched only by label resolution (`LinesStable`); the first definition of a name stays (`AddressesArePermanent`); `lex()` ends, and by an exception only where one is known (`Terminates`) | every source of up to three of 13 statements and of two of all 34; every sequence of up to four of 11 tokens; one Lexer for two sources in turn, of one statement of any kind or a labelled one behind another |
| `cpu_isa` | latches belong to the current instruction (`FieldsCurrent`), a tick is one step of `ISA` (`ImplementsISA`) | every program of two instructions, one of each kind; resets and register writes in between |
| `roundtrip` | lines both sides know come back, or as `Returned` says (`LinesComeBack`), words settle after one round (`WordsSettle`), nothing turns into another instruction (`NoOtherInstruction`) | every mnemonic and opcode; registers and immediates at both ends of their fields |
| `program_files` | a whole file gives back the words, and the addresses if they were consecutive (`LoadRestores`); a cut one repeats its last word, mixed with the one before if the cut is inside it (`CutFilesRepeat`) | three sources, files whole or cut inside and between each number and word, operations in any order |
| `scanner` | every character that is no blank, separator or comment is delivered once and in order (`NothingLost`), comments are not read (`HashIsComment`), registers and offsets are read as written (`OperandsRead`), the line counter counts (`LinesCounted`), `lex()` ends (`Terminates`) | every text of up to four of nine characters, alone and between two statements; every operand of up to five of `$r()4`; words beyond the buffer |
| `memory` | every block has one owner until a memory is assigned (`OneOwner`), use after free needs an assignment and `writeMem`, `clearMem` leave only small memories (`FaultsHaveCauses`), copies are separate (`OneAtATime`) | three names, a default and a small size, three blocks |
| `elf_headers` | byte arrays implement `ElfFields` (`IndependentFields`), the identification stays (`IdentStays`) | two file headers, a program and a section header, any two calls |
| `toolchain` | straight-line code computes what it says (`ResultsAsWritten`), branches decide as they say (`BranchesAsWritten`), `assem` refuses exactly certain errors (`RefusedIfWrong`), listings come back as far as they do and are refused exactly if an operand is missed (`ListingsComeBack`) | three pairs of loaded values, one or two further statements of every kind that assembler and processor share, and a last one; every sequence of up to three statements of ten that are listed differently |

The runs `claim_*` each check one statement of the repository and end in a
counterexample; PROJECT.json quotes the statement under `findings`:

* `claim_rd`: the CPU's mask for rd leaves out the lowest bit.
* `claim_loop`: a resolved jump has the absolute address of its target, counted from
  0x00400000; the processor adds it to a PC that counts from 0. The loop of
  `asm/for_loop.asm` leaves the program.
* `claim_relist`: a jump that is listed and assembled again has lost its target, which `toInstrString`
  looks for in another place than `dis_j_instr` has put it.
* `claim_supported`: of the instructions the README lists for assembler and
  disassembler, `bgtz` and `sltiu` become `noop`, and `xor` is not disassembled. (`sub`
  and `subu`, also listed there, are no mnemonics of the lexer at all.)

The models reproduce other deviations, without a run of their own.

* Lexer: `.globl` is looked up as `.align` and makes a label of the
  data segment of its operand; `.half 53` before a newline stores nothing,
  because the token has already moved the line counter; a `.word` item takes one
  byte (`ParseDirective`); the second of two labels on lines of their own is not
  entered (`ParseOther`); `sub`, `subu` and negative immediates are labels
  (`IsLabel`); a closed character constant is a label, so `.byte 'a'` stores
  nothing; a mnemonic in capitals is an instruction to `nextToken` and none to `parseInstr`,
  and `lex()` throws (`CapsThrow`); a second source resolves to the labels of the first (`GetAddr`); a
  pseudo instruction and a data directive lose their errors (`RefusedIfWrong`).
* Scanner: the character after a label is dropped whatever it is (`AfterLabel`), a `#`
  behind a comma included, whose comment is then read (`HashIsComment`);
  an offset of two digits before `($r)` is read as a literal without the register (`OperandsRead`); a
  comment that is not ended by a newline makes `lex()` run on (`mode = "lost"`).
* Assembler and disassembler: `jr` is assembled into rd, and branches against the
  documented operand order (`AssembleText`); the mask for a disassembled target leaves
  out bit 24 (`DisJ`); an Assembler keeps its program when the next source
  has no text (`Assemble`); `.half` segments are empty and at address 0
  (`AssembleData`). `load` counts addresses from the first one, which is wrong
  for a standalone label, since it shares the address of what follows.
* Listings: shifts and `lui` an operand, loads and
  stores their offset; `noop`, and the name without letters behind the second comma
  of `mfhi` and the like, are taken for labels, and the registers `jr` does not have
  become two noops (`Name`, `Back`).
* Processor: the mask for shamt leaves out the highest bit (`Shamt`); products are
  cut to 32 bits (`HiLo`); immediates and loaded bytes are not sign-extended
  (`IAlu`, `LoadValue`); `$zero` is written like any register, by `jr`, `mult`, `div`
  and by the comparison of a pseudo branch, whose `$at` is odd and loses its
  lowest bit (`Dirties`); a branch writes the ALU register to its first operand
  (`BranchesAsWritten`); a branch offset is in bytes and is multiplied by four again.
* Memory: a program that does not fit is dropped without a word (`WriteMem`).
* ELF: the ident says big-endian and the setters store the low byte first;
  `==` of the headers, which is not modelled, compares the addresses of two arrays.
* Not modelled, but met: `Opcode::operator!=` is not the negation of `==`, so
  records whose opcodes differ in one of two fields compare equal; a
  hexadecimal literal is read up to its `x`.

**Bounds.** `MaxRuns` bounds the calls of `lex()`, `Reused` the sources of a Lexer that is
called twice, `Cuts` the places a file is cut at, `MaxTicks` the instructions
run; all else is bounded by the sources and images. Three statements are
enough for a definition before and after a reference with a
pair in between; two calls are enough for one to see the other's
symbols; a label behind a pair, a standalone record, a directive that failed or a switch of
segments shows each way the two counters move before it; two instructions are enough for every latch to be written by one
format and read by another. Register numbers, immediates and targets have their
outermost bits set, where masks go wrong. Two statements
after the two that load values are enough for a destination to be the operand of
the next and for a branch to see a comparison. Characters and operands of four and five
show every pair of neighbours the scanner decides by, the end of the text
included; the token buffer is cut down to eight characters so that it fills up.
Three objects and blocks are enough to copy, free and reuse; `MaxSets` bounds the
calls on ELF headers. Deadlock checking is off where behaviours end: when a
bound is reached, when a program is lexed, refused or listed, when an access is
outside the memory, and on a trap.

**Fairness.** `FairSpec` of `Lexer` has weak fairness of the actions inside
`lex()`, `FairSpec` of `Scanner` of its next-state relation, which is one
`lex()` too. It is one call on one thread without blocking, so a step that can be
taken is taken. Nothing is assumed of the caller.

## Proofs

`LexerProofs` proves, for all sources, words, segment addresses and numbers of
calls:

* `TypeCorrect`: `Spec => []TypeOK`. The work is in the lemmas on the operands
  (`ParseOperands`), on what each pseudo instruction expands to
  (`PseudoExpansion`), and on the list directives, whose item count
  `last - i` is a natural number only because the list ends at or after `i`
  (`ListEndBound`, which rests on the existence of a least element).
* `TextIsGapless`: `Spec => []TextLayout`. Inductive together with
  `TypeOK`: every statement appends records that are chained to `text_addr`
  (`TextStep`), and resolution changes no address (`ResolvedLine`).
* `DataIsGapless`: `Spec => []DataLayout`, by the same argument on
  `data_addr` (`DataStep`).
* `LabelsMarkNext`: `Spec => []LabelMarksNext`. Not inductive alone: a label
  speaks of records that do not exist yet. `LabelInv` adds that a label of this call marks a place
  at most one past the last record and that no label comes from a call yet to
  be made; records added later then leave it alone (`RecordsKept`).
* `RecordsAreStable`: `Spec => LinesStable`, and `AddressesStay`:
  `Spec => AddressesArePermanent`. Both follow from `TypeOK`: of a growing table
  the least index of a name stays the least (`FirstDefIs`).
* `PairsStayTogether`: `Spec => []PairsTogether`. `LineInv` adds that the two
  halves agree on whether they have a symbol, without which resolving could
  turn one of them only (`ResolvePair`), and that every reference still has its
  label while `lex()` parses; what a statement adds is `Fresh` (`ExpansionFresh`).
* `UnresolvedHaveNoLabel`: `Spec => []UnresolvedAreUndefined`. `AddrInv`: no label
  has the address 0, which `getAddr` answers for "not defined"; `DoneInv`: what each
  reference holds after `resolveLabels` (`ResolveSettles`).
* `ReferencesArrive`: `Spec => []ReferencesReachLabels`, from all of these and
  `LabelMarksNext`. The halves of an address make it up again only below 2^32;
  `BoundInv` bounds the addresses of a source by its length.

They use the assumptions of `Lexer`: the table of words contains the mnemonics,
sources are sequences of tokens, segment addresses are positive, and no source
is so long that its addresses leave 32 bits (`FitAssumption`, for
`ReferencesArrive` alone). TLC evaluates these in every run of `MCLexer`.

`ScannerProofs` proves all safety properties of `Scanner`, for every set of texts,
instruction table, register map, size of the token buffer and number of tokens a
statement asks for:

* `TypeCorrect`: `Spec => []ScannerTypeOK`. The loops of the code are choices of a
  first place in the model; that there is one, and what is before it, are the
  lemmas `SkipIs`, `FindIs`, `CopyEndIs` and `ScanIs`. With them a step either
  passes one blank or comment, or delivers one token, or does not move
  (`NextIs`); `ReadingIs` says what is passed on the way to a token and behind it.
* `LinesAreCounted`: `Spec => []LinesCounted`. The newlines up to a place further
  on are those up to this one and those in between (`LinesAdd`).
* `NothingIsLost`: `Spec => []NothingLost`. The property speaks of gaps that have
  a token on both sides; `GapInv` adds the one that is still open, from the last
  token to the cursor, and what is known of the character after a label
  (`GapEaten`, `GapTaken`).
* `HashIsAlwaysComment`: `Spec => []HashIsComment`. `CleanInv` adds that the
  cursor is in no comment begun by `#` that was not taken for a colon (`Clean`); it stays so because a token leaves it
  before the `#` or on the newline (`CleanMoves`, `CleanTaken`), and needs `GapInv`
  for the step behind a label, which is where a `#` can be passed.
* `OperandsAreRead`: `Spec => []OperandsRead`. `ReadInv`: a token is what the
  characters it was cut from say. The rest is about one string: `Spelled`
  gives the place of each of its parts, from which `extractReg()` finds the name
  (`NameIs`) and the offset (`OffsetIs`), and `Kind` no other case before the
  register's (`KindIs`). An offset of two or more digits without parentheses around the
  whole is the case of the property in which the register is lost (`NumberIs`).

They use the assumptions of `Scanner` on what is in the tables and texts: a `'\0'`
is only at the end of a text, a register begins with `$` and has no other `$` and
no `)`, a mnemonic begins with none of `$`, `(` and the digits, and the buffer holds at least one
character. TLC evaluates them in the run `scanner`.

`StateProofs` proves, for every size and contents of the memory, every register
write of a host and every number of instructions (`ImagesAssumption`,
`PokesAssumption`, `JunkAssumption`, `TicksAssumption`):

* `TypeCorrect`: `Spec => []StateTypeOK`. The work is in the lemmas on the
  datapath (`ByteOfType` to `FieldTypes`): the results are integers, whatever the operands, and the
  masks keep the fields in their widths. `TypeInv` adds that a tick is under
  way only while `ticks < MaxTicks`.
* `LatchesAreCurrent`: `Spec => []FieldsCurrent`, inductive together with the
  names of the latches.
* `Implements`: `Spec => ImplementsISA`. A step of `ISA` happens at
  `WriteBack`; the invariant `TickInv` says what each stage before it has left
  of the instruction at `last.pc`: the word fetched (`Fetched`), the advanced PC
  (`Advanced`), the results (`Executed`), the access to memory (`Accessed`), each as
  a function of `last`. It needs `FieldsCurrent`: without it the operands
  could be those of an earlier instruction. `TickWriteBack` then reads the step of
  `ISA` off these parts.

`ElfProofs` proves, for every choice of files, headers and numbers that fit
their fields:

* `TypeCorrect`: `Spec => []ElfTypeOK`; a header keeps its size and holds bytes.
* `IdentIsConstant`: `Spec => []IdentStays`.
* `Implements`: `Spec => IndependentFields`. It rests on `FieldsFit` and
  `FieldsApart` (the table of offsets and widths has no gap in use and no overlap),
  `ReadStored` (a getter returns what the setter stored) and `ReadOther` (and
  changes no other field).

`DataCacheProofs` proves, for every set of names and blocks and every size
(`MemoryAssumption`):

* `TypeCorrect`: `Spec => []MemoryTypeOK`, `NothingSharedOrLost`:
  `Spec => []OneOwner` and `OnlyTheseCauses`: `Spec => []FaultsHaveCauses`. The
  three are inductive together as `MemoryInv`: that a freed block is never used
  follows from `OneOwner`, and that a bound is exceeded only by small memories from
  the types. One lemma for each step (`StoreStep` to `LifetimeStep`).
* `CopiesAreIndependent`: `Spec => OneAtATime`, from `OneOwner`.

`RoundTripProofs` and `ProgramProofs` each begin with the lemmas on the encoding: what
`AssembleText` returns is a word (`AssembleTextType`), what `DisInstr` returns is a line
of a known name (`DisInstrType`).

`RoundTripProofs` proves, for every line of a known name with any operand values
and each of the 2^32 words (`LinesAssumption`, `StartsAssumption`):

* `TypeCorrect`: `Spec => []RoundTripTypeOK`.
* `Settles`: `Spec => []WordsSettle`, by format. A lemma states one
  round of each (`RoundR`, `RoundI`, `RoundJ`) on the fields of a word, from
  `FieldsOfR`, `FieldsOfI` and `FieldsOfJ`: shifting and masking by the assembler is undone by
  the disassembler. `SettlesR`, `SettlesI` and `SettlesJ` apply them to what the first
  round has left.
* `NamesAreKept`: `Spec => NoOtherInstruction`. The word has to come from the
  line (`FromLine`); then the codes are found in the tables again
  (`NameKept`), since the function code is not reached by the fields in front
  of it whatever the operands (`FuncOfR`).
* `LinesReturn`: `Spec => []LinesComeBack`, by format (`RLineReturns`,
  `ILineReturns`, `JLineReturns`): operands that fit are the fields of the word, and
  the listing has them in the places `Returned` says (`KeptListed`, `ListedI`, `ListedJ`;
  `JrReturns`, `SrlReturns`, `LuiReturns` and `ClearedBit` for what comes back changed).

`ProgramProofs` proves, for all sources and values of uninitialized variables
and all places to cut a file at (`SourcesAssumption`, `GarbageAssumption`, `CutsAssumption`):

* `TypeCorrect`: `Spec => []ProgramTypeOK`. It needs `FileInv`: the file is what
  `origin` was saved as, and no more of it is there than was written. Without
  it a word could be read that is not there.
* `FullFilesLoad`: `Spec => LoadRestores`, and `CutFilesLoad`: `Spec =>
  CutFilesRepeat`, from the same invariant and `WordReadIs`, which says what each
  read gives, byte by byte where the cut is inside a word.

`ToolchainProofs` proves, for every set of listings, of any length, of statements
that have the operands their operation takes (`ListingsAssumption`, `Complete`):

* `RefusesWrongSources`: `Spec => []RefusedIfWrong`. `main()` of `assem` looks for errors
  in the text records after `lex()`; the theorem says which statements leave one, and
  that no other statement, pseudo expansion, data directive, label or label
  resolution adds or removes one. By the inductive invariant `RefuseInv`: while a source is
  lexed, either a wrong statement has left an error, or the parser stands
  exactly behind the k-th statement and none up to it was wrong (`Underway`).
  The property alone is not inductive: whether the next step of the
  lexer records an error depends on which statement stands at `pos`, and the statements
  say so only if the parser took all the tokens of each one before, and no more.
  - `FlattenIs` to `FlattenEnds`: the source, a concatenation of concatenations,
    has the tokens of each statement at a place of its own, one behind the other (`Ends`,
    `Places`). `FlattenSeq` is recursive; that the recursion has a solution is
    `ConcatenationExists`, by `Upwards`, from the well-foundedness of strict inclusion.
  - `StatementTokens`: what stands at which place in the tokens of a statement;
    `StatementRead` is the same seen by the parser.
  - `TokensUsed`, `OperandsTaken`, `DataTaken`: `parseInstr` and `parseData` take
    exactly the operands, by the groups of mnemonics and directives.
  - `InstrLineError`, `ExpandedBlank`: an instruction has an error exactly if it is wrong, and
    the records of a pseudo instruction have none.
  - `StatementStep` puts these together for one step of the parser; `RightStep` and
    `WrongStep` apply it to the invariant, `RefuseStep` has one case per action.

`Complete` is what makes this provable for a statement without looking at its
neighbours: a statement that lacks an operand takes the next statement's first
token for it. The listings `disassem` prints are not complete in that sense (a shift
without its amount); for them `RefusedIfWrong` says only that nothing wrong was assembled
before, and `ListingsComeBack` says what becomes of them.

The assumptions are evaluated by TLC in the runs of the `MC` modules.

Model-checked only: `Terminates` of `Lexer` and of `Scanner`, since liveness under
fairness is out of the prover's reach; and `ResultsAsWritten`, `BranchesAsWritten` and
`ListingsComeBack` of `Toolchain`, which follow listings of concrete statements through all
components. The first two do not hold for every listing one could write: a destination
register with an odd number meets the mask of rd, a shift by 16 or more that of shamt, a
`sw` may overwrite the code, some mnemonics are known to the assembler and not to the
processor, and a label that is defined twice or stands at a data directive has no offset
among the instructions. `ListingsComeBack`
compares concatenations of what each word comes back as, through the parser's
handling of incomplete statements; its proof would need the tokens of two
statements at once, and is not done.

## Not modelled

* Hexadecimal and negative literals, escapes in strings, and numbers beyond `int`, on which
  `std::stoi` throws.
* Accesses outside the emulated memory: the code does not check, so
  nothing is known after one, and the model has no step there.
* Signed overflow in C++ is taken to wrap, as compilers for the target do.
* Object, Segment, Data, Log and Address: no tool uses them.
* Option parsing, printing, `toString` and `diff`.

## Plan

Done, in this order: `Codes`, `Lexer`; `Datapath`, `ISA`, `State`; `Codec`,
`RoundTrip`; `Program`; `LexerProofs`; `ElfFields`, `ElfHeader`, `ElfProofs`;
`DataCache`; `Scanner`; `Toolchain`; `StateProofs`; `DataCacheProofs`;
`RoundTripProofs`, `ProgramProofs`; the second part of `LexerProofs`;
`ScannerProofs`; `ToolchainProofs`.

Next:

1. Proofs: `ListingsComeBack`, for the words that come back as they were.
2. `Scanner`: hexadecimal and negative literals, and numbers beyond `int`.
3. `Toolchain`: data segments of a listing, and the early return of
   `assemble()` for a source without text.
