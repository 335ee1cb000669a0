# A verification of the RISC-V assembler

The program assembles one file of RV32I source into an ELF executable in a
single pass. `main.c` maps the input and calls `parse_line` once per line;
`parse_line` recognises the line with a trie of keywords and calls the emitter;
the emitter keeps, for `.text` and `.data`, a 4096-byte buffer that spills into a
temporary file, and a map of labels with the instructions that wait for them;
at the end the emitter writes headers, text and data to the output.

It is sequential. What makes it hard is that a single pass completes
instructions after they were emitted: the buffer position, the spilled size,
the offsets recorded in waiters and the label map must agree through any
sequence of lines, spills, holes and changes of section. Around that core lie
a hand-made trie, a parser that looks ahead and gives back, an output that is
written with calls that may do less than asked, and a library of containers.

## Inventory

| component | state | operations | used by |
|---|---|---|---|
| section buffers (`emitter.c` 18-63) | `section_buf`, `len`, `pos`, `vaddr`, `swap` per section, `current_section` | `emitter_clear_buffer`, `emitter_buffer`, `emitter_advance` | `parse_line`, `emit_section` |
| labels (`emitter.c` 65-135) | `labels`: name -> `val`, `waiters` | `emitter_label_add`, `emitter_label_get_or_add_waiter` | `parse_line`, `emitter_output_elf` |
| ELF output (`emitter.c` 137-240) | the output file | `emitter_output_elf`, `emit_section` | `main` |
| line handling (`parser.c` 257-337, 354-579) | the position in the input | `parse_line`, `parse_data_array`, `parse_string_literal` | `main` |
| lexer (`parser.c` 13-255) | none | `parse_reg`, `parse_imm`, `parse_identifier`, ... | line handling |
| encoding (`ops.c`, `parser.c` 339-345 and 433-543) | the word under construction | tables, `set_btype_imm`, `set_jtype_imm` | line handling, labels |
| keyword trie (`trie.c`, `trie.h`) | constant arrays | `trie_next`, `trie_term` | line handling |
| trie builder (`instruction_trie/main.c`) | a tree, then `gbuf` and `aux` | `trie_builder_insert`, `gbuf_size`, `gbuf_fill` | the build |
| life cycle (`main.c`) | files, mapping, line counter | options, open, map, loop, output | the user |
| containers (`cc.h`, vendored) | vectors, strings, lists, hash maps, red-black trees | insert, erase, find, iterate, reserve, shrink, clone | the emitter (map and vector) |
| `argparse` (absent from the repository) | | options | `main` |

Interaction is by direct calls on one thread. Two histories meet in shared
state: the offsets of bytes (`pos`, `len`, the file) and the offsets stored in
the label map. There is no timeout, message or concurrent access. Failures are
a failing or short system call, a failing allocation, a syntax error (`main`
returns 1), an assertion, and the branch of `emitter_label_add` that is not
implemented.

What makes each component correct:

* buffers: `pos` is the offset of the next byte; no byte is lost; nothing is
  written past a buffer; what was spilled is final;
* labels: a reference gets the distance from itself to the definition of its own
  label, exactly once, wherever it and the definition are; no other byte is
  touched; an address never changes; a second definition is reported;
* directives: every line starts at a multiple of 4;
* encoding: the word a processor decodes is the line that was written;
* output: a program that returns 0 wrote a file that loads as the sections;
* trie: exactly the keywords are found, with their own data, whatever the order
  in which they were inserted;
* parser: a text is accepted if and only if it is a sequence of sentences, and
  means what they mean; errors name the line; `main` ends;
* containers: sequences and dictionaries, whatever memory does underneath.

`PROJECT.json` lists the hazards line by line, with the property that covers each.

## Modules

| module | models |
|---|---|
| `Bytes` | bytes, sections and displacements as data |
| `Emitter` | the operations of `emitter.c` on sections and labels |
| `Assembler` | composes `Emitter` with `main`'s loop and the emitter calls of each kind of line |
| `Listing` | abstract specification of buffers and labels together |
| `Output` | composes `Assembler` with `main` around its loop, `emitter_output_elf` and a loader |
| `Parser` | `main`'s loop and `parse_line` over the text |
| `Register` | `parse_reg` over the characters of a text |
| `Encoding`, `Instruction` | `ops.c`'s tables and the encoders; one instruction from its line to its completed word |
| `TrieNode`, `Trie`, `Keywords` | a node of the trie; builder, layout and lookup; the real list of words |
| `Items`, `Lists`, `Dictionary` | abstract specifications: sequences by index, two lists by iterator, the associative containers |
| `Vector`, `Str` | `cc_vec`, `cc_str`, which implement `Items` |
| `List` | `cc_list`, which implements `Lists` |
| `HashMap`, `Tree` | `cc_map`, `cc_omap`, which implement `Dictionary` |
| `MCAssembler`, `MCOutput`, `MCParser`, `MCInstruction`, `MCTrie`, `MCContainers` | instances for the runs |
| `AssemblerProofs`, `ReferenceProofs`, `OutputProofs`, `ParserProofs`, `RegisterProofs`, `InstructionProofs`, `TrieProofs`, `ContainerProofs` | theorems |

Definitions whose comment begins with "Mutant" are plausible errors of the code;
no behaviour uses them. They exist so that every property can be shown to fail
when the code does.

### Assembler and Emitter

Variables are those of the C structure: `buf[s]` is `section_buf[s]` up to `len`,
`pos[s]` is `pos`, `swap[s]` the temporary file up to its offset, with zeros for
the holes that `lseek` leaves; `swap_size[s]` is the file's size, which a hole at
the end does not extend. The label map is `keys` (the entries), `val` and
`waiters`. `pc`, `elem` and `count` say where inside a data directive the
program is, because a later element of an array or character of a string may
still be in error. `asked` and `defs` are histories that no action reads.

A byte is a record: the kind of thing it belongs to, the label its instruction
refers to, its place in the instruction, and the set of displacements that were
ORed into it. ORing twice, or into the wrong instruction, therefore shows.

| action | code |
|---|---|
| `OpLine` | an instruction without label: `emitter_buffer` of 4 bytes |
| `JumpLine` | branch or `jal`: `emitter_label_get_or_add_waiter`, then `emitter_buffer` |
| `LabelLine`, `Redefinition`, `LabelStop` | `emitter_label_add` returning 0, returning -1, and stopping the program |
| `SectionLine` | `.text`, `.data` |
| `SpaceLine` | `.space` |
| `DataElement`, `EndDirective` | a round of `parse_data_array`'s loop; its end and padding |
| `StringOpen`, `StringChar`, `EndDirective` | the same for `parse_string_literal` |
| `EndOfInput`, `ParseError`, `Panic` | the ends of `main`'s loop |

The operators of `Emitter` follow the code as it is, also where it errs:
`emitter_buffer` drops what it copied to fill the buffer, and
`emitter_label_add` does not assign `val` to a label it completes.

Several properties have the premise that the section lost no byte: once bytes are
missing, offsets of instructions that follow name other bytes, and the violation
of `NoByteLost` is the report of that. The premise is an observation of the
state, not a restriction of the inputs: all instances spill, and lose bytes.

### Output

`stage` is the place in `main`: the nine calls before the loop (`SetupCall`), the
loop (`Loop`, which is a step of `Assembler`), the header, the copy of each swap
file, the write of each buffer, the seek between the sections. Every call may
fail, and every transfer may move all but one of its bytes (`Transfer`; no
caller looks at the missing number, so one stands for any). `out` is the
output file with its old contents, if there was one, and `off` the file offset:
a seek over a part of an old file leaves the old bytes. `faulty` is a history.

`IsLoaded` is the reference: a loader maps whole pages at the headers' addresses,
and each byte of the sections is read back where the program expects it.

### Parser

The text is a sequence of tokens: words, one blank, or another single
character; `MCParser` builds the texts. `pos` is `main`'s pointer and, while a line
is read, `parse_line`'s. `plan` is what the operation's case of `parse_line` still
has to read; the emitter calls are collected in `events`.

| action | code |
|---|---|
| `BlankLine` | the early return for a newline, which stops at the first blank of a line of blanks |
| `KeywordLine`, `LabelLine` | the walk along the trie; giving up and reading the word again as a label |
| `Operand`, `Emit`, `EmitElement` | the operands one by one, the emitter call at their end |
| `OpenString`, `StringChar` | `parse_string_literal` with its escapes |
| `EndOfLine` | the check of what follows, and `main`'s line counter and step |

Numbers are read with `strtoll`'s own white space (`CSpace`), which a newline
belongs to, so an operand may come from the next line. `Understood` compares the
result with a reference that knows nothing of reading order: all ways to cut the
text into sentences with numbers in their ranges (`InRange`), such that no label is
defined twice (`Lawful`; a label that was referenced first is never given its value,
see the finding at `emitter.c:111`, and may be). A sentence is a set of places of the text that are not blank
(`SentenceAt`), a reading a set of line ends (`Readings`); what a reading means is
what its sentences mean, one after the other (`MeaningOf`). A text with a string is
outside that language; of it the other properties speak.

A register is one token there. `Register` is what `parse_reg` does with its
characters: one text, read once. `Spellings` is the reference, the names the
calling convention gives each register, to which `parse_reg`'s comment adds a
leading zero. `MCInstruction` has it next to `Instruction`, as the two share a line
but no state.

### Trie

`Insert` is `trie_builder_insert`, one word a step. The layout is `gbuf_fill` as its
activations run: `Fill` is `main`'s call, `FillEntry` one turn of the second loop,
which may write a word's slot, a link's slot and call for the node behind it, and
`FillReturn` the end of that loop. A path names an activation, so the stack is the
path `current` and what it begins with; `number` and `entry` hold each activation's
`n` and `i`, `gpos` and `apos` are the globals. `gbuf_size` is counted
(`GbufSize`, `AuxSize`). `Ask`, `WordEnd` and `Follow` are
`parse_line`'s walk over a query character by character. A key set is a set of bits
in two words of 64, and `Rank` is the shift and population count of `trie.c`.
`KeyAssumption` excludes the characters 0 and 64, for which the shift is undefined.

### Containers

`Items` says of a sequence what a caller is told: contents, the position each call
answers with, and that a failed allocation changes nothing. The implementations
are the memory: cells and a capacity (`Vector`, and `Str` with its terminator).

`Dictionary` and `Lists` tie every answer to its call: a call with its arguments is
made in one step (`Ask`) and returns in the next, so that what is found, put in,
taken out and answered is that of the key or iterator the caller gave.
The implementations are metadata with chains and displacements (`HashMap`),
nodes with colours (`Tree`) and links (`List`, two lists and their shared ends).

A key is in a `Dictionary` if and only if the container finds it: `MapContent` looks
every key up as `cc_map_get` does. So the failed insertion that has taken a key
out of its chain (the finding at `cc.h:3108`) shows: `PutFails` may lose `MayLose` other
keys, 1 for the map and 0 for the ordered map. With a key lost, the caller of the model may look keys up
or clean up (`MapAsk`): an insertion that evicts the lost key, or an erasure, walks
the chain of its home until it meets its bucket (`cc.h:3095-3105`), which is not on it. `Dictionary` has sweeps, in which the caller erases some of what
it visits: every key is met once.

A place of `Lists` is a pointer-iterator and keeps its element wherever a splice moves it.
The code does two things a caller may not expect of a sequence, and `Lists` states
both: a place spliced before itself drifts out of its list (`adrift`), although its iterator
can still be erased, spliced back or inserted before; and an insertion before
`r_end` stops the program (`Stop`), since it writes to the placeholder, a constant that the
build puts into read-only memory. `owned` is a history of what the calls put into each list.

`Str` is a vector with one more cell. A formatted insertion makes two passes over
its arguments, one that measures (`FormattedLength`) and one that prints
(`PrintedInto`), and formatting modes among the arguments change what follows.

### Instruction and Encoding

A word is the set of its one bits, so that shifts, masks and ORs are what they
are in C, on 32 bits. `encode` and `set_btype_imm`, `set_jtype_imm` are the code;
`Field`, `ImmI`, ..., `Decoded` are the reference, the way the processor manual
cuts a word into fields and lists the operations by opcode, function code and the bits that
tell `sub`, `sra` and `srai`: tables of their own (`LOAD`, ..., `SYSTEM`, `Number`), not those of
`ops.c`. `Instruction` gives the word its life: complete at
once, or buffered without displacement and completed when the label is defined.

## Runs

| run | checks | bounds |
|---|---|---|
| `labels` | `FixesAreRight`, `PendingIffWaiting`, `ImplementsListing` | two labels (symmetric), buffer of 12 bytes, 16 bytes of text, data labels but no data bytes, `.space 8` |
| `spills` | `TypeOK`, `PatchesInBuffer`, `FixesAreRight`, `PendingIffWaiting`, `NothingMoves`, `ImplementsListing` | one label, buffer of 8 bytes, 20 bytes of text, 4 of data, `.space 8` |
| `data` | `PosIsOffset` | elements of 1 and 8 bytes, strings, `.space 4`, buffer of 8 bytes, 13 bytes of text |
| `instruction` | `TypeOK`, `OperationRecovered`, `RegistersRecovered`, `ImmediateRecovered`, `DisplacementRecovered`, `RegistersRead` | 39 operations, registers 0, 1, 21, 31, immediates around each limit, each single bit of a displacement; all texts of 3 characters out of 25, every name of a register with up to 2 characters behind it or blanks in front |
| `output` | `WideDataAligned`, `ZeroMeansLoaded` | headers of 2 and 1 bytes, pages of 8, buffer of 8, 12 bytes of text, 4 of data, an old file of 0 or 30 bytes |
| `trie` | `LookupRight`, `LayoutFits`, `KeywordsKnown` | every list of up to 3 of 7 words, every query up to 3 characters; the real list with its words' prefixes and extensions |
| `parser` | `Understood`, `LineReported`, `ReadsStayInside`, `Terminates` | 16 kinds of line, every edit of one token out of 18, after 9 openings |
| `containers` | the five refinements `VecIsItems`, `StringIsItems`, `ListsAreItems`, `MapIsDictionary`, `TreeIsDictionary`, and the inner structure of each container: `SizeIsLength`, `FormatsAsMeasured`, `WalksAgree`, `ChainsRight`, `RedBlack`, `InOrder` | vectors and strings up to 4 elements; two lists with 3 nodes; 4 keys with 3 hash functions in tables of 4 to 16 buckets; 7 keys in the tree |
| `unassigned`, `lost`, `aligned`, `holes` | one property each, violated | the shortest programs |

The bounds of the assembler are on the bytes an input asks for in each section
(`MaxBytes`), never on the number of lines: labels, section switches and
redefinitions may occur any number of times. A buffer of 12 bytes holds two
instructions and is full at the third; with four instructions of text, and with
`.space 8` that leaves a hole in the file, an instruction can be in the
buffer, in the file, or dropped, with a label before, between and after; a buffer
of 8 is the smallest the code could have, since a `.dword` must not go round the
loop of `emitter_buffer` twice, and reaches every remainder. The 20 bytes of
`spills` let the same file be extended repeatedly, so that overwriting it would
show. The base addresses of the two sections differ, otherwise a displacement
taken in the wrong section would look right. Registers with no, all and
alternating bits, and displacements of a single bit, its neighbours and its
negative, tell any two positions of a field apart.

In `output`, headers and pages are small so that some programs fit behind the
headers in their last page and some do not, and an old file may be longer than
what is written. In `trie`, the seven words begin one another, and their
characters lie in both halves of the key set and, in one case, in both at the
same node. In `parser`, one edit reaches each check of `parse_line`, and the
openings are those that move the start of the next line. In `containers`, the
hash functions make keys collide, wrap around the end and meet the displacement
limit (3 instead of 2047), seven keys give trees of four levels, and three list
nodes are spliced within and across two lists, before themselves and before the
ends too. Counters are bounded by guards named in the modules: `MaxCap`, `MaxVec`,
`MaxStr`, `MaxNodes` are what the allocator gives, and reaching them is the failing
allocation; `MaxLine` would stop the line counter, and `MaxLineAssumption` says that
no text is long enough to reach it.

Deadlock is checked in all runs but `containers`, where a write to a constant may
have ended the program, and the ends of the programs are explicit steps.

### Fairness

Only `Parser` assumes fairness, `WF_vars(Next)`: `main` runs alone, and each
step is code that is next to execute and waits for nothing. `Terminates` says
that every text is accepted or rejected. It is not vacuous: `parse_line`
returns from a blank line without having moved, and with `StepNowhere` in the place
of `main`'s `pos++` the loop does not end. The other components have no liveness to
claim: their inputs are arbitrary and unbounded, and the program may stop with them.

### What the violations show

* `unassigned`: `emitter.h` says `val` is negative while there are waiters. A
  label that was referenced first keeps `val` -1 after its definition. Branches
  after that wait for ever and keep displacement 0; the label can be defined
  again; a forward-referenced `_start` gives an entry point of -1 plus the headers' size.
* `lost`: `test.c` says that what does not fit in the buffer is stored elsewhere.
  The bytes that fill the buffer to its end are not: with 4096 bytes, the
  1024th instruction disappears.
* `aligned`: the comments say that directives keep 4-byte alignment; the padding
  is the remainder itself.
* `holes`: `emitter.h` says that space is made with the help of holes. A hole at
  the end of the temporary file is not part of its size, so the copy is
  short and `main` reports an error although no call failed.

`PROJECT.json` has nine more findings without a run of their own:

* the assertion in `emitter_label_add`, which fails after a lost byte (`AssertHolds`);
* the headers, which are not counted in the text's size (`HeadersCounted`);
* the entry point of a `_start` that was referenced before its definition, which
  lies outside the text since its `val` is still -1 (`EntryInText`);
* lines of blanks, which are counted several times (`LineIsOfText`);
* the usage comment of `trie.h`, which the code contradicts;
* a key that `cc_map_get` no longer finds when the rehash its eviction asked for
  fails, which is why `MapIsDictionary` is claimed with `MayLose` 1 for the map and 0
  for the tree;
* a list node spliced before itself, which is counted and met by no walk
  (`SizeIsWalked`);
* an insertion before `r_end`, which writes to the `static const` placeholder
  although the comments say that `r_end` is handled (`REndIsHandled`);
* an empty formatted insertion, which writes to a constant.

The definitions `AssertHolds`, `HeadersCounted`, `EntryInText`, `LineIsOfText`,
`SizeIsWalked` and `REndIsHandled` are in the modules, and TLC finds each of them
violated when it is added to a configuration.

`Listing` describes what is kept all the same: until a byte is lost, a definition
completes all the references that wait for it, in both sections, and no others.

## Proofs

The theorems hold for any set of labels, buffer of at least 8 bytes, base
addresses that are not negative, operands and bounds. What they assume of the
constants are the named assumptions of the modules, which TLC evaluates in the runs.

### Buffers (`AssemblerProofs`)

The inductive invariant is `Inv`: `TypeOK`, `PosIsOffset` and `AbsentLabels`.
Typing alone is not inductive. That `emitter_buffer` leaves natural numbers and a
subsequence behind needs the buffer never to be full (`len < BufSize`), which is
a part of `PosIsOffset`; and a label outside the map has neither address nor
waiters, without which the first reference of a label could find an old list.
The first half shows for each operation of `Emitter` that it keeps its part
(`BufferKeeps`, `AdvanceKeeps`, `LabelAddKeeps`, `WaiterKeeps`); the second combines
them action by action.

* `TypeCorrect`, `OffsetsCorrect`: `Inv` implies `TypeOK` and `PosIsOffset`.
* `NothingEverMoves`: every operation extends files at their end (`FilesGrow`) and
  assigns only labels that had no address.
* `AssertionsHold`: strengthened to "every waiter in a section that lost no byte
  lies at least 4 bytes before `pos`, and no section is given more bytes than were
  asked for". A waiter is registered with its instruction, and a dropped
  instruction makes the section one that lost a byte (`PosAndAsked`).
* `WideDataStaysAligned`: strengthened with the count of the directive under way:
  in the current section `pos` and `count` agree modulo 4.

### References (`ReferenceProofs`)

Neither `PendingIffWaiting` nor `FixesAreRight` is inductive: they speak of
instructions one by one, while a definition patches whatever four bytes stand at
the offsets that a list remembered. `RefInv` adds `ReferencesOK`, about each section that lost
no byte: every byte of a reference belongs to an instruction that is there whole
and has either a waiter at its offset or the displacement to an address of its
label; every other byte was never ORed into; and every waiter stands at the
first byte of an instruction without displacement. It is stated of the bytes of a
section (`References`), file and buffer together, so that a spill changes nothing.
A definition removes the waiters of one label in both sections and completes
exactly their instructions (`AddressesDefined`: with an address the label has).

* `ReferencesStand`: `RefInv` is an invariant.
* `WaitersAreTheOpenReferences`: `PendingIffWaiting`. An open byte has a waiter
  by `ByteOK`, and a waiter stands at an open instruction by `WaiterOK`.
* `FixesAreAlwaysRight`: `FixesAreRight`.
* `AssemblerImplementsListing`: with `Image` as the listing's bytes, every action
  is a step of `Listing` or a stutter. The invariant supplies what the listing
  knows and the code does not look at: that the four bytes at a waiter's offset
  are the ones the listing would complete.

### Output (`OutputProofs`)

* `ProgramAssembles`: `OutSpec` implies `Spec`: around the loop `main` leaves the
  emitter alone, so the theorems above hold of the whole program.
* `WritesInPlace`: `OutInv` is an invariant. It adds to `Inv` the types of the
  output (`OutTypes`), that no swap file is larger than its offset (`SizeInFile`: an
  `fstat` can tell less than was written because of a hole, and never more), and
  `Progress`: at each stage, where the file offset is and which bytes of which
  section already stand where. The seek to the data may lead back over the text
  if the text does not end before it; `TextCopied` has the premise that it does.
* `ZeroAlwaysLoads`: `ZeroMeansLoaded`. That the headers and the text fit is the
  premise of both. `PageDistance` and `RoundUpFacts` show that a loader maps the
  pages at the headers' addresses, and that a byte's place in the file is the
  distance from the segment's address.

They hold for all sizes of headers and pages (`SizesAssumption`), any old output
file (`OldSizesAssumption`), any section sizes and any number of bytes a call moves.

### Parser (`ParserProofs`)

`ParserInv` says of a line under way that no newline lies between its start and
`pos` (`OneLine`), if the text read so far has none in a string and none before
a number. Three parts make that inductive. `PlanOK`: a number is read, over
newlines, only after a comma or a directive that announces one, and the character
before `pos` is that one. `Begun`: what precedes a line is a newline, or
blanks behind one. `CountOK`: the counter is right, except in the middle of a line
of blanks, where it has run ahead; there the text is soon one `LineReported` does not
speak of, but not yet, and no error can be reported at that place.

* `LinesStand`, `ReadsAlwaysInside`, `LinesAlwaysReported`: `ParserInv`,
  `ReadsStayInside` and `LineReported`, for every set of texts
  (`InputsAssumption`: no two words touch, none is empty), names and numbers
  (`WordsAssumption`: no punctuation character is a word).
  `MaxLineAssumption` makes the bound on the counter one that no text reaches.
* `TextsAlwaysUnderstood`: `Understood`, for every such set of texts: a text without
  strings, of any length, is accepted if and only if a reading exists that defines no label
  twice, and then every reading means the events.

`UnderstoodInv` compares a run that is under way with readings of the whole text.
*No reading is lost*: at the start of a line every reading has covered the text in front
of it (`Covered`), has no line end in what was read of the line (`Apart`), and
means, up to the line, what was asked for (`AllAgree`). *One can be built*: the lines in
front are cut into sentences (`SomeAgrees`). Inside a line (`MidLine`), what lies behind the
keyword is what `IsOperands` accepts so far (`Follow`), and `plan`, `args` and the bytes already
asked for are determined by how many operands these are (`Left`, `Said`); behind its
last operand the line is a sentence that no comma prolongs (`WholeLine`).

The hard part is that `parse_line` decides at once and a reading can be cut
anywhere: a newline may end the line or lie in front of a number, and a zero byte may end
a line too. `OperandRead` shows that no reading can end the line before an operand
that is due, or go on if the next character does not fit it, `EndRead` that
every reading ends the line where `parse_line` does, and `BlankRead` that a newline with
nothing in front of it ends a line in every reading. So each error of
`parse_line` refutes all readings. `SentenceIs` ties the sentence a reading has at a place
to what was read, `SaysNext` its meaning. A label that is defined again refutes all readings too,
which all mean the events up to its line (`RedefinedLine`); that what was said so far is
lawful is a part of the invariant (`EventsLawful`).

### Registers (`RegisterProofs`)

* `RegisterFits`: for every text, what `parse_reg` reads is a number
  from 0 to 31, and it never reads past the newline behind the text.
  Each name ends in a character that is not the newline, so the place behind
  it is at most the newline's; that the white space in front ends by then is the
  least-number principle (`SkipStops`).
* `RegistersAlwaysRead`: `RegistersRead`, the number is the right one. One direction
  takes each spelling through the nested switch (`SpelledIsRead`), the other finds
  for each branch that reads the spelling it has read (`ReadIsSpelled`); a text's
  first word is one (`WholeWord`), so the two meet.

### Instructions (`InstructionProofs`)

* `BtypeKeepsOthers`, `JtypeKeepsOthers`, `BtypeDisplacement`,
  `JtypeDisplacement`: for any word and any 32-bit distance, completing an
  instruction changes only the bits of the displacement, and a processor reads
  back the distance modulo 2^13 or 2^21. This is more than the run `instruction`
  can enumerate.
* `InstructionTypes`, `OperationAlwaysRecovered`, `RegistersAlwaysRecovered`,
  `ImmediateAlwaysRecovered`, `DisplacementAlwaysRecovered`: the five invariants of
  `Instruction`, for all registers (`RegsAssumption`), every integer as an immediate and
  every distance. The invariant is `IInv`: `TypeOK` and `Built`, which says which
  word the line has at each status; in particular a word completed late equals
  the one completed at once. Each entry of `ops.c`'s tables is the manual's for its
  operation, and each field is decoded from bits no other field has.

### Trie (`TrieProofs`)

* `RankCountsKeysBefore`, `PlacesInOrder`: for every pair of 64-bit key sets and
  every character but those that would shift by 64, the shift and the population
  counts of `trie_next_` number the keys of a node without collisions, inside
  the node's slots.
  The proof maps the shifted set one to one onto the keys below the character.
* `TrieInvariant`: `TrieInv` is an invariant, and from it `TrieLookupRight`
  (`LookupRight`) and `TrieLayoutFits` (`LayoutFits`), for every list of words,
  without a bound on their number or length, and every text asked for.

`TrieInv` joins three parts. *Builder* (`BuildInv`): the paths are exactly the beginnings of
the words inserted (`TreeOK`, `WordsOK`), and a word that is not an end is hidden by an
earlier one. *Layout* (`FillInv`): `LayoutFits` speaks only of the end, and
while `gbuf_fill` is under way the arrays have holes. `SlotsOK` says that the slots
*given out* are as many as `apos` and none is given twice; `WrittenOK` that
those *written* are the ones whose entry the loop of their node has passed;
`CallsOK` that every loop off the path to `current` is finished and that a node has
been called for exactly if its parent's loop is past it. At the end every loop is
finished, so by the least path not called for there is none (`AllCalled`), and what is
given out is what `gbuf_size` counted (`LayoutIs`). *Walk* (`WalkInv`): `node` is the node of the
path the text has spelled so far, its top bits ignored.

The new slots of a call lie behind the old ones (`CallSlots`), and
`KeyedRank` carries the rank theorems to the keys of a node. That the first loop of
`gbuf_fill` sets the bits of a set of keys (`KeySetIs`) is shown along the keys with
`StepByStep`, described below.
The assumptions are those the run evaluates: words are not empty and made of the
characters that the shift can handle (`KeyAssumption`, `ListAssumption`), a line has
a first character (`QueryAssumption`).

### Vector and string (`ContainerProofs`)

`VecInv` says that the memory has `cap` cells, of which `size` are items. Two
things are not obvious. `cc_vec_insert_n` doubles the capacity in a loop:
`DoublingEnds` shows that the loop ends for every size, and `DoublingGrows` that it
ends with room enough, both with the least-number principle. And insertion and
erasure move cells that overlap: `InsertedIs` and `ErasedIs` say where each cell ends up,
`PiecesAre` and the lemmas around it that this is the sequence with a piece put in or taken out.

`StrInv` says of a string that its memory has `cap + 1` cells: `size` characters, the
terminator, and cells nobody reads. That no character is the terminator
(`StrAssumption`) makes the text that a C function reads exactly the first `size`
cells (`CStringIs`). The placeholder, which has one cell and no memory of its own,
is the case in which growing writes the terminator and moving does not.

A formatted insertion is two passes over the arguments. `TotalIs` says what the first
measures, `ExpectedIs` what text the arguments stand for, and `PrintedIs` that the
second, argument by argument, has filled the room up to the measured sum with that
text and touched nothing else, although a number's own terminator is written over
the next cell and taken back. These three follow recursions along the list of
arguments. The prover cannot use an induction theorem, but a set of the indexes at which a
fact holds that has the first and, with each, the next has them all
(`StepByStep`): otherwise there were a least index outside.

* `MemoryStands`, `StrMemoryStands`: `VecInv` and `StrInv` are invariants.
* `VectorImplementsItems`, `StringImplementsItems`: `VecIsItems` and `StringIsItems`,
  the refinements of `Items`, for all elements, runs, texts, argument lists and
  capacities (`VecAssumption`, `StrAssumption`): every call shows its caller what a call on
  a sequence shows, and an allocation that fails changes nothing. That every list of
  arguments prints something is `FormatsPrint`; without it the code is undefined (see
  the findings).
* `TerminatorStands`: `SizeIsLength`.
* `FormatsAlwaysMeasured`: `FormatsAsMeasured`.

### Only model-checked

* `KeywordsKnown`: by `LookupRight` it says of `main`'s 47 words that none begins
  an earlier one. TLC evaluates that for the list itself; comparing the pairs
  takes the provers longer than the case analysis is worth.
* Everything about `HashMap` and `Tree`: the map's chains and the tree's
  balance are recursive over the data, and induction over data is out of the
  prover's reach; the modules declare RECURSIVE operators. `Chain` would also have to
  be told apart from buckets that are on no chain, from which it need not end.
* `List` against `Lists` and `WalksAgree`: a list is what a walk along its links meets.
  That a walk from the sentinel visits each node once, and where it ends, is not
  told by its length.
* `Terminates`, which is liveness, and whatever needs `ENABLED`.

## Not modelled

* A base address below zero (`--text-vaddr=-1`): every label would look
  unassigned. `VaddrAssumption` excludes it. Addresses and positions do not wrap,
  and a section of 2 GiB, whose length does not fit into `emit_section`'s `int`, does
  not occur. Bases that are not page aligned are allowed by the constants, and excluded from what
  `ZeroMeansLoaded` claims.
* Data of one call larger than the buffer: no caller has any.
* The contents of files and mappings after an exit, except that nothing changes;
  the unchecked `close` calls after the output; an input and an output that are
  one file under two names, which `main`'s comparison of the names does not see.
* The constant fields of the headers; whether the page behind the mapping exists.
* The range of a displacement is not checked by the code (a TODO);
  `DisplacementRecovered` is about those that fit.
* The digits of numbers, which `strtoll` reads, with its limits and `errno`, and the
  names of types in messages.
* Of `cc.h`: sets and ordered sets, which call the maps with elements of size
  zero; the macros, hash, comparison and destructor functions; conversions of C
  strings; the deprecated backward iteration of the map; what depends on the
  size of characters. The stale bytes of a vacated bucket are not kept. `argparse` is
  not in the repository.
* The parser and the emitter are composed through the kinds of line of `Assembler`
  rather than through texts: `Parser`'s events are the calls that `Assembler` makes.
  The label map in `Emitter` is a set and two functions, which is what
  `Dictionary` promises of `HashMap`.

## Plan

1. (done) `Emitter`, `Assembler`, `Listing`, `Encoding`, `Instruction` and their
   first theorems.
2. (done) `Output`, `Trie`, `Parser`, the containers, and the rank theorems.
3. (done) Proofs: references and the refinement of `Listing`, the output for any page
   size, instructions, registers, the lines, reads and language of the parser, the
   refinement of `Items` by `Vector` and `Str`, the trie from its builder to the walk.
4. Proofs: the links of `List`, step by step along the walk as `ContainerProofs` does
   along the arguments; `HashMap` and `Tree` once their recursive operators are
   recursive functions.
