# Minarrow: a verification project

Minarrow is a Rust columnar-data library (`src/src`): typed arrays over
64-byte-aligned buffers, null masks, dictionary-encoded strings, tables, chunked
collections, views and kernels, and zero-copy exchange with other runtimes
through the Arrow C data interface, DLPack and Python bindings. This directory
holds TLA+ modules that model its state and its operations, TLC configurations
that check them on small instances, and theorems that TLAPS proves for every
instance.

What the library stakes most on is that memory is shared without copying: one
allocation is read by several values, threads and foreign runtimes at once,
through raw pointers and unchecked lengths. Those layers, from the allocation
upwards to the exchange with foreign runtimes, are modelled step by step and
proved about. The layers above keep no threads; what is hard there is that data,
offsets, masks, dictionaries, windows, counts and schemas stay in step through any
sequence of calls, and those are checked against what the caller was promised.

## 1. Inventory

Each row: the state the part keeps, its operations, how it meets other parts,
and what makes it correct. `PROJECT.json` lists the same parts with their files
and what is modelled of each.

| Part | State | Operations and neighbours | Correct when |
|---|---|---|---|
| SharedBuffer (`structs/shared_buffer`) | a heap header with an atomic count per allocation; per value a pointer, a length and a vtable | wrap a vector, a `Vec64`, a foreign owner or a memfd region; clone, slice, drop, `into_vec`; used by Buffer, Arena, every importer | no value outlives its bytes, the count is exact, uniqueness is real when acted upon |
| LBuffer (`structs/lbuffer.rs`) | a value cell (slots, published length, sealed flag) and a mask cell (bytes, packed cursor, sealed flag), each behind an `Arc` | one writer pushes, seals, freezes, drops; any number of readers load lengths and cursors, clone views, take windows; used by Buffer, Bitmask and the array types while data streams in | readers see only finished rows with their validity; what they saw never changes |
| Dictionary (`structs/dictionary.rs`) | an append-only array of strings and a reverse index in locked shards, behind an `Arc` | `lookup`, `add_cat`, `add_remap_cat` from many threads; used by CategoricalArray | one code per string for ever; every code handed out decodes; absorbed rows keep their strings |
| Buffer (`structs/buffer.rs`) | an owned vector, a window over a SharedBuffer, a view of an LBuffer, or a borrowed mutable window | construct, slice, join, narrow, clone, freeze; every write first makes the buffer owned | windows stay inside their owner; a write is seen by one buffer only |
| Bitmask (`structs/bitmask.rs`) | a byte buffer and a bit count, or a view of a mask cell | set, resize, delete, extend, split, slice, combine, at any bit alignment; the validity of every array and the values of boolean arrays | each operation does what it means on the bits; padding stays clear |
| Bitmask kernels (`kernels/bitmask`) | none | word-level and SIMD logic over windows of masks at unaligned offsets, writing into windows of a shared output | bit by bit the same answer; no bit outside the window read or written |
| Typed arrays (`structs/variants/*`) | a data buffer, for text also offsets, for categoricals a Dictionary, and an optional mask | push, set, resize, insert and delete rows, concat, split; owned and LBuffer-backed | data, offsets and mask stay in step; a null's payload is never looked at |
| CategoricalArray (`structs/variants/categorical.rs`) | codes, mask, Dictionary handle | concat and insert between arrays whose dictionaries share or diverge, remapping codes | rows keep their strings; no code is decoded against the wrong dictionary |
| Array enumerations, scalars, values (`enums/*`) | tagged unions | dispatch, casts, conversions | a cast keeps the value or reports the loss |
| Field, FieldArray, Table (`structs/field*.rs`, `table.rs`) | columns with fields, a row count, cached null counts | add, remove, rename columns; insert, delete, append rows column by column | columns have equal length also after a failure in the middle; caches are true |
| Views (`structs/views/*`) | an array or table, an offset and a length, a null count computed once | windows of windows, selection, materialisation | a view is inside what it views; the cached count is that of the window |
| Chunked collections (`structs/chunked/*`, `traits/consolidate.rs`) | lists of chunks with one schema | push, rechunk, slice across chunks, insert, consolidate through the arena | the chunks concatenate to the same rows whatever the chunking |
| Arena (`structs/arena.rs`) | one growing byte region and its sub-regions | push typed columns at 64-byte offsets, then freeze into windows of one SharedBuffer | regions are disjoint, aligned and read back as written |
| Matrix, Cube, NdArray, XArray | a buffer, shape, strides, labels | index, slice, reshape, broadcast | index arithmetic stays inside the buffer and is injective |
| Arithmetic, string, datetime kernels, routing, broadcasting (`kernels/*`) | none | lane-wise operations over optional values, dispatch on shapes and types | same as the scalar operation on every valid lane; nulls propagate |
| Arrow C data interface and streams (`ffi/arrow_c_ffi.rs`) | exported structures with a private holder; imported structures wrapped as foreign owners; streams of batches | export, import, release, `get_next`, `get_last_error`; steps alternate with a foreign consumer's | every structure is released exactly once, after its last reader |
| DLPack (`ffi/dlpack.rs`) | a managed tensor with a deleter | export, import, drop | the deleter runs once, after the last reader |
| arrow-rs and Polars adapters, PyO3 bridge, `minarrow-py` | none of their own | conversions over the two previous rows | as those |

How they interact. A typed array is a `Buffer` of data and perhaps a `Bitmask`,
which is itself a `Buffer<u8>`. A `Buffer` holds its memory through a
`SharedBuffer` (calls and atomic counts) or through a view of an `LBuffer`
(shared memory, with a writer still at work). Readers of LBuffers and users of
a Dictionary run in other threads and synchronise by atomics and shard mutexes
alone. Foreign runtimes meet the library through function pointers stored in
structures they own (`release`, `get_next`, deleters), called in any order they
like.

Which behaviours are hard. Threads between two atomic steps of another
(SharedBuffer, LBuffer, Dictionary). Long sequences of legal calls that end in
a window, a mask or a dictionary nobody designed (Buffer, Bitmask, Categorical).
Bit and byte alignment (Bitmask and its kernels, Arena). Failure in the middle
of a multi-part change (Dictionary, Table, Categorical). The order of foreign
releases (Arrow C, DLPack). Cached values that are stale (null counts of
views and chunks, the reverse index after in-place mutation). There is no persistence and no network, so
there are no crashes to recover from and no messages to lose. The `hazards` of
`PROJECT.json` give each with its line.

## 2. The modules and how they compose

| Layer | Modules | Promise it is held to |
|---|---|---|
| allocation | `SharedBuffer` | invariants of counts and claims |
| streaming buffer | `LBuffer` | `AppendLog`, an append-only log of rows |
| interning | `Dictionary` | `InternTable`, one atomic table |
| buffer | `Buffer` | `BufferValues`, each buffer a sequence of its own |
| bits | `Bitmask`, `BitmaskKernels` | the meaning of each operation on the sequence of bits |
| typed arrays | `NullMasks`; `FixedArray`, `BooleanArray`, `StringArray`, `CategoricalArray`; `Arrays`; `Columns` | the rows the owner expects |
| collections | `Arena`, `Rechunk`, `Chunks`, `Tables`; `Frames` | the columns the owner expects |
| tensors | `TensorLayout`; `Tensors` | the function from indices to elements the owner expects |
| exchange | `ArrowExchange`; `ArrowFormat` for the schemas | each callback once; the rows described |
| calls without state | `Broadcast`, `ArithmeticKernels`, `Text`, `Dates`, `Scalars`, `ArrayCasts`, `Values`; `Compute` | the operation of each call on its operands |

A layer uses the promise of the one below, not its steps. `Buffer` takes from
`LBuffer` that a log only grows and from `SharedBuffer` that memory stays while a
window reaches it; `Bitmask` takes from `Buffer` that its bytes are a sequence of
its own; the typed arrays take sequences from `Buffer` and bit sequences from
`Bitmask`, and `Arrays` dispatches over the four of them. `Arena` and `Rechunk` cut
and join such arrays, `Chunks` and `Tables` hold them, and `Frames` is the machine
whose actions call all of these. `Tensors` is the machine over `TensorLayout`.
`Compute` instantiates the seven modules of calls that keep no state, and
`ArrowFormat`; its one variable is the call that was made, so that one run takes every
call with every input of its sets.

Six machines have a module of proofs each, and `Columns` has two: `ArrayProofs` for
the arrays, extended by `ColumnsProofs` for the machine (section 5). `MCDictionary`,
`MCColumns`, `MCFrames`, `MCExchange` and `MCCompute` give constants their values
where a configuration cannot; the others are run as they are. `SharedBuffer` and
`Buffer` define the symmetry sets of their own runs.

No module declares a RECURSIVE operator that a proof needs: what loops over bytes
in `Bitmask` is a recursive function of the number of steps.

## 3. The modules in detail

Constants that stand for a width in the code are parameters: `W` for the 8 bits
of a byte, `WordBytes` for the 8 bytes of a word, `VectorWords` for the words of a
vector, `Align` for 64 bytes (the 8 elements of a stride in the tensors).

### SharedBuffer (`structs/shared_buffer/{mod,internal/owned,internal/pvec,internal/vtable}.rs`)

`header` is the heap header behind a value's `data` pointer, `handle` the values
that exist, with what their owning thread is in the middle of. `FromVec`,
`FromVec64`, `FromOwner`, `FromMemfdOwner` and `FromStatic` choose the vtable
family. `Clone` and `Slice` are one `fetch_add`; an empty slice is the static
buffer. A drop is `DropDecrement` and `DropFree`; an extraction is `IntoStart`,
which tests uniqueness or copies, and `IntoTake`, which swaps the header out.
Other threads' steps fall between. `forgotten` and `extracted` are history
variables: references that copying extractions leave in the count, and what the
latest extraction was asked for and gave. The even and odd vtables of a family
have the same entries and are one kind here. Memory-mapping is not modelled; a
memfd region is a foreign owner.

### LBuffer and AppendLog (`structs/lbuffer.rs`)

`LBuffer` has the two cells of a masked buffer, the writer and the readers. A
push is a slot write, then per row a fresh byte (`StoreByte`), a cleared bit
(`ClearBit`) and a cursor (`PublishTail`), then `PublishLen`: one action per
store a reader can observe, in the order of `push`, `push_null`, `push_nulls`
and `push_slice`. `BeginSeal`, `FinaliseMaskByte` and `SealMask` are `seal`;
`DropMaskArc`, `Unwrap` and `CopyOut` are the rest of `freeze`; `ReleaseCells`
is the writer's drop. A reader takes a view, loads `sealed`, `len`, the mask
cursor and the mask's flag in the order an array does, takes windows of values
and of mask bits, clones and releases.

`AppendLog` is what this amounts to: rows of value and validity that grow at
the end, by whole batches, until closed. `ImplementsLog` maps `Rows` (values
below the published length with their bits) and `sealed` to it.

Interleaving the steps loses nothing. Every cross-thread store is a Release
after the writes it publishes, every load that guards them an Acquire, there is
one writer, and no reader writes: an execution is one where each reader reads
from some earlier prefix of the writer's stores, and a reader that lags behind
is a reader scheduled earlier. `mask_state` loads the cursor and then the flag
(838-840), separately; the model does the same, so the snapshot its comment
calls consistent can be a sealed flag with a cursor from before the last push.
Nothing unwritten becomes visible by it, the reader's length is short.

### Dictionary and InternTable (`structs/dictionary.rs`)

`values`, `reserved` and `published` are the `AppendOnlyVec`, `index` the union
of the shards' maps, `lock` their mutexes. `add_cat` is `AddCat`, `Enter` (lock
and probe), `Reserve` or `Reject`, `Write`, `Publish` in turn, `Insert` (which
unlocks). `lookup` ends in `Found` or `NotFound`. `add_remap_cat` is
`AddRemapCat`, then per distinct live code `Intern` and an add, then `Rebind`,
which remaps and rebinds the chunk in the thread's hands; an overflow leaves the
chunk as it was. `Reserve`, `Write` and `Publish` belong to an external crate and
are modelled from how `add_cat` relies on them: a bounded reservation, a write,
and a publication in the order of the slots, for which a writer waits. Both
builds of `add_cat` (`fast_dict` or not) have these steps. A poisoned mutex is
cleared by the code and has no effect on the state.

`InternTable` has the table, the prefix readers can see, and atomic assignment;
`ImplementsTable` maps reserved slots to what their writer is about to write.

### Buffer and BufferValues (`structs/buffer.rs`)

A buffer is absent, owned, a window (`owner`, `off`, `len`) of a slice of an
allocation, or a live view of the log. Elements stand for bytes and for values
alike. Construction from shared memory copies when the slice does not start on a
64-byte boundary; `FromSharedColumn` may give a window wider than the column's own.
`AdjacentWindow` joins consecutive windows and keeps the longer of the two owners.
The mutators share `Rewrite`: `make_owned_mut` followed by a write of the copy.
`SplitOff` has the guard of the code, which panics unless the buffer is owned.
`BufferValues` says what `buffer.rs:112-116` promises: each buffer is a sequence of
its own. When an allocation is released is `SharedBuffer`'s subject; here an
allocation may be reused once no window reaches it. That the log only grows is
`LBuffer`'s theorem and this module's `Publish`.

### Bitmask and BitmaskKernels (`structs/bitmask.rs`, `kernels/bitmask/*`)

A byte is the set of positions of its set bits, a word the same over
`WordBytes * W` positions, so shifts and masks are set operations. The operators
follow the code byte by byte and word by word: the spill of `extend_from_slice`,
the straddling bytes of `extend_from_bitmask_range`, the joined words and ninth
byte of `slice_clone`, the shifts down and up of `split_off` and `set_bits_chunk`,
the aligned and unaligned paths of `delete_range`. In the kernels these are the
joined words of `bitmask_binop_std_into`, its bit-by-bit rest, the cut last word of
`popcount_mask`, the vectors of the SIMD forms and the word-wise comparison of
`all_eq_mask`. A logical operation is the set of bit pairs that give one. The
actions apply the operations to one mask with every argument the asserts allow; the
properties compare each operation with its meaning, at every state reached. `Start`
chooses a new mask, one taken over from foreign bytes, or one over an LBuffer.

### Typed arrays: Columns (`structs/variants/*`, `enums/array.rs`)

An array is a record of its kind, its data (for text its offsets and bytes, for
categories its codes and dictionary), its mask and the reserve of `with_capacity`.
`NullMasks` has what the macros of `macros.rs` do to a mask; `FixedArray`,
`BooleanArray`, `StringArray` and `CategoricalArray` each edit their own buffers;
`Arrays` dispatches. `Columns` has one action per call of `Array`: push, set, null
forms of both, ranges, resize with the repair of the mask it leaves to its caller,
delete, append, append of a range, insert, concat, split, extend, fill, scatter,
bits, negation, and the three conversions between text and categories. Beside the
array `col` stands `want`, the rows its owner expects by the documentation of each
call: `<<>>` for a null, `<<value>>` for a value. `other` is the array to append,
insert or scatter; the owner may turn to another one at any time (`TakeOther`).

The types do not agree on what a masked array does with rows that have no mask. Strings,
booleans and `append_range` resize the mask to the rows (`Extended`); `append_array` of
a fixed-width array sets the new bits one by one (`macros.rs:347-351`,
`decimal.rs:447-451`), and a mask longer than the rows stays longer, so that the reserve
of `with_capacity` lasts until a masked append meets it (`append reserve`, section 8).
An array without a mask takes the other's only as far as its rows (`RowBits`), a string
array all of it. Every call returns early when there is nothing to append.

### Collections: Frames (`structs/chunked/*`, `structs/table.rs`, `structs/views/*`, `structs/arena.rs`, `traits/consolidate.rs`)

The owner's frame is a super array, a table or a super table; `want` is the columns
it expects. Rows are pushed, inserted, cut, rechunked, concatenated, consolidated
(through the arena or chunk by chunk, as the build says), windowed, gathered,
selected and split. Dictionaries are shared between chunks or not, with the feature
`shared_dict`. An edit of a table changes column after column, and an error at a
later one stops it there, as in the code. `SummariesAreTrue` is about what is cached:
null counts of chunks, windows and columns, row counts, fields, and managers of
shared dictionaries.

### Tensors (`structs/ndarray.rs`, `structs/matrix.rs`, `structs/xarray.rs`, `structs/chunked/super_ndarray.rs`, `structs/views/*`)

A tensor is a buffer, a shape and strides, with the padding of matrix columns to the
alignment, and for labelled arrays names and labels of axes. `TensorLayout` has
offsets, slices, transposes, selections, reductions and the ways between arrays,
matrices and tables, and batches and labels on top of them. `want` is the shape and elements,
with labels, that the owner expects, in column-major order and without strides.

### Exchange: ArrowExchange and ArrowFormat (`ffi/arrow_c_ffi.rs`)

A node `<<b, c>>` is one `ArrowArray`: the struct array of batch `b`, or a column of
it. `array` says for each whether its callback is in the exported slot, in the
importer's box, dropped uncalled or was called, and how often its memory and its
dictionary child were freed; `schema` and `stream` do so for the other two
structures; `importer` is where the importing loop is, and `column` the imported
arrays with their clones. The exporter is this library (arrays, structs, streams of
batches, of chunks, of views, of a producer) or another program; the consumer is
this library's importer or another program, which releases what it holds in any
order. An importer's panic and a stream's error leave the loop in the middle.
`ImportFixed`, `ImportBoolean`, `ImportUtf8` and the rest say which rows each
importer reads from offsets, masks and windows, and whether it keeps or copies the
memory. `ArrowFormat` is the field a schema becomes and is read back as.

### Calls without state: Compute (`kernels/*`, `enums/*`, `structs/cube.rs`)

- `Broadcast` (`kernels/broadcast/*`, `kernels/routing/broadcast.rs`): which rows and
  columns of any two containers meet, on which side of the operator. A cell is named
  by side, table, column and row, so a swapped or shifted operand shows.
- `ArithmeticKernels` (`kernels/arithmetic/*`, `kernels/routing/arithmetic.rs`):
  integers at a small width with vectors of two lanes, floats as terms, decimals with
  their scales, datetimes, the dispatch between types, scalars.
- `Text` (`kernels/string.rs`, `kernels/arithmetic/string.rs`): predicates,
  transformations, joins, text arithmetic and cross tabulation over windows of strings
  and of categories.
- `Dates` (`kernels/datetime.rs`, `structs/variants/datetime/*`): calendar parts,
  truncation, months, durations, comparisons, casts and parsing, over the calendar.
- `Scalars` and `ArrayCasts` (`enums/scalar.rs`, `conversions.rs`, `enums/array.rs`,
  `structs/views/array_view.rs`): every conversion between element types.
- `Values` (`enums/value/*`, `structs/cube.rs`): every conversion between the variants
  of `Value`, slices, concatenation, and the tables of a cube with their resolver.

## 4. Runs

| Run | Instance | States | What it shows |
|---|---|---|---|
| `shared_safety` | 3 values, 2 allocations of 2 bytes, at most 2 forgotten references | 122,918 | nothing dangles, counts exact, an extraction or a free is alone, storage goes with its last value |
| `lbuffer_masked` | 5 rows over 3-bit bytes, 2 values, 1 reader | 566,069 | mask covers values, admitted rows are written, a sealed length and what readers may use is final, padding clear, the log refinement |
| `lbuffer_sharing` | 2 rows, 2-bit bytes, 2 readers | 94,616 | cells are live while shared and returned after; a seal reaches the mask (liveness) |
| `dictionary_safety` | 3 strings in 2 shards, room for 2, 3 codes, 2 threads, chunks of 2 rows | 356,797 | one code per string, in-order publication, rows keep their strings, the table refinement; no shard stays locked (liveness) |
| `buffer_safety` | 3 buffers, 1 allocation and the log, 2 elements, alignment 2, length 2 | 57,227 | windows inside owners, shared memory constant, the sequence refinement |
| `bitmask_safety` | up to 9 bits in 3-bit bytes, 2-byte words, vectors of 2 words | 1,023 | padding clear, every byte-level operation and every kernel means what it should, and kernels keep to their window |
| `columns` | every kind of array, up to 3 rows, with and without a mask and a reserve of 2, and what is appended to it | 135,802 | every sequence of calls leaves the rows documented; data, offsets, masks and dictionaries stay in step |
| `frames` | 3 rows in up to 3 pieces, alignment 4, 2-bit bytes, `shared_dict` and `arena` on and off | 36,292 | collections hold their rows through edits, rechunking, views and consolidation; what they cache is true |
| `tensors` | up to 9 elements and 3 axes, alignment 2, 3 calls | 73,660 | indices, strides, padding and labels follow every call |
| `exchange` | 2 batches of 2 columns, 2 clones, 14 shapes of column | 268,152 | callbacks once, borrowed memory in place, no unnamed leak, rows as described |
| `compute` | the sets of calls in `MCCompute` | 334,784 | operands keep their places, fields survive, kernels and conversions are exact |
| `columns_split` | as `columns`, and text arrays are split | - | **violation**: the first half of a split text array has lost its last row |

`columns_split` ends in a counterexample and is the one finding of `PROJECT.json`:
`StringArray::split` keeps one offset too few (`string.rs:1109`), against the doc of
`MaskedArray::split` (`masked_array.rs:372`).

Why the bounds are enough. In `shared_safety` three values are what one drop
racing one extraction and one clone need, two allocations are one already gone
beside one still live, and two bytes make a proper slice; handles and allocations are
interchangeable, hence the symmetry. The constraint on `forgotten` only stops a
behaviour from losing references without end, the proof has no such bound. In
`lbuffer_masked` five rows over three-bit bytes fill one byte, cross into the
next and leave it partial, and a batch of two or three can straddle; two readers
in `lbuffer_sharing` are the clone and the release that race a freeze. In
`dictionary_safety` two strings share a shard and one has its own, so both kinds
of race exist, and the array fills up with a string left over; one chunk swaps
its codes depending on who is first, the other has a null whose code is outside
the dictionary. Nine bits give three bytes, a word and a partial byte, and every
pair of bit offsets; for the vector kernels the bits of the state are repeated to 44,
lanes are of two and four, and a word past the bytes of the buffer reads as zeros. In
`buffer_safety` three buffers are the two windows and the joined one; alignment 2
makes offset 1 misaligned. In `columns` three rows are a row before, inside and after
any range; what is appended has nulls, no mask, a mask longer than its rows, no rows,
another unit and another dictionary, one after the other to the same column. In
`frames` three rows in three pieces are every chunking with an empty one; the Count,
Auto and Memory strategies are any size of at least one. In `tensors` three calls are
a layout, a change of it and a use. In `exchange` two batches let a stream fail
between them, two columns let a panic fall between them, and two clones are a last
and an earlier drop. The shapes have every kind, with and without nulls, offsets,
rows and alignment.

In `compute` widths are small and kept in order: integers of 3 bits in the kernels and
of 2 to 9 in the conversions, ten is two in the scales of scalars, floats are quarters
of mantissas of 3 and 5 bits, powers have exponents of at most 3. Texts have up to
three characters with a letter of two bytes, and a regular expression is a literal or
does not compile. The calendar is the real one; a second has 10^3 "nanoseconds" where
the code has 1,000^3, 32-bit storage ends at 32,000,000 and the parser's 64-bit limit
at 2^31 of the scaled nanoseconds, about 24 days, so that each border is met. A value
of every variant is taken, boxed too, with lists of up to three, tuples of two to six
and sequences of two operations on a cube.

Deadlock is not checked where the program may stop: when all threads are done and
every value is gone (`SharedBuffer`, `LBuffer`), when every structure was released
(`ArrowExchange`), after the one call of `Compute`, and where the bound on rows,
pieces or calls is reached (`Columns`, `Frames`, `Tensors`). It is checked elsewhere.

Fairness. `LBuffer!FairSpec` is weak fairness of the writer's call in progress:
no step of a call waits for anybody, so a scheduled thread finishes it.
`Dictionary!FairSpec` is weak fairness of each thread inside a call: it may wait
for a mutex or for earlier slots, and that it gets on is what the property shows
rather than assumes. Nothing is assumed about calls being made.

## 5. Proofs

The theorems hold for every value of the constants that satisfies the named
assumptions in the modules. In each module of proofs the invariant of the run is
strengthened until every action preserves it; a lemma per action does that, and the
theorems follow from the strengthened one.

**SharedBufferProofs** (any finite set of values, any allocations and size):
`TypeCorrect`, `HandlesNeverDangle`, `CountIsExact`, `ClaimsAreExclusive`,
`DropsNeverLeak`. None of the properties is inductive alone: a drop may free because
the count says it is the last, the count says so because it is exact, and it stays
exact because no value dangles. `Inv` is their conjunction with two small facts (only
heap values are in the middle of a drop; unused headers have no history); each action
preserves it through lemmas on cardinalities of the set of holders.

**LBufferProofs** (any capacity, mask width of at least two, readers, with or without
a mask): `TypeCorrect`, `MaskAlwaysCovers`, `AdmittedWasWritten`, `SealedLengthFinal`,
`SealedPaddingClear`, `SharedCellsKept`, `SharedBytesFinal`, `Refinement`. `Inv` adds
where a batch stands (`BatchOK`: slots written one by one, inside the capacity, never
after the seal), how far the cursor is ahead of the length (`MaskOK`), what a seal
implies (`SealOK`), and what each reader's loads still say of the present
(`ReaderOK`). `TypeCorrect` adds to the types that the byte the cursor points at lies in
the mask's allocation whenever it is partly filled or a push is about to write it
(`CursorInMask`), which the SAFETY comments of the two unchecked writes claim
(`lbuffer.rs:430-434`, 604-606). A second invariant, `SharingInv`, stands on the first: the mask is
sealed after the buffer and its padding cleared before the flag (`SealedMaskOK`); a
loaded cursor is never ahead of the published one, and a window on the bits of an open
mask ends before the byte being filled (`SharesOK`); a cell is live exactly while the
writer or a reader holds it (`CellsOK`). That no byte a reader may use is written is
then an action property, one case for each store: the store goes to a row at or past
the cursor, or to a bit past the last row.

**DictionaryProofs** (any strings, shards, threads, chunks and capacity within the
codes): `TypeCorrect`, `TableConsistent`, `BoundRowsAreDecodable`, `RowsKept`,
`Refinement`. `Inv` says that an appending thread holds its shard and its string has
no code (`LockOK`), where its slot is between the two counters (`SlotOK`), that slots
have one writer (`SlotsDiffer`), that each reserved slot is being written, about to be
indexed, or indexed (`SlotsAccounted`), and what partial remappings mean (`RemapOK`,
`CatOK`). Uniqueness of codes follows from the index being a partial inverse.

**BufferProofs** (any buffers, allocations, elements and alignment; `MaxLen` plays no
part): `WindowsStayInside`, `SharedMemoryIsConstant`, `Refinement`. `Inv` is a type
invariant without length bounds and `WindowsInsideOwner`; the lemma `OneBuffer`
reduces every action to one storage that is inside its owner and to memory that
reachable allocations do not lose. For the refinement each call maps to one step of
`BufferValues` or to a stutter, a lemma per call: no step changes what another buffer
means, because memory a window reaches is constant and the log only grows at its end.
`AbstractAssumption` says only that the two marks of the abstract module, an absent
buffer and a live one, are not sequences of elements.

**BitmaskProofs** (any width of a byte of at least two bits, any word):
`NewMasksStayClear`, `PaddingStaysClear`. The invariant is `Row`: the bytes are those
of the length, and no bit is set past it. It is preserved by every call; the theorem is
stated for masks that start new, or imported with clear padding. Foreign bytes with
padding set and masks over an LBuffer are excluded by that hypothesis, since there the
code does not keep it (section 8).

The same module proves `EditsExact` and `CopiesExact`: `set`, `set_range`,
`set_bits_chunk`, `resize` and `delete_range`, and the extensions, `slice_clone`,
`split_off`, counts and tests, do to the bits what they say, for any lengths and
alignments. The loops of the code are recursive functions of the number of steps, and
each is shown equal to a closed form: `ShiftedDownIs`, `ShiftedUpIs`, `JoinedByte`,
`OnesInIs`. The induction that needs is on a set of step numbers, by the lemma
`Induction`, proved from the library's facts on finite sets (a number outside the set
would map a finite set one-to-one into a proper part of itself); `LoopRuns` turns it
into a rule for loops.

`KernelsWriteExactly` is about the kernels over windows of a mask, one by words and one
by vectors of words. `LoadWordHas`, `JoinedShows` and `BufferWordHas` say which bits of
the mask a word shows, wherever it is cut and whatever lies past the end of the buffer;
`StoredAt` says what a byte of the output holds after the words are stored;
`WindowIsWritten` joins the two: a kernel that makes the right words and the right bits
after them writes its window and keeps every other bit. The vector kernels come to the
same words (`JoinedWordsJoin`), since they leave a vector unread after the last they
join (`VectorsLeaveOne`). For integers under a mask, `VectorMaskedRowsAt` follows the
lanes. The theorem assumes `WordBits >= 4`: the property takes vectors of two and of
four lanes, and in the code a mask word of 64 bits holds the lanes of a vector.

**ArrayProofs** and **ColumnsProofs** (any values and any arrays of each kind, any
reserve, and any bound on rows): `RowsStayExact`, `ColumnsStayWellFormed`,
`ColumnsStayTyped`. `ColumnsAssumption` gives values and arrays the types of their kind
and asks of the arrays what the column itself promises. The hypothesis `Followed = {}`
says that the owner makes none of the calls of section 8, as in the run `columns`:
`columns_split` shows what one of them does. Masks that `resize` leaves too short or too
long are part of the theorem.

`RowsAreExact` is not inductive. While a mask is too short it says nothing, and the rows
must be right when the mask is repaired; it does not say how offsets and bytes hang
together, which a later edit shifts, nor that a dictionary has no category twice, on
which the code of the next push depends, nor what is under a null. `Held` says that the
column has the fields of its kind and `KeptAs(col, want)`: the mask marks exactly the
null rows as far as it reaches, and the data hold the other rows as their kind does, an
item for each (`Kept`, with a relation `Is` or `Coded` between item and row), strings
laid out end to end in the bytes (`Laid`), codes into a dictionary without doubles.

The proof has three layers. What each operator on sequences makes is stated once, item
by item (`FitIs`, `SplicedIs`, `ScatterIs`), with the fact that a sequence of items and
the rows beside it go on corresponding (`PairsFit`, `PairsSpliced`). What a call does to
the mask does not depend on the data, so it is proved once for all kinds (`Turned`). The
lemmas of a call on a kind (`FixedPush`, `TextInsert`, `CatAppend`) put the two
together; those of text go through the loops that compute offsets (`EndsAre`,
`EndsChained`), those of categories through the one that interns (`InternedRowsAre`),
both by `Induction`. `ByKind` joins the four kinds, and there is a lemma per action
(`PushHeld` to `CompactDictHeld`). Columns, strings and dictionaries are of any length;
what one call takes is what the action gives it, at most two values, nulls or places at
a time where the code takes a list of them.

**ArrowExchangeProofs** (any positive numbers of batches, columns and clones, any
shapes): `CallbackInOnePlace`, `CallbacksRunOnce`, `BorrowersAreSafe`, `OnlyNamedLeaks`,
`RowsAsDescribed`. `IInv` says that each callback is in one place, which the slot, the
box and the counts agree on (`PlacesOK`), that a box is held exactly by the clones of a
borrowing column and that only this library drops one (`BoxesOK`; with `PlacesOK` this
is `CallbackInOnePlace`), that batches are
exported in order and a struct array with all its columns (`BornOK`), and that what the
importing loop takes next is still in its slot (`ImporterOK`). `ShapesAssumption` is
what the Arrow interface demands of a producer: offsets ascend within the bytes, codes
under valid rows name entries, windows lie within rows. `RowsAsDescribed` leaves text
view arrays with an offset out, which the importer reads wrongly (section 8).

## 6. Only model-checked

- Liveness under fairness: `SealReachesMask` and `ShardsAreUnlocked`. TLAPS has no
  rules for ENABLED, which weak fairness needs.
- `KernelsReadTheirWindow`: the kernels that count, search and compare.
- `FramesHoldTheirRows` and `SummariesAreTrue` of Frames, `TensorsAreExact`: their
  operators fold over chunks, columns and axes, and each fold would need an induction
  like those of `BitmaskProofs` and `ArrayProofs`. The lemmas of `ArrayProofs` say what
  the calls on one chunk do; that the chunks add up to the frame is what TLC checks.
- The four properties of `Compute`, which are statements about calls over sets of inputs
  of small widths: there is no state for an invariant to be inductive about, and
  `Values` and `Broadcast` recurse over nested values.
- That `BufferValues`, `AppendLog` and `InternTable` are the right promises is a
  reading of the documentation.

## 7. Not modelled

- LBuffer: `modify_at_unchecked`, by which bit-packed boolean rows update a published
  byte in place, under its caller's promise that nobody reads it.
- Dictionary: equality, `is_prefix_of`, construction from a list, and the two
  operations of a sole owner (`try_values_iter_mut`, which leaves the reverse index as
  it was, 580, and `detach_to_owned`, 540).
- Buffer: the `UnsafeMut` storage, whose exclusivity its unsafe constructor asks of the
  caller (155).
- Bitmask: text forms. Kernels: `in_mask` with a shorter right window (std.rs:412).
- Typed arrays: parallel iterators, unchecked variants, u32 overflow of offsets.
- Kernels: overflow panics of debug builds, FMA, the overflow of repetition counts and
  of length types; the data bytes `apply_str_float` leaves unused; i64 overflow and the
  wrap of 32-bit Julian days. `parse_datetime_str` is its number of milliseconds. The
  `time` crate is external.
- Values: rank-mixed `SuperNdArray`s, slices past the rows, slices of cubes and lists,
  a `SuperArray` of no rows with a field inside a list. Adjacent windows of one
  allocation are consolidated in `Values` only.
- Arrow: the encoding of metadata, which comes back or does not.
- memfd regions, time zones, DLPack, the arrow-rs and Polars adapters, the PyO3 bridge
  and `minarrow-py`, printing, sizes, tests and benchmarks (`PROJECT.json` says why of
  each).

## 8. Disagreements

Places where the code does something else than its documentation, a comment or the
same call in another form, met while modelling. One has a run of its own
(`columns_split`); of the others the modules follow the code, and a property excepts
them by a named condition, or the inputs leave them out. In `Columns` and `Frames`
a diverging call is guarded by `Diverges` with its name, and made only if the name is
in the constant `Followed`, so that a run can be asked to follow it. `ExtractsOwnBytes`
and `SoleOwnerIsUnique` (`SharedBuffer`), `AllEqComparesTheWindow` (`BitmaskKernels`) and
`ReleaseReachesProducer` (`ArrowExchange`) state four more and are run by no
configuration. Paths are below `src/src`.

**SharedBuffer.** A copying `into_vec` or `into_vec64` never gives its reference back
(`shared_buffer/mod.rs:270`), so the sole owner left is never unique and its storage
never released. `into_vec` of a unique slice returns the whole inner vector
(`vtable.rs:94`).

**LBuffer.** `seal` raises the value cell's flag before the mask is final, while the
comment on `as_bitmask` calls the mask final once sealed (`lbuffer.rs:582-587`,
700-701). The comment on `mask_state` calls two loads one consistent read (831-840). The
comment on `with_capacity_masked` says that every bit is initialised valid, while the
mask byte is written when its first row is pushed (281, 433-436).

**Bitmask.** `Bitmask::new` keeps foreign bits past the length, and `resize` brings them
up as new bits (`bitmask.rs:682`). `set` on a mask over an LBuffer loses all its other
bits (404). `all_eq_mask` compares bits past the window when its last partial byte
completes a word (`std.rs:509-510`, `simd.rs:854-887`; doc `std.rs:488-489`), and
`all_ne_mask` is then true (544-546).

**Typed arrays** (names in `Followed`). `split text`: above. `resize bits`: resizing a
boolean array changes its bits and not its length. `delete reserve`, `append reserve`:
a delete on a boolean array works on its reserved bits, and an append goes behind the
reserved bits of a boolean array, or of the mask of an array of any kind.
`append unit`: datetimes of another unit are appended by their raw numbers.
`append dictionary`: categoricals are appended by their codes whatever their dictionary.

**Collections** (names in `Followed`).
- `insert dictionary`: with `shared_dict`, inserted chunks are neither remapped nor get a
  manager (`super_array.rs:835-877`, `super_table.rs` likewise). `consolidate dictionary`:
  the arena takes the first chunk's dictionary with every chunk's codes (`arena.rs:1034`).
- `rechunk full dictionary`: an error drops the rows already drained (`super_array.rs:961`).
  `rechunk metadata`: `rechunk_to` panics after draining when batches differ in metadata
  (`super_table.rs:753`).
- `count part`: a count pushed with a chunk onto uncounted chunks gives a list of one
  (`super_array.rs:648-651`, 729-732; doc 134). A split table has null counts of zero
  (`table.rs:723`, 728).
- `views of equal length`: windows of different arrays of one length are taken for windows
  of one buffer (`super_array_view.rs:319-344`).
- `insert half`: an error at a later column leaves the earlier ones longer
  (`table.rs:643-688`).
- `gather nothing`: a gather of no rows has no columns (`table_view.rs:511-513`). `get
  selected`: `get` under a column selection gives another column (781-793). `views
  selected`: a schema made from views ignores their selection.

**Tensors.** Arrays made by `from_buffer` with a first stride other than one are
transposed, indexed and lent to LAPACK as if it were one (`ndarray.rs:570-574`). A gather
over an empty inner axis panics, a slice of a `(n, 0)` array likewise, and rechunking
`(n, 0)` batches panics with the array already emptied (`super_ndarray.rs:544-565`).
`to_matrix` of a buffer without the padding of its last column makes `columns_mut` panic
(`ndarray.rs:984`, `matrix.rs:339`). Iterating a matrix gives its padding. Concatenating
two empty matrices drops the columns, and always the name. Conversion from float arrays
ignores null masks. Index lists lose order and duplicates. A matrix made from a table
trusts the cached null count.

**Arrow interface.** Empty imports drop the box and never call the callback
(`arrow_c_ffi.rs:1207`; doc 895-896). Exports of single arrays set flag 1 for nullable
where imports read flag 2. Schemas of chunk streams omit metadata; those of streams give
categorical fields the type of their index. `import_utf8_view` ignores the offset
(1484-1486). The schema's strings live in the array's holder. `import_from_c_owned` drops
the schema without its release and reads it again for a categorical array (930). The
library's own categorical exports never release the dictionary child (250). A panic in a
stream import leaves schema, stream and parent unreleased. The last error of a producer's
stream is never cleared.

**Broadcasting.** Cube and cube are always added. A table view and an array swap sides.
An array and a table view, a table and an array view, a cube and an array view apply the
view's offset to the other operand, or panic. A one-row window stretches the first row of
its array. Rows and chunks beyond those of a super table view are dropped; fewer panic. A
table view and a longer array view keep the one-row window. Typed views ignore their
window against super tables, and accept fewer types of scalars. `FieldArray + FieldArray`
is always a TypeError through the operator traits (`types.rs:370-455`). Where a comment
says that no mask means the union of the operands' (`broadcast/mod.rs:284`), their nulls
are ignored. Decimals and texts ignore the windows of views; `apply_str_str` drops nulls.
Pairs with matrices and tensors are unimplemented.

**Arithmetic.** The lowest integer divided by -1 panics in scalar code and under a null in
masked vectors; the vector remainder of it is 0. Decimal floor division truncates and keeps
the fraction; `integer_to_decimal` ignores a negative scale, and a quotient of negative extra
scale is an error. Scalars of Float64 and decimal swap sides. `apply_datetime` merges masks
from bit 0 whatever the windows. Integer arrays divide to integers, integer scalars to Float64.

**Text.** `concat_dict_str` swaps its operands (`string.rs:346`; doc 325-328). Predicates over
a categorical or a regular expression refuse windows with nulls that end before their array.
`contains`, `starts_with` and `ends_with` on two strings give false where the other forms give
null. Arithmetic on categoricals merges masks from bit 0. `apply_dict_dict` and
`apply_dict32_str` push the code of a null past the rows they counted (doc 409-411); the result
of the latter depends on how many entries the dictionary has. `apply_str_dict32` splits by an
empty text into characters with empty ends. `repeat_dict` and `pad_dict` keep duplicate entries.
`cross_tabulate` loses later counts when a label is new in an earlier row (`string.rs:2324`; doc
2256-2263).

**Datetimes.** Instants before the epoch are rounded towards zero when cast to days
(`datetime_ops.rs:109`, 668) and when parsed as UTC (`parse.rs:175-184`). Months that end before
year zero give null, January excepted. Truncation below the second keeps days outside the
calendar, other periods make them null. Windows of different units are consolidated by raw
numbers (`mod.rs:583`). Durations are cut to the array's unit towards zero.

**Conversions.**
- Scalars: `u64()`, `dt32()` and `dt64()` wrap where `try_u64` and `try_dt32` give none;
  decimals become integers without their scale and floats with it. `String32` and a small
  integer are joined as text, `String64` and the same are parsed and added. Int8 and Int16 give
  Int8, or panic. Powers with a Boolean are computed in 32-bit integers. Comparison tells -0 from
  +0, equality does not.
- Arrays: `str()` of booleans and datetimes loses nulls; `bool()` of temporals gives validity;
  8- and 16-bit arrays and decimals give an empty boolean array or Null. Widening signed to
  unsigned wraps. Values under nulls can make a narrowing fail. A categorical conversion past the
  index range panics instead of returning Overflow. `null_array` of some dictionaries gives Null.
  `check_unify` gives the dtype of the width, not the one asked for. `from_scalars` makes zeros of
  what it cannot convert and takes decimals of other scales by their digits. Getters of views wrap
  and ignore scale.
- Values: `Matrix::try_from(&Table)` asks for nulls before the cast, so a text that is no number
  becomes 0.0. Consolidation of three scalars, matrix views or tensor views panics (doc
  `impls.rs:683-693`), and so do lists of differing fields on their way to a super array or super
  table. The fields of an empty super table view panic. Arrays with and without nulls join as an
  array and not as a table. Collections of no rows lose their columns or rank. `BitmaskV` loses
  null masks. The length of a list counts rows and its slice items. Boxing loses the field of a
  super array. Two null scalars concatenate to no rows. An empty super table accepts what an empty
  view refuses. Two super table views are never equal.
- Cube: `add_table` checks only that the columns exist, so selections by position give other
  columns (`cube.rs:238`, 755-804). Removing one of two tables of a name drops the name
  (317-331). A null and the text "Null" are one key. Grouping a table of one column loses its
  rows. Slices and renames leave the resolver behind.
