# A TLA+ model of basetenkenizer

basetenkenizer turns text into token ids: it splits text on added tokens,
normalizes it, splits it again with a regular expression, and merges the bytes
of each piece with BPE. It is fast because it remembers: four caches hold
results of earlier calls, some of a thread, some of a model, and calls of many
threads, tokenizers and worker pools use them at the same time. What can go
wrong is mostly there, and a unit test sees little of it: an answer that
belongs to another model, a match that was right for the last input, ids in the
order the workers finished. These modules state what the caches and the
scheduling promise, check it on small instances with TLC, and prove the most
important of it with TLAPS for instances of any size.

Paths below are of the repository: `src/models/bpe.rs` is `src/src/models/bpe.rs`
in `PROJECT.json`.

## The system

| part | state | operations | how it meets the others |
|---|---|---|---|
| `src/models/bpe.rs`: `Bpe` | instance id from a global counter; two `SharedCache`s of 64 mutex-guarded shards; a one-shot affinity flag; immutable tables | `new`, `clone`, `tokenize_into`, `tokenize_into_fused`, `tokenize_batch_fused`, `take_content_affinity` | called from every thread that encodes; uses two thread-local `FlatCache`s shared by all instances |
| `src/models/bpe.rs`: `FlatCache` | slot table, id pool, key pool, count, tag | `get_hashed`, `insert_hashed`, `clear` | the storage of both cache levels; reads with `get_unchecked` |
| `src/pre_tokenizers/split.rs`: `Split` | id from a global counter; compiled expressions; a thread-local `SplitCache` shared by all Splits | `pre_tokenize` (fast scanners, PCRE2, fancy-regex), parallel matching in chunks | blocks on rayon's global pool, whose workers run other calls meanwhile |
| `src/pre_tokenized.rs`: `PreTokenizedString` | buffer and splits of one call | `tokenize`, `tokenize_batched`, `tokenize_batched_affine` | spreads splits over a pool of at most 8 workers that all callers share |
| `src/lib.rs`: `Tokenizer` | immutable pipeline | `encode*`, `encode_segments*`, `encode_batch*`, `decode*`, `DecodeStream` | composes the parts, in parallel over inputs and chunks |
| `src/added_tokens.rs` | matchers | `split`, `split_special_as_text` | first stage of `encode` |
| normalizers, decoders, post-processors, `src/json_structs.rs`, `src/tiktoken.rs` | none after loading | | stages of `encode` and `decode`, loading |
| `python/src/lib.rs` | `Arc<RwLock<TokenizerState>>`: tokenizer, truncation, padding, post-processor, template | encode with the GIL released, everything else with the GIL held, async on tokio | GIL and lock are taken in different orders by different methods |
| `python/basetenkenizer` | shim of a transformers tokenizer, patch of transformers | copies, pickles, sets templates | Python threads between two statements |

What makes each part correct:

- The token caches must be invisible: every call is answered as if its pretokens
  had been merged from scratch with the vocabulary of the instance that was
  called, whichever instances used the thread before, whichever threads fill a
  shard at the same time, and also after a call that failed half-way.
- A `FlatCache` must be a map with forgetting. Its unchecked reads must stay
  inside the pools and its probe loops must end.
- The split cache must be invisible: a call returns the matches of a Split that
  has never been used.
- The scheduling must be invisible: ids in the order of the splits, an error if
  and only if a split has one, an answer to every call.
- A pretoken must be merged as its ranks say, by the heap and by the linear scan,
  whatever stale entries the heap holds; the shortcuts of the loaded tables must
  answer as merging would.
- A hand-written scanner must find the spans of the regular expression it
  replaces, and matching in parallel chunks those of one scan.
- The stages of the pipeline must agree with their plain definitions (prefilter
  and automaton, fused and separate byte encoding), and what is encoded must be
  decoded to the same text.
- A stream must say all of the text and nothing else; what an `Encoding` says of a
  token must stay beside its id, until a caller sets vectors that do not fit.
- A Python call must use one configuration, wait for nobody who waits for it, and
  a refused setter must leave nothing behind.

Hard behaviours, all listed with their lines under `hazards` in `PROJECT.json`:
races between a look-up and the insertion that follows it; caches that survive
the owner of their content; calls nested on a rayon worker that waits; batches
that fail in the middle; offsets and ordinals of fixed width; tables that empty
themselves while a call is under way; pools that all callers wait for; heap
entries for neighbours that are gone; chunks whose overlap cuts a match short;
windows, prefixes and offsets that move on at different times.

## Modules

| module | models | role |
|---|---|---|
| `Pretokens` | data of the BPE model | constants, and what a vocabulary answers for a pretoken, as an opaque value |
| `Tokenizing` | the promise to callers of `Bpe` | abstract specification: calls, replies, returns |
| `TokenCache` | `tokenize_into`, `tokenize_into_fused`, `tokenize_batch_fused_impl`, `SharedCache`, `Bpe::new` and `clone` | detailed specification; `Implements` is the refinement |
| `TokenCacheProofs` | | invariants, refinement and the bound on the pools, proved |
| `CacheMap` | what a `FlatCache` is to its users | abstract specification |
| `FlatCache` | the table in memory | detailed specification; `IsMap` is the refinement |
| `FlatCacheProofs` | | bounds and termination of probes, and the refinement, proved |
| `SplitCache` | `pre_tokenize_pcre2_isolated` on one thread, with nested calls | |
| `SplitCacheProofs` | | proved properties of it |
| `BatchedTokenize` | `tokenize_batched_affine` and its callers in `src/lib.rs`, over the pool | |
| `BatchedTokenizeProofs` | | order of the ids, pieces and flag, proved for any number of callers, workers and splits |
| `Folding` | | lemmas on recursive functions, `FlattenSeq`, `FoldLeft`, UTF-8, the alphabet of the byte level and texts cut into pieces that proofs cite |
| `BpeModel` | loading: `Bpe::new`, `parse_merges`, decompositions, whole pretokens, compatible pairs, conversion of a rank file | operators |
| `RankMerge` | merging by rank | abstract specification |
| `BpeMerge` | the heap and the linear scan over a linked list | detailed specification; `LowestFirst` is the refinement |
| `BpeTokenize` | loaded models under `BpeMerge`: `tokenize_into` and `tokenize_into_fused` without caches | composition |
| `BpeTokenizeProofs` | | the invariant of the merge and its refinement, that what is answered spells the text, and that a pretoken found whole is what merging makes, proved |
| `Scanners` | `fast_split.rs`, `fast_split_o200k.rs`, and what a regular expression matches | operators |
| `Splitting` | one text under `Split::pre_tokenize`: engines, chunks, the merge of their matches, segments, behaviors | |
| `Decoding` | the byte alphabet, UTF-8, every decoder | operators |
| `AddedTokens` | `added_tokens.rs` | operators |
| `Normalizing` | normalizers, `Tokenizer::build`, the buffer with its splits | operators |
| `Pipeline` | the stages of the encode calls of `Tokenizer`, `decode`, `DecodeStream` | composition |
| `TokenRows` | what an `Encoding` is to the code that holds it: a table of tokens | abstract specification |
| `Encodings` | `PyEncoding`, and truncation and padding of answers, on top of `Pipeline` | composition; `RowsKept` is the refinement |
| `PipelineProofs` | | from texts to `Encodings`: the prefilter, segments, splits, the fused path, chunks, the table of an `Encoding` and batches, proved for any tokenizer and any input; streams and the round trip, for byte-level decoders and tokenizers |
| `PyState` | the methods of the Python `Tokenizer` over the GIL, the `RwLock` and the fields of `TokenizerState` | |
| `PyStateProofs` | | the discipline of the lock, and what follows from it, proved |
| `MC*` | | values of the constants for TLC |

`BpeModel`, `Decoding`, `AddedTokens`, `Normalizing`, `Pipeline` and `Scanners` are
stateless code and are mostly operators; the modules that put them in motion are
`BpeTokenize`, `Pipeline`, `Encodings` and `Splitting`. What one module takes for
granted another one shows: `TokenCache` takes the ids of a pretoken as given
(`BpeMerge`), a `FlatCache` as a map (`FlatCache`), the splits as given
(`BatchedTokenize`, `Splitting`); `SplitCache` takes parallel chunks to find what
one scan finds, which `ChunksAgreeOnCover` shows under the condition it names.

### TokenCache

`local[t][p]` is `TL_BPE_CACHE` (path `"encoded"`) or `TL_FUSED_CACHE`
(`"fused"`) of thread `t`; `shared[b][p][s]` is a shard of instance `b`;
`call[t]` is how far the call of `t` is. A cache is the map it implements, its
`bpe_id`, and how many id ranges its pool has taken since the last clear. The
steps are those between which another thread may run: the thread-local look-up
(`LookupLocal`), the look-up in the shard under its mutex (`LookupShared`), the
merge with the insertion in the thread-local cache (`Merge`), and the insertion
in the shard (`Publish`). A batch runs the same steps for each of its splits
without looking at the tag again, which `BeginBatch` has claimed. `Merge` fails
for a pretoken with a character that has no token; the caches keep what the
batch has put there so far. The ids of a pretoken are the triple of path,
vocabulary and pretoken: any mix-up of instances is visible.

Mutexes are never held across a step of another lock, so they are not variables;
poisoning is not modelled (nothing panics inside the critical sections).

### FlatCache

Slots hold hash, offsets and lengths; the pools are sequences. `Emptied` resets
hashes and nothing else, as `clear` does. `Probe` is the slot at which both
loops stop. `Wrap` stands for 2^32 and `MaxLen` for 2^16 - 1. The assumption
`(MaxLoad + MaxUpdates) * MaxLen < Wrap` is what keeps offsets from wrapping: a
thread-local table has no updates in place (that is `PoolBounded` of
`TokenCache`) and 49152 entries of at most 65535 ids and bytes, which is below
2^32; a shard has 768 entries, and as many updates of each as threads race for
it, which is below 2^32 for up to 85 threads that all race for every entry with
the longest ids there are. The model's constant `MaxUpdates` bounds the updates.

### SplitCache

`cache` is the thread-local `SPLIT_CACHE`, `calls` the calls on the thread, the
innermost last. `Begin` is the probe, `Scan` one match, `Store` the update of the
cache, `Fail` an error of PCRE2. A call that matches in parallel waits for
rayon; on a rayon worker the wait takes other jobs, so another `Begin` may come
on top of it, at any time until the outer call stores. `Nests` says which
Splits the pool runs inside which on this thread. Patterns are functions
from a text to its first match: they may look ahead of the match but not behind.
`common_prefix_len` is not always the exact length of the common prefix; `Shared`
uses it only as the code does.

### BatchedTokenize

`call[c]` is the call a thread waits for, with its pieces: one, contiguous
chunks, or buckets of equal content. `Take`, `WorkOn` and `Leave` are a worker;
`Skip` is what rayon's `collect` does after an error; `Gather` puts the ids
together, for an affine call through the packed locations. Locations are cut to
`Width` bits, so that an overflow would be seen. Which text a worker finds in
its caches is the subject of `TokenCache`; here the ids of a split are given.

### PyState

`gil` is who holds the interpreter lock, `readers` and `writer` who holds the
`RwLock`, `state[f]` the value of a field of `TokenizerState`, and `call[a]` what
a thread or a job of tokio's blocking pool is doing. A method is a program: the
sequence of its steps at which another actor may come between, and its fields in
the order in which the code touches them. `give` and `take` are the ends of
`py.allow_threads` (or `Python::with_gil` of a job), `read`, `write` and `drop` the
life of a guard, `spawn` is `spawn_blocking`. Steps before the lock is taken touch
only the method's own arguments and are left out; each outcome of a method (a
template that does not compile, a post-processor that is refused, an encoding that
fails) is a program of its own. What a job needs of the event loop is its last step.
A Rust panic, which would poison the lock, is not modelled: no closure under the
lock is meant to panic.

`GetterCollects` is the getter whose `PyDict` makes the collector of CPython up to
3.11 run a finalizer in Python, in which the GIL may change hands. It is not among
the programs of the runs; `WaitsItsTurn` is proved under the assumption that no
getter's allocation runs Python (see "Seen on the way").

### BpeModel, BpeMerge, BpeTokenize

`sym` is `MergeSymbols`, a doubly linked list in an array; `heap` holds the
`MergeEntry`s, of which equal ones are popped together; `ranks` is the array of the
linear scan that pretokens of up to `SMALL_MERGE_MAX` characters take on the fused
path. `BeginHeap`
and `BeginScan` build them, `PopStale` and `PopMerge` are one turn of the heap,
`ScanMerge` one of the scan, the finishing actions read the list. An absorbed symbol
keeps its links, as in the code, and in the heap's list its token becomes `Invalid`,
so an entry is recognised as stale by its two tokens only. `RankMerge` knows words and ranks and
neither list nor heap.

`BpeTokenize` instantiates the calls with loaded models: `parse_merges` ranks the
pairs (the last of a pair that is listed twice), `Orphans` and `whole_token` say
which pretokens are answered without merging, `ranks_to_json` turns a rank file
into merges. `TextOf` is the table from ids to texts, in which an id that is listed
for two texts has one of them; a loaded model may list one so (`Distinct` says that
it does not), and the other text is not found as a whole. `Spells` is said of models
without such ids, whose tokens have a text of their own. `WholeIsMerged` is said of
pretokens whose last merge is listed (`LastMergeListed`); the others are told below.

### Scanners and Splitting

A character of the model stands for all those no pattern tells apart: letters of
either case and none, the letters of the contractions, marks, Han, digits, blanks,
newlines, a quote, a slash. An expression is a sequence of alternatives of items,
and an item has its ends in the order in which a backtracking engine tries them.
The scanners are translated branch by branch without the vector instructions.
In `Splitting`, `Begin` chooses the chunks, `ScanChunk` is a worker, `FailChunk` an
engine that gives up, `Collect` merges and applies the behavior. Chunks of an
engine are read `Overlap` beyond their end.

### Pipeline, Encodings

`pc` is the stage a call is at, `todo` the segments and chunks it has yet to encode,
`pts` the `PreTokenizedString`, `ids` the answer so far, `stream` the `DecodeStream`
with, for the properties, what it was given and has said. A string is the sequence
of its UTF-8 bytes, so that byte tokens can break a character anywhere. `Encodings`
goes on with the ids: `enc` is a `PyEncoding`, whose vectors are `Unset` until they
are materialized.

A caller makes an `Encoding` of an answer (`Wrap`) or of its own ids (`New`), and does
with it what `PyEncoding` lets it do: `truncate`, `pad`, `merge`, `post_process`,
`into_numpy`, and every setter that stores something (`ids`, the five vectors,
`set_sequence_id`, `n_sequences`). Setters take any value, also of another length than
the ids. A truncation that meets a vector too short for its slice panics there: ids and
the vectors before it are cut, the rest is not (`Reached`). `RowsKept` says what is left
of the table then: as long as each vector has a value for each id, every step cuts rows
off an end, adds rows of padding or of another `Encoding` there, or is one in which the
caller changes a column or takes everything; what is torn may be anything.
`TornBySetting` says who tears it.

A pretoken of `Pipeline` is one token or those of its characters or bytes: merging
is the subject of `BpeTokenize`. `Split` and the regex of `ByteLevel` are
`\s*\S+|\s+`: splitting is the subject of `Splitting`. NFC is what it does to one
pair of code points, and `<0xNN>` is one code point. Encoding in parallel (batches,
safe chunks) is the sequence of the parts, whose encodings share only the caches.

`PipelineAssumption` says what tokenizers and jobs are: added tokens, texts and the
contents of normalizers are UTF-8 (`IsText`, `AreCodePoints`), ids are numbers, the
matchers can be built (`Builds`, the errors of `Tokenizer::build`). TLC evaluates it on
the tokenizers of the run. That no two added tokens have one id is not part of it,
since no code checks it: `DistinctIds` is a hypothesis of the properties it matters to.
With two contents under one id, `split_special_as_text` advances its cursor by
the wrong one and cuts the input where no token is.

## Runs

| run | instance | question |
|---|---|---|
| `cache` | 2 threads, 2 instances of 2 vocabularies or clones, both paths, 4 pretokens (one too long to store, one with its id), local caches of one entry, shards of two, batches up to 2, one that fails | does a cache leak between instances, threads or calls? do racing threads corrupt a shard or a caller's answer? how far does a pool grow between two clears? |
| `flat_cache` | 4 slots, 4 pretokens, 1 update in place | is the table the map, and are its reads in bounds? |
| `split_turns` | 2 Splits in turn and each inside itself, texts up to 3 | is a reused match what a fresh Split finds? do splits tile the text? |
| `batched` | 2 callers, 2 workers, texts of up to 5 splits | are ids in order under every schedule? do calls disturb each other? is the flag spent well? is every call answered? |
| `splitting` | all texts of up to 4 (over two characters, 5) characters for every scanner; texts of 8 and 12 over blanks, newlines, dots and slashes, which scanners cut into 2 and 3 chunks; both engines, texts of 8 and more in chunks, every behavior | do scanners find what their expressions find? do chunks agree with one scan? are cuts where the behavior says? |
| `merges` | every vocabulary that three steps of training on two characters reach, models given by merges, texts of up to 6 | is the lowest rank merged first? do shortcuts and rank files answer as merging does? |
| `tokenizer` | a fused byte-level tokenizer, one with prefix space and regex, one like Llama 2; all texts of up to 3 characters, longer ones in chunks; all id lists up to 2 and some up to 4, every way to feed a stream up to 2 ids at a time; Encodings with up to 3 changes, set to 1 or 3 values whatever their length | do the stages agree? does text survive? do streams say the text? do rows of an Encoding stay together, and who tears them? |
| `pystate_safe` | 2 threads, 1 job, 2 values, every program but `GetterCollects`, writers first | does a call mix configurations? does a refused setter leave a trace? does anyone wait for the GIL with the lock? |
| `pystate_returns` | 2 threads, 1 job, every program but `GetterCollects`, readers first | does every call return? |
| `split_contaminated`, `split_lookahead`, `split_chunks` | one cause each | the disagreements below |

The bounds are chosen so that the rare cases happen: caches of one entry clear between
the pretokens of a batch; 2 threads that miss together update an entry in place in a
shard of two, which is then cleared by the next pretoken or by one too long for it;
4 slots wrap around and hold two texts of the same hash; 5 splits in one bucket
exceed the width of a location while 3 are the most that the code allows (the
guard is one short of the exact bound, on the safe side); texts of 3 hold a match
before, at and after the end of the common prefix; 8 to 12 characters are two or
three chunks whose overlap of 3 cuts matches short, or which a scanner cuts at a newline
with a character after it that no punctuation run swallows; words of 6 over merges of
merges leave stale entries of every kind in the heap; a step of two ids completes a
character and begins the next. More of anything repeats these cases: threads
interact only through one shard at a time, calls only through the pool or the top
of the stack, chunks only with their neighbours, a step of a stream only with the
window before it.

`cache` restricts the states by the constraint `RareAlone`: a thread takes the
encoded path, or asks for the pretoken too long to store by itself, only while the other
has not begun. The two paths of a thread share
the tag of no cache, and the theorems have no such restriction. `MaxBpes`,
`MaxDepth`, `MaxUpdates`, `MaxStep`, `MaxOps` and the lengths of texts and batches
are the other bounds, in the guards or the inputs.

Every property of a passing run has a mutant, an operator written next to the
definition it stands for that makes a plausible mistake (a tag that is not
compared, a load check off by one, a stale entry taken for a valid one, a window
one byte short, a prefix that is not advanced); TLC finds the property violated
under each. The type invariants of `TokenCache`, `FlatCache`, `SplitCache` and
`BpeMerge` are part of the invariants that are proved.

### Fairness

`Answered` needs fairness of rayon's pool, `Returns` of the interpreter.

In `BatchedTokenize` a worker goes on with what it has (weak fairness of `WorkOn`
and `Leave`), a caller goes on by itself or gathers, and a queued piece is taken
in the end (strong fairness of `Take`): calls from outside enter the pool through
rayon's injector, which is first in, first out, and a worker empties its own
deque, where the pieces of a call are, before it looks for the next call. That a
call is ever made, or that rayon skips anything, is not assumed.

In `PyState` an actor that can go on goes on (weak fairness). A thread that asks
for the GIL gets it in the end although others take it again and again (strong
fairness of `Take`): CPython's holder gives it up on request and waits until
another thread has had it. A reader comes between two writers in the end (strong
fairness of `Read`). A writer needs no more than weak fairness: it waits with the
GIL held, so no new reader can come but those that have given the GIL up already.
Which of `WritersFirst` holds depends on the platform's `RwLock`; the theorems
hold for both.

### Where the code and what is said about it part

1. `split_contaminated`. The tag of the split cache "prevents cross-model
   contamination when different models share a thread" (`split.rs:29`). The
   update at the end of a call does not write the tag. If a call of another Split
   ran on the same rayon worker while the first one waited for its chunks, the
   first stores its matches under the other's id, and the other reuses them.
2. `split_lookahead`. The test `cache_reuse_boundary_lookahead` requires that no
   match with a stale lookahead is reused. The code asks for one byte of common
   input after a match. `\s+(?!\S)` stops one blank before the end of a run and
   looks at the byte after that: after `"... x"` with two blanks, the same
   prefix with three blanks reuses the run of one.
3. `split_chunks`. Matches of parallel chunks are merged "repairing gaps at chunk
   boundaries" (`split.rs:543`). The repair looks for a gap only before a match that
   is left. If the last matches of all are ghosts, which begin inside the match that
   crosses the boundary, the text after that match is not searched again, and a
   match in it is lost. A pattern whose matches cover the text, as those of
   tokenizers do, always has a match left or no text: `ChunksAgreeOnCover` holds.

### Seen on the way

What the translation showed beside these, in no run:

- A token that no merges make, an orphan, is not to be found as a whole: the test
  `vocabulary_lookup_and_encoding_preserve_orphans_and_duplicate_ids` (`bpe.rs:1765`)
  says that encoding preserves them. `encoding_decomposition` (`bpe.rs:701`) merges
  until two tokens are left and does not ask whether these two can be merged. A token
  "ab" without a merge is not taken for an orphan, so `tokenize_into` answers "ab" with
  it, while merging, and `tokenize_into_fused`, give "a" and "b". Where the last merge
  of a token is in the list (`LastMergeListed`), `WholeAnswersMerged` proves that the
  two agree. The run `merges` has such a token (`Unmade`).
- The cached ends of `SPLIT_CACHE` are offsets into the buffer, and the restart uses the
  last one as an offset into the text of the only split (`split.rs:437-443`). After an
  earlier Split that removed a prefix, as `Removed` ones do in the test
  `sequential_two_splits`, the two differ by the length of what was removed: that many
  bytes after the reused matches are not searched, and a match in them is lost. With
  `Margins = {<<1, 0>>}` and matches of one letter TLC finds `Fresh` violated.
  `AlwaysTiled` and `FreshWhenDecided` assume that the only split is the buffer, and
  so do the runs.
- A match cut short by the readable end of its chunk is recognised by a ghost that
  reaches past it. A run of blanks longer than the overlap that ends exactly there,
  with a digit after it, leaves no ghost.
- The getters `truncation` and `padding` allocate a `PyDict` while their read guard
  is alive. On CPython 3.10 and 3.11 the allocation may run the cyclic collector, a
  finalizer written in Python may lose the GIL, and a setter then waits for the lock
  with the GIL while the getter waits for the GIL with the lock. Cloning the
  parameters before the dictionary is made, as the other methods do, would end it.
- `python/tests/test_thread_safety.py` says that `decode` releases the GIL. It holds
  it from beginning to end (`python/src/lib.rs:1644`), and so does `Decode`.
- A seed that ends inside a character is said again with the first text of a stream,
  as in HuggingFace; `StreamFaithful` and `StreamComplete` exclude such a seed.
- With `ByteFallback` a byte that does not fit changes those before it, and a stream
  that has said them fails with "Invalid prefix"; `StreamOfTextGoesOn` says that ids
  of a text never lead there.
- An added token of characters of the byte alphabet that are not ASCII is decoded to
  single bytes, as in HuggingFace.
- `post_process` of the Python object makes a new `Encoding` of the ids and drops the
  attention mask of a padded one.
- The setters of an `Encoding` take vectors of any length. `truncate` cuts the ids, and
  the vectors in their order, before it panics over one that is too short, and so
  leaves the others longer than the ids. `extend_right` makes a vector that was set too
  short or too long as long as the ids, `extend_left` does not.
- Padding says of its places that they belong to no sequence if `sequence_ids` was set or
  merged, and to sequence 0 if it never was: it materializes two vectors only
  (`IsPadding`).

## Proofs

`TokenCacheProofs` proves `Invariance`: `Spec => []IInv`, where `IInv` is
`TypeOK`, `LocalCoherent`, `SharedCoherent` and `CallCoherent`. None of them is
inductive alone. A local cache stays coherent when a shard's answer is copied to
it only because shards are coherent; a batch stores without looking at the tag,
which is right only because `CallCoherent` says that its thread's tag is its
instance for as long as it runs; what `Publish` stores is the last answer of a
call, right by `CallCoherent` again. One lemma per action carries the step, over
lemmas on `Insert` and `Claim`. The assumptions are those of `Pretokens` and
`TokenCache`: the special values differ from data, loads are positive.

It also proves `Spec => Implements`: the initial state maps to the
initial state, and each action to a step of `Tokenizing` or to a stutter. The
mapping forgets the caches and shows an answer when its call is done, so the
invariant is what makes the answer the right one.

Last it proves `Spec => []PoolBounded` for finite sets of threads and
pretokens. A pool grows by a range at every write, the count only at a new entry, so
what has to be counted is writes in place. In a thread's own cache there is none:
`Missed` says that a thread on its way to a write has not got the pretoken there. In a
shard a write in place comes from a thread that missed the entry before another
published it; `SharedWithin` adds those threads (`Late`) to the pool. A new entry makes
late at most all threads but its writer, a write in place uses up its writer's
lateness, a clear forgets the entries and with them who was late for them.

`FlatCacheProofs` proves `Spec => []InBounds` and `Spec => []ProbesEnd` from an
invariant that also bounds the pools by the number of entries and updates. That
a probe comes to every slot, hence to an empty one, rests on the lemmas on
remainders; that the count is exact, on the cardinality theorems of the library.

It also proves `Spec => IsMap`, that the table implements `CacheMap` for
every size, every hash and every length. Its invariant, `Indexed`, is what open
addressing lives on: an occupied slot holds a key under its own hash, at a place where
a probe for that key comes to over occupied slots only, and no key is held twice. Hence
`Finds`: a probe stops at the slot of its key or, when there is none, at an empty one.
Writing a slot keeps all of it (`Written`), since the pools grow at their ends and an
emptied table has nothing to keep; and as keys and occupied slots are as many
(`Counted`), the table empties itself exactly when the map does.

`SplitCacheProofs` proves what holds of the split cache in spite of the
disagreements, and so where their boundaries are. `AlwaysTiled`: if the only split
is the whole buffer, the splits of a call tile its text, whatever was reused.
`FreshWhenDecided`: if moreover calls of different Splits never nest on a thread,
and the first match of every pattern is decided by the byte after it, results are
fresh. `OwnedWhenDecided`: then the cache left behind carries matches of the Split it
names. Each run of a disagreement drops exactly one of these hypotheses.

`PyStateProofs` proves that every method keeps to a discipline (`Discipline`:
fields are read and set only inside a guard, a guard is taken once, nothing is
read before it, every guard is dropped) and that the discipline is enough. `IInv` ties
`readers` and `writer` to the places of the calls in their programs; from it follow
`TypeOK`, `Snapshot` and, if no getter's allocation runs Python,
`WaitsItsTurn`. `Agreement` needs more: which step of which program sets a field
(`Coupled`), and that the first of two coupled fields is ahead of the second only
between two steps of the one writer (`InStep`). A new method has to be added to
`Program` and to the lemmas on discipline only.

`BatchedTokenizeProofs` proves `InOrder`, `TypeOK` and `FlagWellSpent`, for any number
of callers, workers, splits and buckets and any width of a location. The invariant,
`IInv`, says of every piece that its ids are those of the splits it has been through,
one after the other, and its `ends` where each of them ends (`PieceSound`); of every
call that its failure has a cause and its result is the expected one (`CallSound`);
of every worker that its piece is one of a call that waits, and nobody else's
(`TaskSound`). `InOrder` alone says nothing of a call under way, so it is not
inductive. What remains is that the pieces reassemble to the splits. Chunks are
contiguous and none is empty (`DivCeil`). For an affine call, an ordinal
counts the splits before it in the same bucket, so it is its place in the piece;
packed with the bucket in `Width` bits it loses nothing as long as there are no more
than `MaxAffinitySplits` splits, which is what the guard on the splits is for; and
`ends` at that place cuts the ids of just this split out of its bucket's
(`FlattenSlice`). `FlagSpentOnce` is about two steps only: one that begins a call, which
alone takes the flag, and all others, which go on with a call there is (`Resumes`).

`Folding` holds what this proof and the next ones need of `FlattenSeq` (type, one more
part, two halves, a slice, pieces of pieces), and the lemmas on UTF-8. `FlattenSeq` is a
recursive function and the induction theorems of the library take an operator, which
no prover here instantiates. So the induction is over a set: a set that holds 0 and,
with each number below n, the next one, holds n (`UpTo`, from the well-foundedness of
the naturals). A recursive function is a `CHOOSE` of a function that satisfies its
equation: once there is one, built step by step, it satisfies the equation
(`Unrolling`).

`BpeTokenizeProofs` proves `Invariance` and `MergesLowestFirst`: `Spec => LowestFirst`,
that `BpeMerge` implements `RankMerge` for every table and every word. The invariant
says four things: the positions reached from the first by `next` are exactly the
live ones, in order, and `prev` leads back (`Chain`, `Linked`); every pair of live
neighbours that can be merged is in the heap (`HeapKnows`) or in `ranks`
(`RanksKnow`); a symbol that the heap has absorbed has no token; entries say the rank
their tokens have. From it `PoppedIsLive` follows, that an entry whose tokens fit is one of two live
neighbours, although positions keep links after they are absorbed, and
`FirstOfLowest`, that the entry popped, or the position scanned, is the leftmost of
the lowest rank. `AbsorbedChain` is the lemma on the surgery of the list.

It also proves `Spells` and `WholeIsMerged` for every model that loads.
`TextInv` says that the symbols cover the text: the token of a live symbol is the one
of the characters from its place up to the next live one (`Covers`). A merge takes a
symbol and its successor, whose parts meet (`Chain` and `Linked` of `BpeMerge`), and
`parse_merges` gives the pair the token of both texts; in the end the list is read
from its last symbol back, and what is read spells the rest of the text (`Readable`).
`Distinct` is a hypothesis of the property since the texts of ids are a table.

A pretoken found whole is answered as if merged for another reason: it is in the
automaton because its decomposition, which is merging stopped at two tokens, ended in
two tokens and not stuck. Merging is a recursion over token sequences that get
shorter: `Recursion` shows that such a recursion has a solution and only one
(`SolutionsAgree`), whatever its step is, and with it `Merges` and
`encoding_decomposition` may be unfolded. If the pair left is listed
(`LastMergeListed`), the two tokens become one whose text is the text merged
(`MergedSpells`), and as no id is listed twice that is the token of the vocabulary.

`PipelineProofs` is about every tokenizer that satisfies `PipelineAssumption` and every
input. Its theorems follow the pipeline.

`Called`: the call at work is one of the jobs, and what it has left are texts. The
chunks of a tiktoken-safe call are some of the characters of a text, one after the
other, so they are texts too; this rests on the lemmas on UTF-8 (in `Folding`), of which the main one
is that decoding what is encoded gives the code points back, whatever follows it.

`LegacyChunks`: the code keeps a start, a run and the kind of the last character, and
nothing of what it has cut off. `CountedSo` is the invariant of its loop: the chunks are
the characters before `start`; the run is the last `run` characters, of one kind, and no
longer one ends there (`RunEnds`); no run of the open chunk is too long (`NoLongRun`);
each chunk cut off ends with a run that is full and would have gone on (`CutOff`). A
text is cut to slices of the one limit first, so a chunk either ends so or is the last
of its slice (`SliceEnds`), and the chunks of all slices are joined one slice at a time
(`CutOfBoth`).

`SamePrefilter`: the prefilter skips a byte only if no added token begins with it, and
its window holds all of the longest token; so at each byte it takes the branch the
automaton takes, or both skip (`PrefilterStep`). The two are recursive functions over
positions; that they agree is an induction from the end of the input.

`SegmentsOfInput`: what is found is the bytes of a content, so the segments of a matcher
stand for the input (`Spells`). `split_special_as_text` does not look at the input again:
it adds up lengths. `KeptUpTo` is the invariant of its loop: the cursor is behind the
segments read, the text pending begins between two characters, and segments and pending
text stand for the input up to the cursor. Stripping takes away characters at the end
of a text, which the property leaves out (`Unstripped`).

`SplitsCover`: `Tiled` says that splits begin where the one before ends, from the first
byte of the buffer to its last, never inside a character. It holds of what is built of
segments that are texts, through one matcher or two; of a pattern, since pieces of
a text cover it and begin at characters; of the byte alphabet, since each byte becomes
a whole character. From it `InOrderAlways`, the invariant of all stages: calls, splits
and ids are what they should be.

`EncodingIsTable`, `OnlySettingTears` and `AnswersOfABatch` need of it that ids are
numbers. For every set of ids and vectors that callers set, `EncodingOK` says that an
Encoding consists of ids and of vectors of any length, unset or not; it holds of what any
step leaves. Each step is then followed on the table: slicing a whole table reaches every
vector and gives rows in order, extending it adds rows of padding at one end, merging
joins the rows of both. A vector that fits and is cut, extended or merged fits again
whatever the others do, but for a slice that ends at another vector before it comes to
this one; so the setters and that slice are the only ways to tear. `AnswerStays` says that
the Encoding is the one of the ids until the caller changes it, and the rest is
arithmetic of multiples.

`FusedIsWhole`: the bulk pass drops empty splits, and one encoded is found in the new
buffer as the bytes it was made of; so the ids of all splits agree one split at a time
(`OneMore`), and one that fails makes both fail. It rests on `SplitsCover`: what is not
between two characters could not be encoded alone.

`StreamsArePrefixes`, `StreamsReturnAll` and `StreamsGoOn` are about tokenizers whose
decoder is the byte level (`DecodesBytes`); other jobs of the same behaviour may use
any. The byte level decodes all bytes of a list of ids at once, and what is not UTF-8 is
replaced, so a list does not in general decode to the texts of its parts: a character may
lie across them. The stream cuts only where the text so far does not end in U+FFFD, and
this is enough: there no byte waits for another, so what comes after is decoded
as if it were alone (`LossyJoins`, an induction from the place of the cut back to the
first byte; `IncompleteIs` says that the three bytes at the end of a text are U+FFFD
only if its last character is). `Joins` is that promise, and all that the proof of
the streams needs of a decoder. The invariant, `StreamOK`, parts the ids given in
three: those the window has left behind, those the prefix was decoded from, and those
still to come (`Parted`). The text of the first two is the seed's and what was returned
(`Settled`), and that of the last is empty or not complete (`Held`). A stream before its
first step is neither (`Fresh`), and one whose ids all decode to nothing takes the
prefix anew in each step (`Priming`). The text decoded then is the prefix and the text of
the last part, so it always goes on from it and `StepFails` is never taken
(`Stepping`), for ids of a text or any others.

`ByteLevelRoundTrip` is `RoundTrip` for the tokenizers of byte-level models
(`Lossless`): what they split, encode and decode is the input, but for space that tokens
strip on their left. The property speaks of the end of a call only. The invariant,
`ToldOK`, says at every stage where each byte is: the text of a call is the bytes of the
ids it has so far and then the text of the parts still to do (`Told`), and while a part is
at work its splits stand for it, one after the other (`StandsFor`). Each stage keeps
that. What `build_pre_tokenized` makes of segments stands for the segments
(`StandsBuilt`), since stripping a text leaves the ids around it where they are; a
pattern makes of one split several that stand for the same (`PatternStands`); the model
makes ids whose bytes are those of the split (`StandsTokenized`), because encoded bytes
are decoded to themselves (`EncodedIs`, by cases of the alphabet), what the vocabulary
spells in characters of the alphabet has just those bytes (`TokenizedBytes`), and no id
of an added token is taken for one of the vocabulary (`AddedBytes`). In the end the bytes
are a text, so decoding replaces nothing.

`OneIdEach`, `DistinctIds` for each tokenizer, is the hypothesis of `SplitsCover` and all
that comes after it but `LegacyChunks`, and `SegmentsSpell` has it within.
`SamePrefilter`, `Called` and `LegacyChunks` have none.

Only model-checked:

- `Answered` and `Returns`, which are liveness under fairness: `ENABLED` is out of the
  prover's reach.
- `TiktokenAgrees` and `Compatible`: each compares two algorithms with orders of their
  own, and an inductive argument would have to follow both through every merge.
- Streams over decoders other than the byte level. One with `Strip` does not decode a
  list in parts (it strips each part), so `Joins` fails for it, and the properties hold
  by how its steps work together.
- `RoundTrip` for a tokenizer that puts a mark in place of spaces and before the text:
  its decoder makes a space of every mark, also of one the input has, so the property
  is about the inputs of the run, which have none.
- The properties of `Splitting`. It and `Scanners` declare `RECURSIVE` operators, and the
  prover has no arithmetic in a module that reaches one.

## Not modelled

- Chat templates: rendering by a template engine keeps no state; the slot of the
  template in the Python object is in `PyState`.
- The transformers shim (`python/basetenkenizer`): its steps interleave with
  transformers, code outside the repository, and the two statements in which it sets
  a template can be told apart only there.
- Loading: what the rules of a vocabulary reject is in `BpeModel` and `Builds`;
  parsing JSON, reading files and fetching them is input and output.
- The engines (PCRE2, fancy-regex, daachorse) and Unicode tables, which are modelled
  by what they promise, and vector instructions, which compute what the byte loops
  beside them compute.
- Poisoned locks, panics other than those of slices named above, examples and benchmarks.

What is left of the plan: `Splitting` with recursive functions in place of its
operators, and a proof of `CutsWhereSaid`; `SplitCache`
over `Splitting` instead of over matches that are given.
