# phpser verified: the TLA+ project beside the code

phpser is a PHP extension that serializes PHP values to a compact binary frame
and back. This directory holds TLA+ modules translated from its C sources, TLC
runs over small instances of them, and TLAPS proofs. Paths and line numbers
below are those of the repository; `PROJECT.json` maps every definition to the
lines it models.

## 1. The system

| Component | Code | State | Operations | What makes it correct |
|---|---|---|---|---|
| String interning | `phpser.c` 240-262, 671-898 | pointer cache `icache`, dictionary `dict`, content map | tagged emit, intern, probe, promote, write header, discard | a string on the wire reads back as what it said; indices stay inside the dictionary; nothing leaks |
| Encoder walk | `phpser.c` 926-2348 | frame body, id table, `next_id`, `refs_seen`, depth | one case per zval type and serialization kind | objects and references written once; ids numbered as the decoder numbers them; every frame handed out can be read back |
| Encoder pins | `phpser.c` 440-538, 564-669 | pins on table entries, private copies | activate, pin, unvisit, release | no user code between two visits can make an id name another entity |
| Decoder walk | `phpser.c` 3377-4276 | cursor, id table, entities being filled | one case per tag | what is built is well-formed at every moment, complete when returned |
| Decoder lifetime | `phpser.c` 2374-2700, 4760-4862 | pins, `result_live`, deferred hook list, destructor suppression | pin, run deferred hooks, tear down | every entity a later tag or hook names is alive; no hook runs twice; no destructor before its hook succeeded |
| Tables and row sets | `phpser.c` 1650-2068, 3566-3621, 4313-4586 | gathered columns, row pins, row array while it is filled | match rows, gather, pin, encode by column; decode by column or row, clean up | the rows are written as they were, whatever their hooks do to them; every pin, cell and key is released once |
| Budgets | `phpser.c` 268-281, 1990-2005, 2088-2111, 3106-3116, 3766-3773, 4315-4322, 4766-4778 | counters of rows' memory and of run elements, one of each on both sides | charge, refuse | a frame the encoder emits fits the decoder's budget |
| Numbers | `phpser.c` 126-226, 2088-2241, 3687-3788, 4278-4312 | loop variables | varint, zigzag, plain, delta and affine runs | a run reads back in whatever form it was written, overflows included; bits beyond the word are refused (an over-long spelling of a number is not) |
| Class resolution | `phpser.c` 2670-2829, 3790-4013 | per-frame caches of classes and of the filter's verdicts; PHP's native serialization state | filter, look up, autoload, call back, refuse | the filter and the class table of the moment decide, never a stale answer; native serialization's state is put back |
| Keyed API | `phpser_api.c`, `phpser_hmac.c` | key, a cached subkey and HMAC midstates per thread | sign, verify, derive, store and fetch through APCu | a stale cached key is never used; nothing is decoded before its tag verifies; a retired key does not stay |
| SHA-256 | `phpser_sha256.c` | chosen backend | compress | standard arithmetic |
| Session handler | `phpser_session.c` | session array and id, INI key | encode, decode | a save that fails is not taken for a new session (an exception is, on engines that store `""` for it, as the repository's `README.md` 578-582 says); no data of another id or key |
| Module glue | `phpser_module.c`, stubs | INI entries | userland functions | argument checks |

How they interact. The encoder walk calls string interning for every string
and the id table for every array, reference and object. Hooks
(`__serialize`, `__sleep`, lazy initializers, legacy handlers), destructors and
the garbage collector run *inside* the walk, in the middle of the encoder's
own state changes: this, and not threads, is the concurrency of the program.
Encoder and decoder share nothing but the frame and a numbering convention:
ids are never written where they are claimed, both sides count. The decoder
defers the hooks of the objects it made until the walk is over and runs them
one after the other on live objects. Budgets, depth and the exact-length check
may stop a decode at any token. The keyed and session layers wrap frames, look
their key up before the walk and compute the tag after it; the hooks in between
may make calls of the same layers over the same caches.

What is hard about it, and hard to test, is listed in `PROJECT.json` under
`hazards`, each at its line with the properties that watch it.

## 2. Modules

| Module | Models | Kind |
|---|---|---|
| `StringStream` | the promise: a log of the strings the caller wrote | abstract specification |
| `StringIntern` | string interning, with user code freeing and reusing strings between calls | component |
| `FrameProofs` | the theorems of `StringIntern`, `Budgets` and `WireNumbers` | proofs |
| `ObjectGraph` | the PHP values: arrays, immutable arrays, references, objects | data |
| `DepthLimit` | `MAX_DEPTH`, shared by both walks | data |
| `GraphEncoder` | the encoder's walk and id table | component |
| `GraphDecoder` | the decoder's walk and id table | component |
| `GraphCodec` | encoder, wire, decoder; what a round trip preserves | composition |
| `GraphCodecProofs` | theorems about both walks | proofs |
| `RoundTripProofs` | theorems about one walk reading what the other wrote | proofs |
| `EncoderPins` | who keeps entities alive while user code runs inside an encode | component |
| `DecodeLifetime` | who keeps entities alive, and frees them, in a decode: pins, drops, deferred hooks, tear-down | component |
| `DecodeLifetimeProofs` | its theorems | proofs |
| `TableEncoder` | a list of rows written column by column while hooks change the rows | component |
| `TableDecoder` | tables and row sets read back, and what a failure leaves | component |
| `TableCodec` | encoder, wire, decoder of tables; frames from elsewhere | composition |
| `TableCodecProofs` | theorems about both sides | proofs |
| `Budgets` | what the encoder lets pass and what the decoder affords | component, both sides |
| `ClassResolve` | from a name in a frame to a class: filter, caches, autoloader, callback | component |
| `UserCodeProofs` | the theorems of `EncoderPins` and `ClassResolve` | proofs |
| `WireNumbers` | integers and runs of them, written and read | component, both sides |
| `SealTerms` | keys, labels and tags as terms | data |
| `SealedStore` | the promise of the keyed layer: a store of sealed frames | abstract specification |
| `KeyedStore` | keyed, signed and session calls over the caches they share | component |
| `KeyedStoreProofs` | its theorems | proofs |
| `SessionPromise` | what a request finds under a session id | abstract specification |
| `SessionStore` | the session handler between ext/session and a store | component |
| `SessionStoreProofs` | its theorems | proofs |
| `MC*` | small instances for TLC | |

How state and actions correspond to the code:

- **StringIntern.** `dict`, `icache` and `map` are the fields of `encode_ctx`;
  `heap` says which text lives at which address, `held` what the program still
  holds. `Write(zs)` is one call of `enc_emit_str_tagged`, `enc_intern_zstr` or
  `enc_str_dict_idx` with everything they call; its disjuncts are their
  branches. `Allocate` and `Release` are user code between two calls.
  `stream` records what each string said when it was written and what the frame
  holds for it; `Finish` and `FinishOversize` seal or discard the frame.
  `StringStream` is the abstract specification: a log of strings that is sealed
  or discarded, refined through `Decoded`, the text a reader of the frame gets.
- **ObjectGraph, GraphEncoder.** A graph is a function from nodes to kinds and
  lists of kids. The C recursion is an explicit agenda; a task is a call of
  `encode_value_ex` or the code after one returns (`arrayDone`, `release`,
  `hookReturned`). `claim` is the id table, `hold` the references the encoder
  itself adds to a refcount (snapshots, protective references), `body` the
  tokens. Each kind of object is one of the branches of `encode_value_inner`.
- **GraphDecoder.** One action per tag; `todo` is the recursion, `made` the
  entities, `ids` the table of `dec_register`. It reads any list of tokens.
- **GraphCodec** runs both, one after the other, on the encoder's tokens
  (`Deliver`), or the decoder on a list of tokens no encoder wrote (`Arrive`).
  `maxDepth` never changes; it is a variable so that one run tries two limits.
- **EncoderPins.** Entities have addresses that are reused and a number that is
  not; the code sees addresses. `Take`, `Drop`, `Allocate` are user code, the
  other actions are the calls of the id-table functions in any legal order.
- **DecodeLifetime.** `heap` holds decoded entities with slots; `Refcount`
  counts the slots of live entities, pins, queue entries, C locals (`frames`)
  and references on their way out (`drops`). Every release goes through
  `Survives`, `CallDestructor` or `FreeLast`, which are PHP's `zval_ptr_dtor`;
  `Collect` is its cycle collector. `Put` is the common end of every decoded
  value: it is stored, replacing what a duplicate key left.
- **TableEncoder.** Tables have reference counts and a version that changes when
  their buckets move; `pin` is `row_pin`, `pointer` the gathered cell pointers,
  `out` the cells written. `GatherRow` duplicates or pins a row, `MixedCell`
  writes one cell and may give the floor to its hook (`userCode`), during which
  `UserTakes` to `UserWritesStorage` are what PHP code can do to the rows, the
  list and an `ArrayObject` that holds a row. `ReleasePin` is one turn of
  `enc_free_row_pins`, and may run destructors.
- **TableDecoder.** `colbuf` is the column buffer, stale contents included,
  `bucket` the rows, `keyRefs` the references rows hold on their keys. Each
  `...Fails` action is one error path and releases what that path releases.
- **TableCodec** instantiates `TableDecoder` beside `TableEncoder`. A frame that
  was written is read elsewhere, cell by cell in the order on the wire (`Deliver`,
  `ReadCell`), and frames and row sets this encoder did not write are read as
  well (`Arrive`).
- **Budgets.** `excess` and `encElems` are the encoder's counters, `left` and
  `decElems` the decoder's. An item is a table, a run or an
  object, which is decoded with or without its hook; `EncodeOther`
  is any other byte. `wire` is the least number of bytes the items can take,
  which is the worst case for the decoder's allowance.
- **ClassResolve.** `stack` holds the decodes and the user code they called; a
  decode keeps its own filter and caches (`ce_cache`, `allow_cache`). A lookup
  that needs user code pushes it (`Call`) and goes on when it returns
  (`Return`); `bg` is PHP's `BG(serialize_lock)` and `BG(unserialize).level`.
- **WireNumbers.** `WriteRun` is the encoder's choice of a form and its loop,
  `ReadByte` one turn of `varint_read_u64` and, at the end of a number, what the
  decoder does with it. `AnyWire` puts bytes no encoder would write.
- **SealTerms, SealedStore, KeyedStore.** A tag is a term: HMAC is a free
  constructor over a normalised key block and a message, so keys that pad or
  digest to one block are one key. `SealedStore` has puts, fetches and damage.
  `KeyedStore` has a stack of calls per thread, because hooks (and an option's
  `__toString`) run between the lookup of a key and the tag; `subkeyCache` and
  `hmacState` are the two caches. It uses the abstract module's `store` and
  `answer` as they are, so the refinement mapping is the identity on them.
- **SessionPromise, SessionStore.** A request starts with the key configured
  then, and is `encoding` while its hooks may change its data or its id.
  `last` records how an id was left (new, saved, lost, touched by someone else):
  it is history, and the abstract module says from it alone what a request may
  find. `engine` distinguishes PHP versions that store an empty string when the
  encoder returns NULL from those that store nothing. Reading is `Start`: bytes
  that do not verify are `Rejected`; bytes that do are decoded, which fails when
  a hook or an autoloader throws, a class does not take its data or memory runs
  out (`restores`, chosen freely). ext/session destroys the session in both
  cases, so a saved session read under its own key is either found or
  `NotRestored` and gone, as `tests/084-session-wakeup-throw.phpt` has it. The
  abstract module allows `NotRestored` only where the request may find data:
  what belongs to another id or key never reaches user code. A hook of a save
  may also regenerate the id (`ChangeId`) or destroy the session (`Destroy`). The
  tags are those of `SealTerms`: that the caches below are transparent is
  `KeyedStore`'s result.

## 3. What is checked

| Run | Question | Result |
|---|---|---|
| `strings` | can user code that frees and reuses strings make a string read back as another one? | no; and interning refines the log of strings |
| `graphs` | does every small graph survive the round trip with its identities, also when hooks yield NULL or throw? do both sides count depth alike? can a frame no encoder writes break what the decoder builds? | yes, depth permitting; yes, every frame handed out is accepted; no |
| `encoder_pins` | can an id ever name another entity than it was written for? | no; and the encoder's references balance |
| `lifetime` | is anything freed too early, destructed too early, or lost? may the fast release of pins be taken when it is? | no; yes |
| `tables` | can hooks of a table's cells change what is read back? are pins always given up? wherever decoding stops, is each cell released once and do keys balance? | no; yes; yes |
| `budgets` | is a frame ever refused for what its tables and runs cost? | not unless an object in it lost its hook |
| `class_resolve` | does a cached or nested answer ever contradict the filter or the class table? is native serialization's state put back? | no; yes |
| `wire_numbers` | does every run read back? is any number read as something other than its bytes say? | yes; no |
| `keyed_store` | can caches, nesting or a change of keys make a tag that is not the seal's? | no; and the layer refines the store of sealed frames |
| `session_store` | can a request find a lost session empty, or data of another id or key? | no; and the handler refines its promise: what is saved is found under its key, or user code that may see it failed to restore it |
| `lone_reference_depth` | does only a deep tree hit the depth limit? | no, see below |
| `slow_release_roots` | does the slow release leave every survivor in the root buffer? | no, see below |

Bounds, and why they are enough:

- `strings`: two reusable addresses, one interned, three texts (two collide,
  one too long), chains of length 1 and 5 writes. A stale cache needs one
  address with two texts; the collision limit needs two entries in a bucket;
  two more writes show that the state after it is still right.
- graphs: all shapes of up to three nodes with two values each and five values
  in all: the smallest cycles through each kind, an entity met from two places,
  below and beside itself, and a third to hold them. Of the two depth limits 7
  exceeds any path that does not repeat a node, and 3 lies inside the graphs.
  Rarely combined classes (lazy, legacy, forbidden) get smaller shapes. Frames
  from elsewhere are all lists of up to five tokens over nine tokens.
- `encoder_pins`: two ordinary addresses and an immutable one, four entities
  (so that both addresses are reused), two ids and two back-references.
- `lifetime`: three entities with one slot each and six tokens: a
  duplicate key over an entity in a cycle, its back-reference, and another
  entity beside it. Three statements of user code in all (two in hooks, one per
  destructor) are enough to detach an object, keep it, and let it go.
  `NothingLeaks` covers a result the caller keeps and one it discards. The
  objects of a frame are of one family, with deferred hooks or without
  (`OneFamily`, a constraint on the states searched).
- `tables`: two rows of two columns, five tables and two writes of user
  code. The rows may be one table, immutable, or shared with a variable or an
  `ArrayObject` from the start; a hook in the first cell can then reach a row
  that is read later, twice. A failure in the second column or row of a frame has
  something before it. A third row or column repeats the second.
- `budgets`: the real sizes (56 + 40 per slot, 64 per byte), an allowance of a
  few rows and three items, so that the exact boundary and one beyond it occur:
  one column costs more than its bytes are worth, eight less, nine more again.
  A table that uses up the allowance and two objects without their hook are
  refused, so that the exception is real.
- `class_resolve`: a plain class spelled in two ways, an enum and a class with a
  legacy hook; three objects, two statements, a decode inside a decode, two
  filters. The objects of a frame meet each name before and after a definition.
- `wire_numbers`: words of five bits in groups of two, because 5 = 2 * 2 + 1 as
  64 = 9 * 7 + 1: the last byte has room for one bit. Eight boundary values, runs
  of up to four (a run of three is never compressed), and every spelling of up to
  four bytes. Hosts of five and four bits stand for 64 and 32.
- `keyed_store`: one thread (threads share no cache), a key, the same with a
  padding byte, a long and a short one, three calls of which two nest, and two
  changes of configuration or damages. A stale entry needs two keys or labels and
  a third use.
- `session_store`: two ids, two requests, two saves and two changes of key or id
  or damages; three keys of which two are one to HMAC. Requests are
  interchangeable (symmetry; the run has safety properties only).

Every run is a finite state space searched completely.

Fairness is assumed in `TableCodec` only, for `TableEnds`: weak fairness of
the encoder's own steps and of a hook's return. There is one thread; when no
hook runs the encoder is what runs, and a hook that never returns would stop any
PHP program. User code has no fairness: it may write or not. The property fails
if one turn of the release loop is left out, and says also that memory running
out leads to the same end. All other properties are invariants or refinements of
safety specifications.

TLC also checks that the graph codec never gets stuck before it returned: each
step shortens the agenda or takes one of finitely many tokens, so it terminates.
The other runs say `CHECK_DEADLOCK FALSE` because their systems end: a frame is
sealed or refused, a table written, a value read once; or, for the keyed and
session stores and user code everywhere, because the bounds on calls and events
stop them.

Each property has a mutant, a small and plausible change to the code's model
(an operator named beside the definition it replaces, marked *Mutant*), under
which the property fails in the same run.

Two runs show a disagreement between a text in the repository and the code:

- **Depth and lone references** (`OnlyDeepTreesHitTheCap`). `README.md:482`
  says cycles do not count against the depth cap. A cycle through a reference
  with reference count 1 is unrolled, because the encoder walks a private
  duplicate of a shared array and duplicating drops such references; three
  nodes hit the cap.
- **Roots after the slow release** (`SlowReleaseRoots`). A comment at
  `phpser.c:4856` says the slow release has buffered every surviving entity. A
  collection run by a later release in the same loop takes the roots of those
  that are alive through the result; a result that is then discarded without
  root buffering is a cycle the collector does not know.

## 4. What is proved

`FrameProofs` proves of `StringIntern`, for any sets of addresses and texts, any hash
function, map threshold, chain limit and number of writes (the only assumption
is `InternAssumption`, which types the constants):

- `InductiveInvariant`: `Spec => []IInv`;
- from it `TypeCorrect`, `StringsReadBack`, `SlotsAreStable`, `CleanFinish`;
- `Refinement`: `Spec => ImplementsStringStream`.

The argument. None of the properties is inductive. `WireFidelity`, that each
reference in the frame reads back as what was said, needs the dictionary's
texts not to change, which needs its strings to be alive: `Alive` says that
while the frame is open exactly the strings that the program or the dictionary
holds are alive. `StableSlots` needs it too: an address in the pointer cache
belongs to a string that cannot be freed before the dictionary is (interned, or
owned by the dictionary). `MapSound` says that the content map names entries
with the right text. `SizeFlag` carries "no oversized string is sealed" back to
the moment one is taken in. `IInv` is the conjunction. `WriteCases` reduces the
branches of the emitters to four effects (a reference to an entry, a new entry,
an inline string, an oversized one), each with a lemma; `DictAppendFacts` says
what appending does to the dictionary and the map. For the refinement, a write
that is `said` becomes the abstract log's next element because `WireFidelity`
makes `Decoded` equal to what was said before and after the step.

`UserCodeProofs` proves of `EncoderPins`, for any number of addresses, entities, ids and
references (`PinsAssumption` types the constants), `PinsInvariant`:
`Spec => []PinsInv`, and from it `BackReferencesAreFaithful`,
`CopiesKeepTheirOwner` and `EntitiesLiveWhileHeld`. `PinsInv` is the invariant
the run checks, and it is inductive as it stands. It has three parts that need
each other: the table (an entry of an ordinary address is pinned once pins are
active, an array that is being written is still on the stack, an id belongs to
the entity it was given to), the counts (an entity lives exactly as long as
somebody holds it, entries name live entities) and the running hook (no hook
runs before pins are active; the newest id is the hook's). An address is reused
only when its count is zero, a pinned address never is, so an id keeps its
entity.

`DecodeLifetimeProofs` proves, for any classes, slots per entity and number of
entities, tokens and statements of user code (`LifetimeAssumption` types them):

- `HookBeforeDestructor`: `Spec => []NoDestructorBeforeHook`. The property is
  not inductive: a destructor is not called on a *flagged* object, so the
  invariant `LInv` says of each entity (`Guarded`) that one whose class has a
  hook and a destructor is flagged until its own hook succeeded. It also types
  the heap, the ids and the frames. Whatever is freed, in whatever order, the
  flag is untouched, so counts play no part in this proof.
- `DecodeInvariant`: `Spec => []CInv`, and from it `DecodeTypes`
  (`Spec => []TypeOK`) and `NamedStaysAlive` (`Spec => []NamedIsAlive`).
  `AliveInv` says that what is *known* (named by the id table, the queue, a
  frame, a reference on its way out, the result or the program, offered to the
  collector, or held by a slot) is alive, and that what is freed holds nothing;
  so everything reachable from what is known is known. `HandInv` types the
  rest, `Turns` says what each phase finds empty, `Once` that no object is
  decoded or queued twice, which bounds the queue and so `next`.
- `ReleaseInvariant`: `Spec => []DInv`, and from it `FastReleaseHolds`
  (`Spec => []FastReleaseFreesNothing`), the assertion of `decode_destroy`.
- `FoundInvariant`: `Spec => []NInv`, and from it `NothingIsLost`
  (`Spec => []NothingLeaks`).

The second argument has two halves. A step that frees nothing is `Tame`: it
changes no slot of a freed entity and knows nothing that was not known or new;
one lemma per action says so, on top of `PutTame`, which is about the common end
of every decoded value. The two steps that free, `FreeLast` and `Collect`, need
the reference count to mean something: `OthersCount`, `SlotsCount`, `DropsCount`
and `CountParts` split `Refcount` into its sources, `LastHolder` says that with
a count of one nothing but the reference being given up knows the entity, and
`GarbageUnheld` that what the collector takes for garbage is held by garbage
only. `AllPinned`, that every entry of the id table holds its entity, is what
makes an entry count. What a release gives up is computed by `Present`, a
recursive function: `PresentValues` finds its values by the least index at which
a claim fails.

The third argument is about reachability without speaking of paths. The roots
*span* the heap (`Spans`) when every set that is closed under slots and has the
frames and the result in it has everything alive in it. `Whole` says that until a
drop is noted or a hook is queued they do, but for the one entity that may be on
its way out, the array of an object's data after it was applied, when nothing
else holds it (`Lone`). Each token puts one value in one place (`Landed`, `Parted`), and
`LandedSpans` carries the claim over all of them. It needs to know what a frame
fills (`Filling`: no frame fills what another fills, an object that awaits its
data holds nothing) and that a reference never holds a reference (`Flat`): else
a write could cut something off without noting it. Freeing keeps the span
because the set without the freed entity is closed too (`SpansBeyond`). When the
last hook is done and nothing was noted, every entity is then held by a slot or
is the result, so a pin on it is not the last holder (`FastHeld`).

The fourth argument is about the same sets with all roots: a set *covers* the
state (`Covers`) when it is closed under slots and has in it everything that is
named or offered to the collector, and `Covered` says that whatever is alive is in
every such set. A step that cuts something off gives it up, so that it is
named until its turn comes (`LandedCovered`, `AssignCovered`, `FreedCovered`), and
what the collector does not free is held by something other than its suspects
(`CollectedCovered`). The delicate step is a reference given up that was not the
last (`SurvivorCovered`): the entity lost a root and is held by something that
may itself be reachable from it alone. It was offered to the collector in its
place, a reference's value in place of the reference (sound because references
are flat); or it was a pin released fast, and everything is reachable from the
result; or it was discarded by the caller, unoffered. Then it has to be a possible
root already or made of arrays, of which there are no cycles (`Trees`: what is put
into an array is never one that is still being filled, because those have no id
yet). `Returning` says that the decoder sees to that: when nothing was noted and
no hook was called, the result is offered unless no object or reference has an
id, and all of those have one (`HaveIds`). `Unrooted` says that nothing else is
given up unoffered.

`GraphCodecProofs` proves, for any graphs the program can hold, any depth limits
and any frames made of tokens that exist (`EncoderAssumption`,
`DepthAssumption`, `FramesAssumption`), `WalksInvariant`:
`Spec => [](EncInv /\ DecInv)`, and from it

- of the encoder, `EncoderTypes` and `WhatIsHeldIsReleased`
  (`Spec => []HoldsReleased`). "Nothing is held at the end" is not inductive;
  `HoldsOwed` is: what is held of a node is the sum, over the tasks of the
  agenda, of how often a task's list has the node. The sum is the cardinality
  of a set of places (`Sum`, with `SumConcat`, `SumHead`, `SumZero`, `SumOnes`),
  so no induction over sequences is needed. `StepKeeps` says that a step that
  replaces the first task by tasks whose lists are what it retained keeps the
  sum; each action has one lemma that brings it into that form. `WalksNest`
  says that array walks end in the opposite order of their beginning, so that
  the token an end rewrites is still the one its beginning wrote; `HooksFirst`
  that an id is given back while it is still the newest.
- of the decoder, `DecoderTypes` and `DecodedIsWellFormed`
  (`Spec => []DecodedWellFormed`), whatever the frame says. `MissingIsComing`:
  what an entity has and what the agenda will put into it are together what its
  token announced. `ReferencesChecked`: a reference is checked, or will be, and
  nothing is put into it after its check. `SharedSealed`: no array that is still
  to be filled is in the contents of an array that has an id, and none but the
  contents' own tasks fill an array that will get one; if no reference was met
  since a shared array began, it holds none. All actions that read a value are
  one case (`ReadStep`: a known value or a new entity, and the tasks to read
  it). The contents of an array are the least closed set (`ContentsLeast`), which
  grows by the new value and its contents, only where the array filled is inside
  (`ContentsGrow`): that is why an array never comes to contain itself.
- of both, `OneCopyOfEach` (`Spec => []SameIdentity`) from `IdentityInvariant`.
  An object with one holder is written without an entry in the id table, so
  "written once" is not a matter of the table alone. `Private` is the greatest
  set of nodes with one holder that is itself a private array, up to the
  argument. `Provenance` says that a value reached through nothing shared, which
  no task holds, is in a private array; so an object the encoder takes for
  unshared is private (`UnsharedIsPrivate`). `PrivateOnce` says that a private
  node is visited once, in the one walk of its holder, and `TokensNamed` that
  any other object or reference written has an id and is referred to from then
  on. `WrittenOnce` follows for every action, also when an end takes a prefix out
  of what is written (`Removed`). `OwnTokens` says of the decoder that each
  entity has a token of its own.

`RoundTripProofs` proves of `GraphCodec`, for the same constants,
`RoundTripInvariant` (`Spec => [](TraceInv /\ FollowInv)`), and from it
`FramesAreAccepted` (`Spec => []FrameAccepted`), `CopiesHaveTheShape`
(`Spec => []SameShape`) and `TablesAgree` (`Spec => []IdsAgree`). The encoder is
done before the decoder starts, so no invariant can compare the two walks step
by step: when the decoder reads a token, the encoder's agenda of that moment is
gone. The invariant therefore speaks of a *run*: a sequence of states a decoder
goes through when it reads what was written (`RunStep` says how one follows from
another). It is not part of the model; the invariant says that one exists.

- While the encoder writes, `TraceInv` says that there is a run of what is
  written so far whose last state agrees with the encoder (`Matched`): it has
  one task for every task of the agenda, at the same depth, in the slot the
  value belongs to (`AllTrack`, `SlotsOK`); what it made are copies of nodes,
  slot by slot (`ContentsOK`); its ids are those of the encoder's table, but for
  the id of an object whose hook is running (`IdsOK`); it has seen as many
  references. An encoder that failed writes no frame and is let off.
  A depth the encoder lets pass is one the run lets pass, because it is the same
  number.
- Two things stop the run from being the decoder itself. Whether an array gets
  an id is decided when its walk ends: until then the prefix that announces a
  shared array may be taken out again, so the run leaves prefixes out (`core`),
  keeps which arrays have one (`shared`) and where each token lies (`loc`;
  `Layout` relates the three to the bytes), and has an end for every array. When
  a prefix is taken out, `loc` moves and the run stays. And the run has ends that
  do nothing and no checks of references, the decoder the reverse.
- While the decoder reads, `FollowInv` says that it is in a state of the run of
  the finished frame (`Following`): the same entities, ids, count of references
  and result, at the place `loc` gives, and tasks that are paired in order
  except for those of one side only (`Pairing`). From the last such state
  (`Settled`) each action of the decoder is shown to be the run's next step, or
  a check, which passes because in a run no reference holds a reference
  (`Flat`). No refusal can be taken (`FrameAccepted`), and a decoder that is
  done is where the run ends, with no task left: `SameShape` and `IdsAgree` are
  then what `Matched` says (`Arrived`).

The run needs the invariants above: `KnownAgain` of `IdentInv`, that a written
object or reference is known by its id; `EncInv`, that walks nest and a hook is
answered first; `LinkInv`, that the decoder of our frame reads `body`.

`TableCodecProofs` proves, for any number of rows, columns and tables and any
statements of hooks (`TableAssumption`: there are at least two rows, tables
enough for them, and the value of a hook is no scalar):

- `RowHoldersCounted` and `RowsWrittenAsTheyWere`, of the encoder. Its part of
  the invariant, `EncInv`, says of each gathered row (`Gathered`) that the pointer
  leads to a table whose cells are still those of the start, which is immutable
  or pinned, and is no `ArrayObject`'s storage (`PinsGuard`): a hook can then
  write to it only through a holder that separates, because the pin makes its
  count at least two. `FrameInv` places each cell in the frame.
- `DecodedCellsReleasedOnce` and `KeyReferencesBalance`, of the decoder, for
  frames of any origin. `DecInv` says for each phase which cells are in the
  buffer, which in rows and how often each key was taken: `Filling` and
  `ColumnRead` for tables, `RowByRow` for row sets; the error paths release what
  it lists.
- `TablesComeBack`, of both. `ReadInOrder` counts the cells read, `Place` says
  which cell comes next on either side, and `ReadAsWritten` follows cell by cell.

`UserCodeProofs` proves of `ClassResolve`, for any names, classes, filters and nesting
(`ClassAssumption`), `ClassesFoundByPolicy` (`ResolveSpec => []ClassesByPolicy`) and
`NativeSerializationUndisturbed` (`ResolveSpec => []NativeContextKept`). `ClassInv` says
of every decode on the stack, not only the topmost, that its caches agree with
its own filter and with classes that exist (`Remembers`; classes are never
undefined), that user code was called by the decode under it for a class that
one allows, and that the native state is a function of the stack (`ContextOf`),
so that each return puts back what the call found.

`KeyedStoreProofs` proves, for any keys, normalisation of keys, contexts,
session ids, frames, threads and nesting (assumptions: `TermsAssumption`,
`ConfigsAssumption`):

- `CachesAreSound`: `SpecKeyed => []KeyedInv`. The invariant types the state and
  says that a cached subkey is the one of its key and label and that cached
  midstates belong to their block. It is inductive, but only because every way
  the caches change is one of a few operators: `LoadKeyIsExact`,
  `SubkeyIsExact` and `DerivedTagIsExact` say what each leaves behind.
- `KeyedStoreImplements`: `SpecKeyed => ImplementsSealedStore`. With sound caches
  the tag a call computes is `Tag(seal, frame)` (`TagsAreOfSeals`); each action
  then is a `Put`, a `Fetch`, a `Damage` or a refusal of the abstract store. A
  call under way needs its payload to be still there when it resumes
  (`PayloadsHeld`).
- `FetchedFramesWereIssued`: the store's tags were all issued (`StoreIssued`),
  tags of different seals differ because the label of no permitted context is a
  session's, and equal seals fetch what was issued.
- `RetiredKeysAreGone`: `SpecKeyed => []RetiredKeyGone`, together with the fact
  that the keys configured are ones that can be (`ConfiguredKeys`): the cache is
  emptied before a subkey of the new key is derived, not after.

`SessionStoreProofs` proves, for any requests, keys, ids and values
(`TermsAssumption`, `SessionAssumption`), `StoreMatchesHistory`
(`Spec => []SessionInv`) and `SessionKeepsPromise`
(`Spec => ImplementsSessionPromise`). `StoreMatches` ties what the store has for
an id to how the id was left; it is inductive together with the types and with
the fact that a request that got to a session has no unusable key
(`KeysUsable`). Each action is a step of the promise or a stutter: what
`Decode` makes of bytes that match an id's history is in `MayFind`, by cases on
the history; the case "touched by someone else" rests on every tag in the store
being that of some save. Bytes that verify may fail to be restored and are then
destroyed; `VerifiedMayBeFound` shows that they are bytes the request may find,
so that no other data get as far as a hook, a class or an autoloader.

`FrameProofs` also proves `EncoderStaysWithinBudgets`:
`Spec => []NothingRefused`, for any sizes of hash tables that
cover the columns and lengths, any allowance, limit and number of items
(`BudgetsAssumption`). The property has one exception: objects that are decoded
without their `__unserialize` spend the allowance for rows too (`SECURITY.md:61`),
the encoder does not count them and cannot, since it depends on the reader's
classes, so a frame with such objects and tables that use up the fixed part may be
refused. A hook that is lost stays lost (`LostStaysLost`), so the invariant need
hold only until then. That nothing is refused says nothing about the encoder;
`Covered` does: what the decoder will charge for the items so far is at most the
encoder's excess plus 64 per byte, the excess is within the allowance, and the
charges for a prefix are at most those for the whole. `Quotients` turns the
divisions in which both sides compare into products, `SizesAreNumbers` bounds
one row by its excess and its bytes.

And of `WireNumbers`, for any width of a word and of a group of bits of which the
word has a whole number and one more (64 and 7; `NumbersAssumption`), any host
widths, any values of a word's width and runs of any length:

- `NumbersReadAsWritten`: `NumberSpec => []NumbersUnambiguous`, for any bytes;
- `RunsComeBack`: `NumberSpec => []RunsReadBack`.

`Pow2`, `VarintPut`, the sums of an arithmetic run and the bytes of a run are
recursive functions: for each a lemma proves that its recursion has a solution,
by induction over the set of numbers up to which one exists (`NumberInduction`),
and the next what the function does. `ZigZagBack`, `AddDifference` and `WrapSigned`
are the arithmetic of words, from the uniqueness of quotient and remainder.
`NumberInv` says that the bits known so far are below the next group's; with
`shift` a multiple of the group's width a byte either ends inside the word or is
the one that has room for one bit (`ChunkFits`). `RunInv` says that the number
being read is its known bits plus what is left of it above them, that what is
left is next on the wire with the numbers after it, and that the cells stored so
far are a prefix of the run; `ByteOfNumber` and `TakeNumber` are its two steps.

Every safety invariant that a run checks is stated by one of these theorems. Only
model-checked is what is out of the prover's reach: liveness under fairness
(`TableEnds`) and ENABLED. The two runs that expect a violation show a
disagreement between code and comment, and have nothing to prove.

## 5. What is left out

- In `GraphEncoder` hooks choose an outcome but do not change the graph; what
  they can do to the encoder's memory is `EncoderPins`. Keys, scalars' values
  and class names are not data of the graph; duplicate keys cannot be encoded.
- Nested encodes, exceptions in cleanup, and the identity test's special case
  for an object whose property table is shared are not in `GraphEncoder`. Tables,
  budgets and numbers are modules of their own and not composed with it: ids in a
  table follow the order of its cells on the wire, which `TableCodec` has without
  ids.
- `GraphDecoder` has neither class resolution (`ClassResolve`) nor typed slots:
  those only refuse a frame, which `DecodeLifetime` allows at any token. NULL and empty
  array registrations (`ID_NULL`, `ID_EMPTY_ARR`) own nothing and are left out.
- In `DecodeLifetime` a hook works on objects and references (arrays are values
  and separate on write); a destructor may keep one entity and throw. A legacy
  hook that fails is not modelled. Enum cases, which are never dropped last,
  and default property values are not entities.
- `TableEncoder` leaves out cells that are PHP references, which show their
  holder's writes by intent, and takes whether a list has the shape of a table as
  given. An empty list is never a table; `TableDecoder` starts at one row, since
  with none there are no cells.
- `Budgets` leaves out the limits on hash chains and on comparisons, which bound
  the work of one side and need no agreement, and properties that an object's
  class gives it, which only add to the charge.
- `ClassResolve` leaves out the caches of lowercase names, of names checked for
  validity and of property tables: they depend on the name or the class alone.
- `KeyedStore` and `SessionStore` take HMAC as a free constructor: that two tags
  differ unless key block and message agree is assumed of it. The registration
  with APCu and its status are left out. Threads other than one are left to the
  proof; so is a second slot of the store, of which the run has one.
- `SessionStore` reads, decodes and, on failure, destroys in one step: what
  other requests do to the id in between is left out. It encodes the data as they
  are when the walk ends; a walk holds the arrays it meets, so a hook can change
  only objects in them, and the model allows more than that. A hook that
  regenerates the id keeps the old session and does not save it first. That the
  digest itself may be unavailable is `KeyedStore`'s `ops`.
- SHA-256, argument parsing, INI handling and the benchmarks hold no state the
  properties speak of.

## 6. Plan

| Next | Models | Worth proving |
|---|---|---|
| tables in `GraphCodec` | ids of values in the cells of a table | the run of `RoundTripProofs` with rows and columns |
| typed slots | an object's declared properties, and where they and a duplicate key meet | |
