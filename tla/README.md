# Incremental PIR: specification, model checking and proofs

This directory specifies the code of the repository in TLA+: the incremental
offline/online private information retrieval protocol of `inc-pir/`, its server and its
load generators, and the two baselines, `baselines/ck-pir/` and `baselines/dpf-pir/`. TLC
checks the modules on small instances; the theorems in `*Proofs.tla` are checked by TLAPS
and hold for every value of the constants.

    tlc -config IncPir_one_set.cfg MCIncPir.tla      # model checking, see the table in 3
    tlc -config NetServer_losses.cfg NetServer.tla
    tlapm IncPirProofs.tla                           # proofs, see 4

## 1. The system

A client wants block `i` of a server's database without telling `i`. In an offline
phase it sends the server descriptions of pseudorandom sets of indices and gets the
parity (exclusive or) of every set: the *hints*. To query `i` it picks a set that
holds `i`, removes `i` (or, with a small probability, another element), sends the
rest, and combines the parity that comes back with the hint of the set. The set is
then *refreshed*: replaced by a fresh one that holds `i`. When the database grows, a
*batched addition* moves some elements of every set to the new rows, and the server
sends the parity of the difference. The baselines solve the same problem for a database
that does not change: CK-PIR with sets given by a *puncturable* function and a shift,
DPF-PIR without hints, with two keys of a *distributed point function* for two servers.

| component | state | operations | interacts with |
|---|---|---|---|
| `PIRClient` (`inc-pir/src/client.cpp`) | `dbrange`, `localhints.sets`, `localhints.parities`, `cur_qry_setno`, `cur_qry_blk`, `mk` | `generate_offline_query`, `update_parity`, `generate_online_query`, `query_recov`, `generate_refresh_query`, `refresh_recov`, `batched_addition_query` | hands queries to the driver, takes replies |
| `PIRServer` (`server.cpp`) | `dbrange`, `*db` | `generate_offline_reply`, `generate_online_reply`, `add_elements`, `batched_addition_reply` (`delete_element` and `edit_element` change nothing) | keeps no state about clients |
| set descriptions (`pir.hpp`) | `sk`, `shift`, `aux` = list of (range, count) | expansion, inverse search, difference: written out separately in client and server | both sides must agree on every index |
| permutation (`adprp.cpp`) | none | `cycle_walk`, `inv_cycle_walk` over a 7-round Feistel network | the element of a set at a position, and the inverse |
| `kdf` (`pir.cpp`) | none | key of slot `b` from `mk`, `sk`, `b mod 256` | client and server |
| `NetServer`, `net.hpp` | loop counters, one connection at a time | `run`, `run_offline`, `run_refresh`; `recvMsg`, `sendMsg`; the copies in both baselines | TCP, one request per connection |
| `NetClient`, `*_client_eval.cpp` | a `PIRClient`, threads | one connection per request | several threads share one client |
| serialisation (`serial.hpp`, twice) | none | `serialize_*`, `deserialize_*` | client and server have to cut flat lists alike |
| `ck-pir` (`puncprf.cpp`, `client.cpp`, `server.cpp`) | `sets` = key, shift and hint; `punc_x`, `cur_qry_setno` | `Punc`, `EvalPunc`, `Eval`, `BreadthEval`; key generation, query, recovery, refresh | same network layer |
| `dpf-pir` (`dpf.cpp`, `hashdatastore.cpp`, `serial.hpp`) | the server's records | `Gen`, `Eval`, `EvalFull`, `EvalFull8`; `answer_pir1..5`; conversion of keys and replies | two replies are combined |

What is hard here, and what makes each part correct:

* **The hint of a set and its description change at different times.** A query for
  a batch or a refresh changes the description when it is *sent*; the parity
  changes when the reply *arrives*. Correct: at rest, every parity is the parity of
  what its description expands to (`HintExact`), and the whole is a store of hints in
  which none of this shows (`ImplementsHintStore`).
* **Three pieces of code compute where the elements of a set are**: the client's
  search by the inverse permutation, the client's expansion, and the server's
  difference. Correct: they agree (`FindAgrees`, `DiffParityIsDifference`), and
  slots never overlap, so a set keeps exactly `setsize` distinct indices
  (`SizeConserved`, `BatchExchanges`).
* **The database grows while clients work.** Correct: an index keeps its meaning,
  a query computed before an addition is answered right after it (`RecoverExact`),
  and the server, which checks no index, stays inside its database
  (`ServerInBounds`).
* **Numeric edges**: counts are `uint32_t` and decremented unchecked, remainders
  are taken by computed sizes, `cycle_walk` throws outside of its range
  (`SoundNeverThrows`, `NoZeroDivisor`, and the first finding below).
* **Probabilistic failures that leave no trace**: no set holds the index and set 0
  is used all the same; the index itself is sent. The hint that a refresh stores
  afterwards is wrong and the client does not know.
* **Threads share a client**: all queries are generated before the first is answered, and
  the members of the client are read and written by all threads without a lock. Correct
  is exactly what `RightExactlyForTheLastSet` and `RefreshFitsIfAppliedInOrder` say; a race
  can exchange answers and not invent one (`RacesOnlyExchangeAnswers`).
* **The network layer**: the server loops count connections and abort on a request of the
  wrong phase, while the client's requests come from overlapping threads; a failed receive
  counts as a served client; end of file in the middle of a message. Correct: as long as no
  client is lost nothing of it is met (`FailsOnlyAfterALoss`, `AddsBetweenThePhases`), and
  after a loss every client is served that the server is left for (`ClientsAreServed`).
* **A permutation and its inverse on blocks of any length**: for an odd length the halves of
  a block differ and trade their lengths in every round. Correct: `RoundTrip`, `Returns`.
* **The same tree walked in several ways**: `Punc` and `EvalPunc` against `Eval` and
  `BreadthEval` (`PuncturedAgrees`, `BreadthAgrees`, `KeysAvoidThePoint`); `Gen` against `Eval`,
  `EvalFull` and the hand-unrolled `EvalFull8` (`ServersFallTogether`,
  `ServersShareThePoint`, `EveryLeafInItsPlace`).
* **Tables and loops written out by hand**: the 256 cases of `answer_pir4`, the masks of
  `answer_pir5`, the accumulators of `answer_pir1` (`PartialSums`, `AnswersAreTheSelection`, and
  the third finding below).
* **Two sizes that should agree come from two arguments**: `setsize` comes from `-g`,
  the height of CK-PIR's trees from `-d` (`SetHoldsIndex`).
* **Keys without a length**: the padding of a DPF key is recognised by its value
  (`KeysAreCutAlike`, `AnswerIsExact`, and the second finding below); blocks, keys and pairs of the other two programs are
  counted by the length of a flat list (`RoundTrips`).

`PROJECT.json` lists every hazard with its line and the properties about it.

## 2. Modules

| module | what it is |
|---|---|
| `PirSets` | constants (`Key`, `Prp`, `Kdf`, `MaxDb`, `UModulus`) with their assumptions; descriptions, evaluation, search, parities, the difference of a batch: pure operators, no recursion |
| `IncPir` | the client, the server and the call in flight between them: one action per method; the properties; the inductive invariant `IInv` |
| `HintStore` | what client and server promise together, without descriptions, parities or messages; `IncPir` instantiates it with its refinement mapping |
| `Adprp` | the Feistel network, its inverse and the cycle walks, one round per step |
| `NetServer` | seven accept loops and the client programs they serve, one connection per request |
| `SharedClient` | the threads of three load generators on one client object, one word of a block per step |
| `Serial` | the conversions of all messages of the incremental scheme and of CK-PIR |
| `PuncPrf` | `Punc`, `EvalPunc`, `Eval`, `BreadthEval`, one iteration of a loop per step |
| `CkPir` | client and server of CK-PIR, one action per method |
| `Dpf` | `Gen` level by level, then one evaluation by each of two servers, one call of the recursion per step |
| `Bytes` | bytes and their bits, for the two modules below |
| `HashDataStore` | seven ways of answering on two servers, one iteration per step |
| `DpfPir` | a whole retrieval with DPF-PIR, conversions included, one action per call |
| `MCIncPir`, `MCAdprp`, `MCPuncPrf`, `MCCkPir`, `MCDpf`, `MCClients` (`SharedClient` and `Serial`), `MCDpfPir` (`HashDataStore` and `DpfPir`) | values of the constants for TLC, and the two state constraints |
| `IncPirProofs` (with `PirSets`), `AdprpProofs`, `NetServerProofs`, `ClientProofs` (`SharedClient`, `Serial`), `PuncPrfProofs`, `CkPirProofs`, `DpfProofs`, `DpfPirProofs` (`HashDataStore`, `DpfPir`) | the proofs |

`PirSets` is the data of `IncPir`. The other modules stand for themselves and supply what
these assume: `Adprp` that the inverse permutation undoes the permutation, `NetServer` that no
batch is answered before the server has added its elements (the guard of
`BatchedAdditionReply`) and that requests overlap only as `SharedClient` has it, `Serial` that
what arrives is what was sent. In the same way `CkPir` takes the function of `PuncPrf` as a
parameter, `HashDataStore` begins with two indexings that differ at the point, as `Dpf` shows,
and `DpfPir` reduces the tree of `Dpf` to the nodes of one level.

**Data.** Blocks are symbolic: the block stored at index `i` is `{i}` and exclusive
or is symmetric difference, so a parity *is* the set of indices that occur in it an
odd number of times. Nothing is lost for the properties: an equation between parities
that holds for all block contents is an equation between such sets. In `IncPir`,
`cycle_walk` is a parameter `Prp`, of which only that it permutes `0..range-1` is assumed;
`kdf` is a parameter `Kdf`; the client's `mk` never changes and is left out. Every random
choice (`RAND_bytes`, `rand()`, Bernoulli draws) is an existential quantifier over the values
that it can have. `accum_range`, which the code sums up in three loops, is the number
of rows of the slots before (`AccumRange`), a cardinality instead of a recursion.
Counts are reduced modulo `UModulus`, which stands for 2^32; the running sum `lsum` is a
`double` in the code and its conversion to 32 bits, where it exceeds them, is taken
modulo 2^32, as 64-bit builds do it.

**`IncPir`, state.** `dbrange`, `sets`, `parities`, `cur_qry_setno`, `cur_qry_blk` are the
members of `PIRClient`; `dblen` is the server's `dbrange` and the size of its vector,
which only `add_elements` changes, both together. `pc`, `cur_qry_idx` and `net` belong
to the driver: what the client called last, with which index, and the query or reply
that the driver carries. Two history variables say what went wrong, if anything:
`sound[s]` becomes FALSE when the hint of set `s` is spoilt, by a refresh after a query
that did not recover its block (it fell back to set 0 or kept the index), by a refresh
that kept its index, or by a batch that drew a slot more often than it had elements;
`curOk` says whether the current query went through a sound set that held its index
and removed it. They are conditions on the random choices alone, so a property with
`sound` in it says: *unless one of these choices was made*, the state is right.

**`IncPir`, actions.** One per method call, the whole method each: `GenerateOfflineQuery`,
`GenerateOfflineReply`, `UpdateParity` (after the offline phase and after batches),
`GenerateOnlineQuery(idx)`, `GenerateOnlineReply`, `QueryRecov`, `GenerateRefreshQuery`,
`RefreshRecov`, `AddElements(n)`, `BatchedAdditionQuery(n)`, `BatchedAdditionReply`, and
`BatchedAdditionThrows` for the exception of `cycle_walk`, after which nothing more
happens. `AddElements` may come at any time after the offline phase, also while a query is
in flight: the server serves many clients. A batch is answered only once the server
holds the rows of it (`dbrange <= dblen`): all drivers of the repository call
`add_elements` first (`main.cpp:144`, `net_server.cpp:188`).

**`HintStore`.** A set has a hint, a set of blocks of the database, or is not good. `Ask` names
a block and a set; `Answer` is that block if the set was good and included it; `Drop` takes the
set out of use until `Replace` puts another one in its place, good only after a right answer;
`Trade` moves old blocks for new ones. The mapping: `good` is `sound`, the hint of a good set is
the expansion of its description, but while a batch is in flight that of the description
*before* it, since this is what the parity stands for until the reply comes.

**`NetServer`.** `mode` is the loop that the server program runs: `run`
(`online_server_eval`), `run_refresh` (`refresh_server_eval`), `run_offline` and `baseline`
(`offline_server_eval`, without and with `-b`); `ck_online` and `ck_offline`, the loop of
CK-PIR with and without `-o`, and `dpf`, that of DPF-PIR. CK-PIR's `run_refresh` is called
by no program. `pc`, `phase`, `i`, `cur` are the place in the
loop, its counter and `client_fd`; `open` the descriptors that are not closed; `handled` is
`handled_task`; `backlog` the kernel's queue in front of `accept`. The client program sends the
requests of `Script` in sequence, then one request from each of `Load` threads. A connection
goes through `connected`, `sent`, `answered`, `done`. `Kill` ends the client program at any
time; what it had sent stays readable (`gone`), and a message that is not complete ends in
end of file (`cut`), in which `do_read` spins (`EndOfFile`), or in a failed receive when the
connection breaks instead. An intact client may be too slow for the 6000 seconds of `do_read`
(`ReceiveFails`), after which it waits for its own 6000 seconds and asserts (`TimeOut`). A
reply to a client that has left is lost or ends the server by SIGPIPE or by
`assert(sendMsg(...))` (`ReplyKills`). What the requests carry and the time measurements are
left out; `started` is left out because it is `handled > 0`.

**`SharedClient`.** The main thread generates the queries of `online_client_eval`,
`refresh_client_eval` or CK-PIR's `online_client_eval` one after the other on one client;
`Spawn`, `Exchange`, and the recovery of each thread interleave. A set is the set of its
indices (CK-PIR's threads work on sets whose keys have no collision here; collisions are in `CkPir`), a
block two words that an assignment copies one after the other, which is what an
unsynchronised copy does in a build: any interleaving of words. `used`, `overlap` and `applied`
are history.

**`Adprp`.** A block is the set of the positions of its one bits. One run of the module is
one call of `cycle_walk` and one of `inv_cycle_walk` on its result; `tmp`, `cnt`, `i` are the
variables of the code. `trail` is a history variable that records the block before every round;
`w` and `back` count the calls of `feistel_prp` made and undone.

**`Serial`.** One action per message kind and direction. A buffer is its flat lists of fields,
cut up by the receiver as the code does: 250 fields per block, two per pair, 16 bytes per
punctured key, four bytes to a field in the offline query of CK-PIR.

**`PuncPrf`, `CkPir`.** A node label is the path of derivations that leads to it: labels are
equal exactly if they come from the same place, and a leaf's value is a function of its
label. In `CkPir` a set has `Elements` points among `Points`; `malloc` leaves a key of any value
(`GenerateSetkeys` starts from an arbitrary one); `refreshed` and `drawn`, the point that the
last refresh drew, are history. The client computes `lgn` from the size of the database (the
floor of its logarithm), so no set has more elements than points and there are no more points than
blocks. `SetSize` is independent of both: the programs compute it from `-g`, which the readme
calls the *upper* logarithm. With `-g 14 -d 10000` it is 128, a set has 64 elements, and a refresh
may draw a point outside of the set; with a larger `-g` one outside of the tree, for which `Eval`
throws when the key of the set has been replaced already (`GenerateRefreshQueryThrows`).

**`Dpf`, `HashDataStore`, `DpfPir`.** The AES generators and `ConvertBlock` are parameters, a
seed and a packed leaf are sets of bits. `stack` holds the calls of the recursion that are still
to be made, `ptr` the eight pointers of `EvalFull8`, `seen` (history) the nodes that a server has
computed. `HashDataStore` writes the switch of `answer_pir4` and the table of `answer_pir5` out
byte by byte (`Cases0` to `Cases240`, `MasksLow`, `MasksHigh`), since a misprint in one row is
what could be wrong with them. `DpfPir` has keys in bytes and words, `0xFF` included. Where two
modules are proved about together one of them has names of its own for its specification:
`SerialSpec` in `Serial`, `RetrievalSpec` in `DpfPir`.

## 3. Model checking

All runs explore their state space completely, within the bounds below and, in two of them,
a state constraint. `UModulus = 16` stands for 2^32 in `IncPir`: it is larger than any count
without an underflow and small enough to be reached by one.

| run | instance | checks |
|---|---|---|
| `one_set` | 1 set of 2 of 3 rows, 2 keys, up to 7 rows, batches of 1 or 2; constraint `SpoiltOnlyWhenSmall` | `TypeOK`, `HintExact`, `SoundNeverThrows`, `SizeConserved`, `NoZeroDivisor`, `ServerInBounds`, `FindAgrees`, `BatchExchanges` |
| `two_sets` | 2 sets of 2 of 3 rows, 1 key, up to 4 rows | `RecoverExact`, `ImplementsHintStore` |
| `kicks` | 1 set, up to 6 rows | violation of `KicksEllIndices`: the first finding |
| `losses` | all seven server loops, 3 threads, backlog of 2, two runs of the client, at most one kill and one slow client | `FailsOnlyAfterALoss`, `AddsBetweenThePhases`, `ThroughputExact`, `LeaksOnlyFailedReceives`, `ClientsAreServed` |
| `clients` | 2 threads on one client, 2 sets of 2 of 4 blocks of two words, all three load generators; beside them every message of both programs, up to 2 elements to a list | `RightExactlyForTheLastSet`, `RacesOnlyExchangeAnswers`, `RefreshFitsIfAppliedInOrder`, `RoundTrips` |
| `adprp` | 7 rounds, ranges 1 to 20 (blocks of 1 to 5 bits), 8 keys | `TypeOK`, `RoundTrip`, `Returns` |
| `puncprf` | trees of height 1 to 5, every point punctured, every point evaluated | `PuncturedAgrees`, `BreadthAgrees`, `KeysAvoidThePoint`, `Returns` |
| `ck_exact` | 2 sets of 2 of 4 points over 5 blocks, one key with a collision and one without, `setsize` 8 | `TypeOK`, `HintsUntilRefreshed`, `RecoversExactlyWithHint`, `SetHoldsIndex`, `RefreshExactlyAtPoint` |
| `dpf` | 5 bits of which 1 is packed into the leaves, every point, each evaluation on each server; constraint `OneAfterTheOther` | `LeavesDifferAtThePoint`, `ServersFallTogether`, `EveryLeafInItsPlace`, `ServersShareThePoint` |
| `dpf_pir` | stores of 4, 8, 16 and 32 records, every byte as the first of an indexing, six versions; beside them keys of 87 and of 105 bytes (trees of 10 and 11 levels), final words that end in 0xFF or not, a client that asks twice | `PartialSums`, `AnswersAreTheSelection`, `KeysAreCutAlike`, `AnswerIsExact` |
| `dpf_keys` | keys of 87 bytes | violation of `KeysArriveUnchanged`: the second finding |
| `pir3` | a store of 8 records | violation of `EveryVersionSelects`: the third finding |

`clients` and `dpf_pir` check two modules each that share no state. `MCClients` and `MCDpfPir`
extend both and choose in `part` which of the two a behaviour is about; the other stays in
one of its initial states. The behaviours are those of either module by itself, not their
product.

**Why the bounds are enough.** `one_set` has two keys whose permutations differ, and a
derived key of slot 0 that differs from the set key, so that a search under the wrong key finds
other elements. An underflow needs two batches (a slot with one element, drawn twice), a slot
in the middle three, and the exception of the server one batch after an underflow: seven rows.
The constraint pays for them: from five rows on it follows one key, and of the spoilt hints only
those that an underflow has spoilt; with six rows batches only; with seven only what comes
after an underflow. `two_sets` is the smallest instance where a query can choose a set, fall
back to set 0, and refresh one set while the hint of the other must stay. `losses` has a thread
that waits for room while another is served and a third replies; a second run of the client
finds what the first has left behind. `clients` has two threads because all that a third could
add is one more reply to mix up, and lists of two because a cut at the wrong multiple shows at the
second element. `adprp` covers odd and even lengths, ranges just below, at and
above powers of two, and walks of several calls. `puncprf` has odd and even heights with at
least two levels in either half. `dpf` is the lowest tree in which `EvalFull8` goes on below its
eight subtrees; its constraint lets the second server begin when the first has returned, since
the two share nothing but their keys. `ck_exact` has a `setsize` four times that of a set and twice that
of the tree, so that a refresh draws inside the set, outside of it with and without a collision,
and outside of the tree. `dpf_pir` has stores of two groups of eight and, with 32 records, an
indexing of four bytes; its retrievals take the least height that `EvalFull8` accepts (ten: seven
levels and 128 bits to a leaf) and the next, because 87 and 105 bytes leave three bytes and one
beside the padding. Every mutant listed in `PROJECT.json` is found within these bounds.

**Deadlock** is checked in `clients`, where the threads of a load generator have to end and may
not wait for each other (a message that has been read is a stutter of its own, `MessageRead`).
The other runs do not check it: they stop where the program does, when its loops
have returned or a server has ended or a call has thrown, and in `IncPir` at the bound on the rows.

**Fairness.** `NetServer` assumes weak fairness of the server and of every thread of the client:
each is a sequential program whose system calls return when they can. Nobody has to kill or to
start a program, so `Kill` and `StartAgain` are not fair; that a receive runs into its time limit
is one of the steps the server may take (`MaxFails` bounds how often), never one it has to.
`Adprp` and `PuncPrf` assume weak fairness of `Next`: a function that can take a step takes it.
The other modules assume none. Their drivers may stop after any call, and their properties are
safety properties.

### Findings

`kicks`: "kick out ell random indices" says the comment at `client.cpp:239`. The `ell` elements
are drawn with replacement against the counts of before the batch (`client.cpp:236-251`). A slot
can be drawn more often than it has elements; its `uint32_t` count wraps around, the set has
more than `setsize` indices, the client skips the slot from then on, and the hint is wrong for
good. A later batch of the set makes the server throw (`BatchedAdditionThrows`).

`dpf_keys`: "assert(equal_query(query, query1))" says `test.cpp:56` of a query that has been
serialised and read back. A key has no length of its own; `deserialize_query` recognises the padding
of its last word by the value 0xFF (`serial.hpp:255`), and a key that has an 0xFF in its last one to
three bytes comes back shorter. The last bytes of a key are pseudorandom. `KeysAreCutAlike` says
exactly when this happens and what is left, `AnswerIsExact` what it does to the answer: both servers
lose the same, which spoils it by records of the one leaf of the point only.

`pir3`: "if(indexing.isSet(i)) result = _mm256_xor_si256(result, data_[i])" says the comment at
`hashdatastore.cpp:267-268` of an answer, and `bench.cpp:64` measures `answer_pir3` as one more version
of it. That version brings the bits of an indexing byte to the sign of a quadword with
`_mm256_slli_si256(x, 1)` (`hashdatastore.cpp:353`), which shifts by bytes: of every eight
records only the last can be selected at all. The server program calls `answer_pir2`.

### What else the code does

The models keep the following as the code has it, and the property in parentheses says how far
it goes.

* `generate_online_query` searches slot 0 under the set key only if `shift != 0`
  (`client.cpp:101`) and under a derived key otherwise (`client.cpp:107`), while it expands slot 0
  under the set key in both cases (`client.cpp:136`). A set with shift 0 is reported for indices
  that it does not hold (`FindAgrees`: this is the only disagreement of the two).
* `online_client_eval.cpp:66` generates all queries before any is sent, on one client, and all
  replies are combined with the hint of the last (`RightExactlyForTheLastSet`: exactly the
  threads whose query used the same indices come out right).
* `do_read` takes a read of 0 bytes, the end of the stream, for progress (`net.hpp:158`), so a
  client that is killed between connecting and the end of its request leaves the server in that
  loop (`FailsOnlyAfterALoss`: nothing but a loss does; `ClientsAreServed`). A failed receive
  counts as a turn of `run_offline`, whose next phase may then begin too early.
* CK-PIR's `find_valid_key` gets its key by value (`client.cpp:23`, `67`), so a key is not
  replaced when it has collisions (`HintsUntilRefreshed`, `RecoversExactlyWithHint`: this does
  no harm).
* CK-PIR's `generate_refresh_query` punctures the fresh key at `punc_x`, the position of the
  query before, instead of the one that its new shift moves to the index (`client.cpp:118`):
  the refreshed hint is right only if the two give the same (`RefreshExactlyAtPoint`).
* The point that it draws is one of `setsize` (`client.cpp:113`), which `-g` gives, and the set has
  `1 << (lgn/2)` elements, with `lgn` from `-d` (`client.cpp:17`). Where `setsize` is larger, the
  refreshed set holds its index only by a collision of the new key (`SetHoldsIndex`: exactly
  then), and the next query for it may find no set.
* `answer_pir_idea_speed_comparison` adds all records up, whatever the indexing (it is a lower
  bound for the benchmark), and DPF-PIR's main program meets the assertion of `answer_pir2`
  (`hashdatastore.cpp:316`) at the store of four records near the end of its loop (`main.cpp:19`).
* CK-PIR's `main.cpp:72` compares a reply that it has read back with itself (`RoundTrips` is what
  that check meant to say).

## 4. Proofs

`tlapm` checks all of them with SMT, Zenon and the temporal prover. Each is about every value
of the constants that its assumptions admit, and each has the same shape: an invariant that
is inductive, one lemma per action, and the properties as its consequences. Every safety
property and every action property of a passing run in section 3 is a theorem; `PROJECT.json`
lists them. Model-checked only are `ClientsAreServed` and `Returns`: both are liveness under
fairness, which the installed provers cannot do. (`KicksEllIndices`, `KeysArriveUnchanged` and
`EveryVersionSelects` are false.)

Three assumptions are arithmetic or data that the provers cannot compute and TLC evaluates for
the constants of the runs: what `2^n` is (`PowersDouble` in `Dpf`, `PowersOfTwo` in `Bytes`,
`LeavesArePacked` in `DpfPir`, which are true of every number), and `TablesAreRight`, that each of
the 256 rows of the two tables of `HashDataStore` names the bits of its byte. The tables are
constants, so TLC's evaluation is exhaustive.

**`IncPirProofs`**. Assumptions: `PrpAssumption` (cycle walking is a permutation
of every range), `KdfAssumption` (derived keys are keys, derivation is a function),
`SizeAssumption` (2^32 exceeds twice the database), `ParamAssumption` (`2 <= setsize < dbrange`,
at least one set). Proved for every database, set and batch size and number of sets:
`HintsStayExact` (`HintExact`), `QueriesRecover` (`RecoverExact`), `BatchesOfSoundSetsSucceed`
(`SoundNeverThrows`), `ServerReadsInBounds` (`ServerInBounds`), `TypeCorrect` (`TypeOK`),
`SoundSetsKeepTheirSize` (`SizeConserved`), `SearchFindsWhatSetsHold` (`FindAgrees`),
`NeverDividesByZero` (`NoZeroDivisor`), `BatchesExchange` (`BatchExchanges`) and
`ClientImplementsHintStore` (`ImplementsHintStore`, the refinement of `HintStore`: initial states
map to initial states and every action to one of the store or to a stutter). None of the
invariants is inductive by itself, because they say nothing about the time between a request
and its reply. `IInv` adds what is known then: `TurnsInv` (a reply answers the pending request),
`ShapeInv` (every description covers exactly the database as the client knows it, and counts
fit or have wrapped around), `OfflineInv` (before the hints there is one slot), `DiffInv` and
`HintInv` (while an update is pending the parity is that of the *previous* description, and the
reply is the difference), `QueryInv` and `RefreshInv` (what a query in flight carries, relative
to the hint that it will be combined with). `HintsLagBehindABatch` says what makes a difference
enough: while a batch is pending no description has gained a row that was there before.

The central lemma is `DiffParityIsDifference`: the server's parity of a
batch is the symmetric difference of the old and the new expansion of the set. It rests on
`PositionInjective` (two elements of a set never have the same index: permutations within
a slot, `SlotEnds` between slots), on `PositionKept` (appending a slot moves no element), and
on `XorInjective` (no position cancels another). `ExtendKeeps` shows that a batch leaves a
well-formed description whatever it drew, and one whose counts fit unless a slot
underflowed.

`SoundSetsKeepTheirSize` is proved from `SizeInv`: the elements of a sound description, pairs
of a slot and a number below its count, are `setsize` many. A batch that takes `k` elements from the
old slots gives `k` to the new one, so the elements before and after are in bijection; positions are
distinct, so the indices are as many as the elements. `BatchesExchange` follows by counting what
two expansions of the same size do not share. `SearchFindsWhatSetsHold` needs that the slot which
covers an index is the only one that can hold it and that the inverse permutation is one; the
exception of a first slot with shift 0 is part of the statement. `NeverDividesByZero` covers the
sets with underflown counts too (the rest of `SizeInv`): modulo 2^32 the counts still add up to
`setsize`, and the slots that an expansion does not skip have at least that many elements.

**`AdprpProofs`** assumes nothing but that there is at least one round, and discharges
`PrpAssumption`'s inverse: `InverseUndoesPermutation` (`RoundTrip`), `BlocksKeepLength` (`TypeOK`)
and `InverseRetracesTheWalk`, for every key, range and round function. `RoundTrip` is not
inductive: `Retraces` adds that every block on the way back is the one recorded on the way out
(`Chain`), and that only the first call began in range, which is why the way back ends there and
not earlier or later. A single round is the lemma `RoundInverse`.

**`NetServerProofs`**, for every number of threads, runs, kills and failures and all seven loops:
`LoopsFailOnlyAfterALoss`, `ElementsAreAddedBetween`, `ThroughputIsExact`,
`LeaksAreFailedReceives`, `TypeCorrect`. The invariant counts: as long as nothing is lost
(`Calm`), the turns of a phase are the replies sent in it (`TurnsAreReplies`), the requests of the
next phase are not written before these replies are read, and so the last turn of a phase is
taken exactly when its last client is served.

**`ClientProofs`**, about `SharedClient` for every number of threads, sets and words and about
`Serial` for messages of every length. `OnlyTheLastSetIsRight` (`RightExactlyForTheLastSet`):
`AloneInv` and `OwnInv` say that as long as no two recoveries overlap, the shared block is the one
that the thread in the recovery combines from its own reply and the hint of the last query.
`RacesExchangeAnswers` (`RacesOnlyExchangeAnswers`) needs no such condition: `ExchangedInv` says
that every word in the shared block, and every word that a thread has copied out, comes from some
reply that has arrived (`Answered`). `RefreshFitsInOrder` (`RefreshFitsIfAppliedInOrder`) follows
the order in which the threads have applied their replies. `MessagesRoundTrip` (`RoundTrips`)
rests on lemmas that cutting a flat list at the right multiples undoes flattening.

**`PuncPrfProofs`**, for trees of every height: `PuncturedKeyAgrees`, `KeysKeepThePointHidden`,
`BreadthFirstAgrees`. `Path(h, n, l)` is the label of the `l` topmost of `h` bits of `n`; the
invariant says of each loop that it holds the path to the bits it has looked at. That `Punc`,
which subtracts halves, looks at the bits that the other loops cut out by shifting, is the lemma
`TopBit`; that the `m`-th label of a level has the labels `2m` and `2m+1` below it is `PathChild`.

**`CkPirProofs`**, for every pseudorandom function, with colliding keys and spoilt hints, and
every number of sets, points and blocks: `TypeCorrect`, `HintsStayUntilRefreshed`
(`HintsUntilRefreshed`), `QueriesRecoverWithHint` (`RecoversExactlyWithHint`), `SetsHoldTheIndex`
(`SetHoldsIndex`, for every `setsize`) and `RefreshRightAtPoint` (the action property `RefreshExactlyAtPoint`). `NetInv`
says that what is on its way is determined by what the client called last and by its sets; the rest
is that the exclusive or of all elements of a set but one, combined with that of all, is the
one that was left out, also when two elements of a set fall on the same block and cancel.

**`DpfProofs`**, for every depth, packing, generator and conversion: `DpfTypes`,
`DpfFallsTogether` (`ServersFallTogether`), `DpfLeavesDifferAtThePoint`
(`LeavesDifferAtThePoint`), `DpfEvalsShareThePoint` for two calls of `Eval`, `DpfEveryLeafInItsPlace`
(`EveryLeafInItsPlace`) and `DpfServersShareThePoint` (`ServersShareThePoint`) for each of the three
evaluations on either server. `GenInv` says that on the path to the point the two bits oppose each
other on every level generated so far; the evaluation's invariant that a node in hand is the one
that the path so far leads to, in either recursion. The full evaluations are known by what they have
still to do (`FullInv`): the paths on the stack are, from every pointer on, consecutive
intervals of leaves that end where the pointer's part ends, and every leaf that is
written is that of its node. When the stack is empty, every leaf is in its place. `LeafNo`,
the number of a leaf, is a recursive function.

**`DpfPirProofs`**, about `HashDataStore` and `DpfPir`. The store, for every size and every
indexing: `StorePartialSums` (`PartialSums`) and `StoreAnswersTheSelection`
(`AnswersAreTheSelection`) for the four versions that compute the selection (`Sound`), and
`StoreRecoversTheRecord` for all six, what a client gets from two servers (`RecordRecovered`, a
consequence that no run checks): the invariant says of every accumulator
which records it holds, those of its residue that are selected and passed, for `answer_pir3`
those that its shift by bytes selects instead. Flipping one bit of an indexing flips one record of
the sum. The retrieval, for every height from ten on, every point, final word and filling of
the keys: `KeysLoseTheSameBytes` (`KeysAreCutAlike`: whole exactly when no byte beside the padding
is 0xFF, and otherwise cut alike) and `RetrievalIsExact` (`AnswerIsExact`). The two
keys of a query differ in one byte near their beginning and therefore agree in all the words in
which the padding is looked for; the two sums differ in nothing but the leaf of the point.

## 5. Not modelled

* Probabilities (how likely a failure is) and privacy: the models say what can happen.
* Timing, statistics and what is printed; the simulation and the microbenchmark beyond the
  calls they make, which are behaviours of `IncPir`. The costs that the simulation estimates
  are formulas in floating point.
* Protocol buffers and sockets themselves: `Serial` begins and ends with the lists of fields,
  `NetServer` with whole messages that arrive, are cut off or do not. Messages that do not parse
  and errors of `accept` are outside.
* AES, the pseudorandom generator, the hash, logging and the `gsl` header of `dpf-pir`:
  parameters or symbols in the models of the code that calls them.
* CK-PIR's `run_refresh`, which no program calls.
* Integer widths, except for the counts of slots. `dpf.cpp:63` shifts an `int` by up to 63 bits;
  the programs use at most 20.
